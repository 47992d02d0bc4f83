-------------------------- MODULE ProcessSupervisor --------------------------
(***************************************************************************)
(* infrastructure/subprocesses.py: one process started in a group of its   *)
(* own, and calls of stop that end it while it may end by itself.          *)
(*                                                                         *)
(* The operating system runs between any two system calls.  A thread of    *)
(* asyncio reaps the process and only then tells the event loop; the loop  *)
(* itself runs one coroutine at a time, up to its next await.  A pid can be*)
(* given to another process once it is reaped and no group has it.         *)
(***************************************************************************)
EXTENDS Naturals

CONSTANTS Calls,    \* calls of stop that may be made
          MaxForks  \* bound on children the process starts

ASSUME ForksAssumption == MaxForks \in Nat

VARIABLES leader,    \* the process started: none, refused, running, zombie or reaped
          members,   \* children of it that are alive, all in its group
          stubborn,  \* who ignores SIGTERM: "leader", some of the "members"
          privileged, \* who runs as another user, where no signal of ours lands
          stranger,  \* another process with the same pid: none, alive or hit
          forks,     \* number of children started
          noticed,   \* the loop knows the exit code
          call       \* the calls of stop: where each is, the signal it has sent or is
                     \* about to, to whom; whether the process ran then, and whether
                     \* the graceful time was over

system == <<leader, members, stubborn, privileged, stranger, forks>>
vars == <<system, noticed, call>>

Idle == [at |-> "idle", signal |-> "none", target |-> "nobody", ran |-> FALSE, late |-> FALSE]

Init ==
    /\ leader = "none" /\ members = 0
    /\ stubborn \in SUBSET {"leader", "members"}
    /\ privileged \in SUBSET {"leader", "members"}
    /\ stranger = "none" /\ forks = 0 /\ noticed = FALSE
    /\ call = [c \in Calls |-> Idle]

------------------------------------------------------------------------------
(* The operating system. *)

Fork ==
    /\ leader = "running" /\ forks < MaxForks
    /\ forks' = forks + 1 /\ members' = members + 1
    /\ UNCHANGED <<leader, stubborn, privileged, stranger, noticed, call>>

MemberExits ==
    /\ members > 0
    /\ members' = members - 1
    /\ UNCHANGED <<leader, stubborn, privileged, stranger, forks, noticed, call>>

Exits ==
    /\ leader = "running"
    /\ leader' = "zombie"
    /\ UNCHANGED <<members, stubborn, privileged, stranger, forks, noticed, call>>

(* The child watcher's thread. *)
Reap ==
    /\ leader = "zombie"
    /\ leader' = "reaped"
    /\ UNCHANGED <<members, stubborn, privileged, stranger, forks, noticed, call>>

PidReused ==
    /\ leader = "reaped" /\ members = 0 /\ stranger = "none"
    /\ stranger' = "alive"
    /\ UNCHANGED <<leader, members, stubborn, privileged, forks, noticed, call>>

------------------------------------------------------------------------------
(* ProcessSupervisor.start. *)

Start ==
    /\ leader = "none"
    /\ leader' \in {"running", "refused"}
    /\ UNCHANGED <<members, stubborn, privileged, stranger, forks, noticed, call>>

------------------------------------------------------------------------------
(* ProcessSupervisor.stop. *)

(* Between getpgid and killpg nothing else runs in the event loop.         *)
LoopIsFree == \A c \in Calls : call[c].at # "signalling"

\* Mutant: the exit is reported before the process is reaped.
Notice_Early ==
    /\ LoopIsFree
    /\ leader \in {"zombie", "reaped"} /\ ~noticed
    /\ noticed' = TRUE
    /\ UNCHANGED <<system, call>>

(* The exit code reaches Process.returncode. *)
Notice ==
    /\ LoopIsFree
    /\ leader = "reaped" /\ ~noticed
    /\ noticed' = TRUE
    /\ UNCHANGED <<system, call>>

(* What getpgid may return: for a zombie, it depends on the system.        *)
Targets == {target \in {"group", "stranger", "nobody"} :
    \/ target = "group" /\ leader \in {"running", "zombie"}
    \/ target = "stranger" /\ stranger = "alive"
    \/ target = "nobody" /\ leader # "running" /\ stranger # "alive"}

(* A stop goes on to signal a group, or skips it as nobody has the pid.    *)
Aims(c, signal) == \E target \in Targets :
    call' = [call EXCEPT ![c] = [at |-> "signalling", signal |-> signal, target |-> target,
                                 ran |-> leader = "running", late |-> call[c].at = "expired"]]

\* Mutant: stop signals without asking whether the process still runs.
Stop_Unchecked(c) ==
    /\ call[c].at = "idle" /\ leader \notin {"none", "refused"} /\ LoopIsFree
    /\ Aims(c, "TERM") \/ Aims(c, "KILL")
    /\ UNCHANGED <<system, noticed>>

Stop(c) ==
    /\ call[c].at = "idle" /\ leader \notin {"none", "refused"} /\ LoopIsFree
    /\ \/ noticed /\ call' = [call EXCEPT ![c].at = "waiting"]
       \/ ~noticed /\ (Aims(c, "TERM") \/ Aims(c, "KILL"))
    /\ UNCHANGED <<system, noticed>>

(* Whom a signal ends for sure.                                            *)
Dies(who, signal) == who \notin privileged /\ (signal = "KILL" \/ who \notin stubborn)

\* Mutant: the signal goes to the process, not to its group.
Hit_LeaderOnly(target, signal) ==
    /\ leader' = IF target = "group" /\ leader = "running" /\ Dies("leader", signal)
                 THEN "zombie" ELSE leader
    /\ stranger' = IF target = "stranger" /\ stranger = "alive" THEN "hit" ELSE stranger
    /\ UNCHANGED members

(* killpg.  Children need not be alike: where some are stubborn or         *)
(* privileged, any number is left.  The errors are suppressed: nobody left *)
(* in the group, nobody in it whom we may signal, a group not ours.        *)
Hit(target, signal) ==
    /\ leader' = IF target = "group" /\ leader = "running" /\ Dies("leader", signal)
                 THEN "zombie" ELSE leader
    /\ members' \in IF target # "group" THEN {members}
                   ELSE IF Dies("members", signal) THEN {0} ELSE 0..members
    /\ stranger' = IF target = "stranger" /\ stranger = "alive" THEN "hit" ELSE stranger

Signal(c) ==
    /\ call[c].at = "signalling"
    /\ Hit(call[c].target, call[c].signal)
    /\ call' = [call EXCEPT ![c].at = IF call[c].signal = "TERM" THEN "graceful" ELSE "waiting"]
    /\ UNCHANGED <<stubborn, privileged, forks, noticed>>

\* Mutant: after the graceful timeout stop only waits.
GraceEnds_NoKill(c) ==
    /\ call[c].at = "graceful" /\ ~noticed /\ LoopIsFree
    /\ call' = [call EXCEPT ![c].at = "waiting"]
    /\ UNCHANGED <<system, noticed>>

(* The timeout of wait_for; the call goes on in a later turn of the loop.  *)
GraceEnds(c) ==
    /\ call[c].at = "graceful" /\ ~noticed /\ LoopIsFree
    /\ call' = [call EXCEPT ![c].at = "expired"]
    /\ UNCHANGED <<system, noticed>>

Escalate(c) ==
    /\ call[c].at = "expired" /\ LoopIsFree
    /\ Aims(c, "KILL")
    /\ UNCHANGED <<system, noticed>>

(* wait returns the exit code. *)
Returns(c) ==
    /\ call[c].at \in {"graceful", "waiting"} /\ LoopIsFree
    /\ noticed
    /\ call' = [call EXCEPT ![c].at = "returned"]
    /\ UNCHANGED <<system, noticed>>

------------------------------------------------------------------------------
Stopping == \E c \in Calls : Signal(c) \/ GraceEnds(c) \/ Escalate(c) \/ Returns(c)

Next ==
    \/ Start \/ Fork \/ MemberExits \/ Exits \/ Reap \/ PidReused
    \/ Notice \/ Stopping
    \/ \E c \in Calls : Stop(c)

(* The watcher reaps, the loop takes its turns and timers fire; nothing is *)
(* promised of the process and its children.                               *)
Spec ==
    /\ Init /\ [][Next]_vars
    /\ WF_vars(Reap) /\ WF_vars(Notice)
    /\ \A c \in Calls : WF_vars(Signal(c) \/ GraceEnds(c) \/ Escalate(c) \/ Returns(c))

------------------------------------------------------------------------------
TypeOK ==
    /\ leader \in {"none", "refused", "running", "zombie", "reaped"}
    /\ members \in 0..MaxForks /\ forks \in 0..MaxForks
    /\ stubborn \subseteq {"leader", "members"} /\ privileged \subseteq {"leader", "members"}
    /\ stranger \in {"none", "alive", "hit"}
    /\ noticed \in BOOLEAN
    /\ call \in [Calls -> [at : {"idle", "signalling", "graceful", "expired", "waiting", "returned"},
                           signal : {"none", "TERM", "KILL"}, target : {"group", "stranger", "nobody"},
                           ran : BOOLEAN, late : BOOLEAN]]
    /\ noticed => leader = "reaped"
    /\ stranger # "none" => leader = "reaped" /\ members = 0

(* When stop returns the process is gone and its exit code known.  Where   *)
(* its signal was aimed at a group whose leader ran, and is one that they  *)
(* all obey (SIGKILL, forced or after the graceful time, or a SIGTERM that *)
(* nobody ignores), no child is left either, unless a process of another   *)
(* user is among them.  Code: stop and _send_signal, against exits at any  *)
(* point, forks and another stop.                                          *)
StopIsFinal == \A c \in Calls :
    call[c].at = "returned" =>
        /\ leader = "reaped" /\ noticed
        /\ call[c].ran /\ privileged = {} /\ (call[c].signal = "KILL" \/ stubborn = {})
              => members = 0

(* Another process that has got the pid is not signalled once the exit is  *)
(* known, except by a stop whose graceful time ran out just before.  Code: *)
(* is_running at the head of stop; it is not asked again before SIGKILL.   *)
SparesStrangers ==
    [][stranger = "alive" /\ stranger' = "hit" =>
         \/ ~noticed
         \/ \E c \in Calls : call[c].at = "signalling" /\ call[c].late]_vars

(* Every stop returns, however stubborn the process, unless that runs on   *)
(* as another user.  Code: the SIGKILL after the graceful timeout, and for *)
(* the exception the PermissionError that is suppressed and the wait       *)
(* without a timeout that follows.                                         *)
StopReturns == \A c \in Calls :
    call[c].at # "idle" ~>
        call[c].at = "returned" \/ ("leader" \in privileged /\ leader = "running")
==============================================================================
