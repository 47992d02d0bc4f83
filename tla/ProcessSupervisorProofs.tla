----------------------- MODULE ProcessSupervisorProofs -----------------------
(***************************************************************************)
(* What ProcessSupervisor.tla promises for any number of stops and of      *)
(* children.  The inductive invariant says what a signal on its way still  *)
(* knows of the process it was aimed at.                                   *)
(***************************************************************************)
EXTENDS ProcessSupervisor, TLAPS

At == {"idle", "signalling", "graceful", "expired", "waiting", "returned"}

CallType == [at : At, signal : {"none", "TERM", "KILL"},
             target : {"group", "stranger", "nobody"}, ran : BOOLEAN, late : BOOLEAN]

(* Every child was counted, and only a process that was started is stopped.*)
Started ==
    /\ members <= forks
    /\ leader \in {"none", "refused"} => \A c \in Calls : call[c].at = "idle"

(* What a stop has sent ends the whole group, if it found it there. *)
Obeyed(x) == x.ran /\ privileged = {} /\ (x.signal = "KILL" \/ stubborn = {})

(* A running process is its pid's; once a signal that all obey has gone to *)
(* its group, it and its children are gone, and it starts no others.       *)
Killed(c) ==
    /\ call[c].ran => call[c].target = "group" /\ call[c].at # "idle"
    /\ call[c].at = "graceful" => call[c].signal = "TERM"
    /\ call[c].at \in {"graceful", "waiting", "returned"} /\ Obeyed(call[c])
       => members = 0 /\ leader # "running"

(* The loop learns of an exit neither before stop has sent what it decided *)
(* to send, nor without stop's learning of it.                             *)
Knows(c) ==
    /\ call[c].at = "signalling" /\ ~call[c].late => ~noticed
    /\ call[c].at = "returned" => noticed

IInv == TypeOK /\ Started /\ \A c \in Calls : Killed(c) /\ Knows(c)

------------------------------------------------------------------------------

LEMMA InitInv == Init => IInv
<1> SUFFICES ASSUME Init PROVE IInv
  OBVIOUS
<1>1. Idle \in CallType /\ Idle.at = "idle" /\ ~Idle.ran
  BY DEF Idle, CallType, At
<1>2. call \in [Calls -> CallType] /\ \A c \in Calls : call[c] = Idle
  BY <1>1 DEF Init
<1>3. TypeOK
  <2>1. members \in 0..MaxForks /\ forks \in 0..MaxForks
    BY ForksAssumption DEF Init
  <2> QED
    BY <1>2, <2>1 DEF Init, TypeOK, CallType, At
<1>4. Started
  BY <1>1, <1>2 DEF Init, Started
<1>5. \A c \in Calls : Killed(c) /\ Knows(c)
  BY <1>1, <1>2 DEF Killed, Knows
<1> QED
  BY <1>3, <1>4, <1>5 DEF IInv

(* What a signal aimed from here looks like. *)
LEMMA AimsType ==
    ASSUME IInv, NEW c \in Calls, NEW signal \in {"TERM", "KILL"}, Aims(c, signal)
    PROVE  \E x \in CallType :
              /\ call' = [call EXCEPT ![c] = x]
              /\ x.at = "signalling" /\ x.signal = signal
              /\ x.ran => x.target = "group"
              /\ x.late = (call[c].at = "expired")
<1>1. PICK target \in Targets :
         call' = [call EXCEPT ![c] = [at |-> "signalling", signal |-> signal, target |-> target,
                                      ran |-> leader = "running", late |-> call[c].at = "expired"]]
  BY DEF Aims
<1>2. target \in {"group", "stranger", "nobody"} /\ (leader = "running" => target = "group")
  BY DEF Targets, IInv, TypeOK
<1> DEFINE x == [at |-> "signalling", signal |-> signal, target |-> target,
                 ran |-> leader = "running", late |-> call[c].at = "expired"]
<1>3. x \in CallType
  BY <1>2 DEF CallType, At
<1> QED
  BY <1>1, <1>2, <1>3

(* What the operating system does. *)
LEMMA SystemStep ==
    ASSUME IInv, Start \/ Fork \/ MemberExits \/ Exits \/ Reap \/ PidReused
    PROVE  IInv'
<1> USE ForksAssumption
<1>0. TypeOK /\ Started /\ \A c \in Calls : Killed(c) /\ Knows(c)
  BY DEF IInv
<1>1. call' = call /\ noticed' = noticed
  BY DEF Start, Fork, MemberExits, Exits, Reap, PidReused
<1>2. TypeOK'
  <2>1. UNCHANGED <<stubborn, privileged>> /\ stranger' \in {"none", "alive", "hit"}
    BY <1>0 DEF TypeOK, Start, Fork, MemberExits, Exits, Reap, PidReused
  <2>2. leader' \in {"none", "refused", "running", "zombie", "reaped"}
    BY <1>0 DEF TypeOK, Start, Fork, MemberExits, Exits, Reap, PidReused
  <2>3. members' \in 0..MaxForks /\ forks' \in 0..MaxForks
    BY <1>0 DEF TypeOK, Started, Start, Fork, MemberExits, Exits, Reap, PidReused
  <2>4. /\ noticed' => leader' = "reaped"
        /\ stranger' # "none" => leader' = "reaped" /\ members' = 0
    BY <1>0, <1>1 DEF TypeOK, Start, Fork, MemberExits, Exits, Reap, PidReused
  <2> QED
    BY <1>0, <1>1, <2>1, <2>2, <2>3, <2>4 DEF TypeOK
<1>3. Started'
  BY <1>0, <1>1 DEF TypeOK, Started, Start, Fork, MemberExits, Exits, Reap, PidReused
<1>4. ASSUME NEW c \in Calls
      PROVE  Killed(c)'
  <2>1. Obeyed(call[c])' <=> Obeyed(call[c])
    BY <1>1 DEF Obeyed, Start, Fork, MemberExits, Exits, Reap, PidReused
  <2> QED
    BY <1>0, <1>1, <2>1 DEF TypeOK, Started, Killed, Start, Fork, MemberExits, Exits, Reap, PidReused
<1>5. ASSUME NEW c \in Calls
      PROVE  Knows(c)'
  BY <1>0, <1>1 DEF Knows
<1> QED
  BY <1>2, <1>3, <1>4, <1>5 DEF IInv

(* A call goes on while the process stays as it is. *)
LEMMA CallStep ==
    ASSUME IInv, NEW c \in Calls, NEW x \in CallType, call' = [call EXCEPT ![c] = x],
           UNCHANGED <<system, noticed>>, leader \notin {"none", "refused"},
           x.ran => x.target = "group" /\ x.at # "idle",
           x.at # "graceful",
           x.at \in {"waiting", "returned"} /\ Obeyed(x) => members = 0 /\ leader # "running",
           x.at = "signalling" /\ ~x.late => ~noticed,
           x.at = "returned" => noticed
    PROVE  IInv'
<1>0. TypeOK /\ Started /\ \A d \in Calls : Killed(d) /\ Knows(d)
  BY DEF IInv
<1>1. UNCHANGED <<leader, members, stubborn, privileged, stranger, forks, noticed>>
  BY DEF system
<1>2. call' \in [Calls -> CallType] /\ call'[c] = x /\ \A d \in Calls \ {c} : call'[d] = call[d]
  BY <1>0 DEF TypeOK, CallType, At
<1>3. TypeOK'
  BY <1>0, <1>1, <1>2 DEF TypeOK, CallType, At
<1>4. Started'
  BY <1>0, <1>1 DEF Started
<1>5. ASSUME NEW d \in Calls
      PROVE  Killed(d)' /\ Knows(d)'
  <2>1. CASE d = c
    BY <1>1, <1>2, <2>1 DEF Killed, Knows, Obeyed
  <2>2. CASE d # c
    BY <1>0, <1>1, <1>2, <2>2 DEF Killed, Knows, Obeyed
  <2> QED
    BY <2>1, <2>2
<1> QED
  BY <1>3, <1>4, <1>5 DEF IInv

(* A signal reaches its target. *)
LEMMA SignalStep ==
    ASSUME IInv, NEW c \in Calls, Signal(c)
    PROVE  IInv'
<1> USE ForksAssumption
<1> DEFINE x == [call[c] EXCEPT !.at = IF call[c].signal = "TERM" THEN "graceful" ELSE "waiting"]
<1>0. TypeOK /\ Started /\ \A d \in Calls : Killed(d) /\ Knows(d)
  BY DEF IInv
<1>1. call[c].at = "signalling" /\ UNCHANGED <<stubborn, privileged, forks, noticed>>
      /\ Hit(call[c].target, call[c].signal) /\ call' = [call EXCEPT ![c] = x]
  BY DEF Signal
<1>2. call \in [Calls -> CallType]
  BY <1>0 DEF TypeOK, CallType, At
<1>3. x \in CallType
  BY <1>2 DEF CallType, At
<1>4. x.signal = call[c].signal /\ x.target = call[c].target /\ x.ran = call[c].ran
      /\ x.at \in {"graceful", "waiting"} /\ (x.at = "graceful" <=> x.signal = "TERM")
  BY <1>2 DEF CallType
<1> HIDE DEF x
<1>5. call' \in [Calls -> CallType] /\ call'[c] = x /\ \A d \in Calls \ {c} : call'[d] = call[d]
  BY <1>1, <1>2, <1>3
<1>6. /\ leader' = leader \/ (leader = "running" /\ leader' = "zombie")
      /\ members' \in 0..members
      /\ stranger' = stranger \/ (stranger = "alive" /\ stranger' = "hit")
  <2>1. members \in Nat
    BY <1>0 DEF TypeOK
  <2>2. leader' = leader \/ (leader = "running" /\ leader' = "zombie")
    BY <1>1 DEF Hit
  <2>3. members' \in {members} \cup {0} \cup 0..members
    BY <1>1 DEF Hit
  <2>4. stranger' = stranger \/ (stranger = "alive" /\ stranger' = "hit")
    BY <1>1 DEF Hit
  <2> QED
    BY <2>1, <2>2, <2>3, <2>4
<1>7. leader \notin {"none", "refused"}
  BY <1>0, <1>1 DEF Started
<1>8. TypeOK'
  BY <1>0, <1>1, <1>5, <1>6 DEF TypeOK, CallType, At
<1>9. Started'
  BY <1>0, <1>1, <1>6, <1>7 DEF Started, TypeOK
<1>10. Killed(c)'
  <2>1. Obeyed(call[c])' <=> Obeyed(x)
    BY <1>1, <1>5 DEF Obeyed
  <2>2. Obeyed(x) => Dies("leader", call[c].signal) /\ Dies("members", call[c].signal)
    BY <1>4 DEF Obeyed, Dies
  <2>3. Obeyed(x) => call[c].target = "group"
    BY <1>0, <1>4 DEF Obeyed, Killed
  <2>4. Obeyed(x) => members' = 0 /\ leader' # "running"
    BY <1>1, <2>2, <2>3 DEF Hit
  <2>5. call[c].ran => call[c].target = "group"
    BY <1>0 DEF Killed
  <2> QED
    BY <1>4, <1>5, <2>1, <2>4, <2>5 DEF Killed
<1>11. Knows(c)'
  BY <1>4, <1>5 DEF Knows
<1>12. ASSUME NEW d \in Calls \ {c}
       PROVE  Killed(d)' /\ Knows(d)'
  <2>1. call'[d] = call[d] /\ (Obeyed(call[d])' <=> Obeyed(call[d]))
    BY <1>1, <1>5 DEF Obeyed
  <2>2. members = 0 => members' = 0
    BY <1>6
  <2>3. leader # "running" => leader' # "running"
    BY <1>6
  <2> QED
    BY <1>0, <1>1, <2>1, <2>2, <2>3 DEF Killed, Knows
<1> QED
  BY <1>8, <1>9, <1>10, <1>11, <1>12 DEF IInv

(* stop begins. *)
LEMMA StopStep ==
    ASSUME IInv, NEW c \in Calls, Stop(c)
    PROVE  IInv'
<1>0. call \in [Calls -> CallType] /\ Killed(c) /\ Knows(c)
  BY DEF IInv, TypeOK, CallType, At
<1>1. call[c].at = "idle" /\ leader \notin {"none", "refused"} /\ UNCHANGED <<system, noticed>>
  BY DEF Stop
<1>2. CASE noticed
  <2> DEFINE x == [call[c] EXCEPT !.at = "waiting"]
  <2>1. call' = [call EXCEPT ![c] = x]
    BY <1>2 DEF Stop
  <2>2. x \in CallType /\ x.at = "waiting" /\ x.ran = call[c].ran /\ x.target = call[c].target
    BY <1>0 DEF CallType, At
  <2>3. ~x.ran
    BY <1>0, <1>1, <2>2 DEF Killed
  <2> QED
    BY <1>1, <2>1, <2>2, <2>3, CallStep DEF Obeyed
<1>3. CASE ~noticed
  <2>1. PICK signal \in {"TERM", "KILL"} : Aims(c, signal)
    BY <1>3 DEF Stop
  <2>2. PICK x \in CallType : /\ call' = [call EXCEPT ![c] = x]
                              /\ x.at = "signalling" /\ x.signal = signal
                              /\ x.ran => x.target = "group"
                              /\ x.late = (call[c].at = "expired")
    BY <2>1, AimsType
  <2> QED
    BY <1>1, <1>3, <2>2, CallStep
<1> QED
  BY <1>2, <1>3


(* The graceful time is over, or stop returns. *)
LEMMA WaitStep ==
    ASSUME IInv, NEW c \in Calls, GraceEnds(c) \/ Escalate(c) \/ Returns(c)
    PROVE  IInv'
<1>0. TypeOK /\ Started /\ call \in [Calls -> CallType] /\ Killed(c) /\ Knows(c)
  BY DEF IInv, TypeOK, CallType, At
<1>1. leader \notin {"none", "refused"} /\ UNCHANGED <<system, noticed>>
  BY <1>0 DEF Started, GraceEnds, Escalate, Returns
<1>2. CASE GraceEnds(c)
  <2> DEFINE x == [call[c] EXCEPT !.at = "expired"]
  <2>1. call' = [call EXCEPT ![c] = x]
    BY <1>2 DEF GraceEnds
  <2>2. x \in CallType /\ x.at = "expired" /\ x.ran = call[c].ran /\ x.target = call[c].target
    BY <1>0 DEF CallType, At
  <2>3. x.ran => x.target = "group" /\ x.at # "idle"
    BY <1>0, <2>2 DEF Killed
  <2> HIDE DEF x
  <2> QED
    BY <1>1, <2>1, <2>2, <2>3, CallStep
<1>3. CASE Escalate(c)
  <2>1. Aims(c, "KILL") /\ call[c].at = "expired"
    BY <1>3 DEF Escalate
  <2>2. PICK x \in CallType : /\ call' = [call EXCEPT ![c] = x]
                              /\ x.at = "signalling" /\ x.signal = "KILL"
                              /\ x.ran => x.target = "group"
                              /\ x.late = (call[c].at = "expired")
    BY <2>1, AimsType
  <2>3. x.late
    BY <2>1, <2>2
  <2> QED
    BY <1>1, <2>2, <2>3, CallStep
<1>4. CASE Returns(c)
  <2> DEFINE x == [call[c] EXCEPT !.at = "returned"]
  <2>1. call' = [call EXCEPT ![c] = x] /\ noticed /\ call[c].at \in {"graceful", "waiting"}
    BY <1>4 DEF Returns
  <2>2. /\ x \in CallType /\ x.at = "returned" /\ x.ran = call[c].ran
        /\ x.target = call[c].target /\ x.signal = call[c].signal
    BY <1>0 DEF CallType, At
  <2>3. x.ran => x.target = "group" /\ x.at # "idle"
    BY <1>0, <2>2 DEF Killed
  <2>4. leader # "running" /\ (Obeyed(x) => members = 0)
    BY <1>0, <2>1, <2>2 DEF Killed, TypeOK, Obeyed
  <2> HIDE DEF x
  <2> QED
    BY <1>1, <2>1, <2>2, <2>3, <2>4, CallStep
<1> QED
  BY <1>2, <1>3, <1>4

(* The loop learns of the exit. *)
LEMMA NoticeStep ==
    ASSUME IInv, Notice
    PROVE  IInv'
<1>0. TypeOK /\ Started /\ \A c \in Calls : Killed(c) /\ Knows(c)
  BY DEF IInv
<1>1. UNCHANGED <<leader, members, stubborn, privileged, stranger, forks, call>> /\ noticed' = TRUE
      /\ leader = "reaped" /\ \A c \in Calls : call[c].at # "signalling"
  BY DEF Notice, LoopIsFree, system
<1>2. TypeOK' /\ Started'
  BY <1>0, <1>1 DEF TypeOK, Started
<1>3. \A c \in Calls : Killed(c)' /\ Knows(c)'
  BY <1>0, <1>1 DEF Killed, Knows, Obeyed
<1> QED
  BY <1>2, <1>3 DEF IInv

LEMMA InductiveStep ==
    ASSUME IInv, [Next]_vars
    PROVE  IInv'
<1>1. CASE UNCHANGED vars
  BY <1>1 DEF IInv, TypeOK, Started, Killed, Knows, Obeyed, vars, system
<1> QED
  BY <1>1, SystemStep, SignalStep, StopStep, WaitStep, NoticeStep DEF Next, Stopping

LEMMA Invariant == Spec => []IInv
BY InitInv, InductiveStep, PTL DEF Spec

------------------------------------------------------------------------------

(* The process, the loop and the calls keep their types. *)
THEOREM TypeCorrect == Spec => []TypeOK
BY Invariant, PTL DEF IInv

(* When stop returns the process is gone and known to be; where its signal *)
(* was one that the whole group obeys and may be sent, and found it        *)
(* running, its children are gone too, however many there were.            *)
THEOREM StopsAreFinal == Spec => []StopIsFinal
<1>1. IInv => StopIsFinal
  BY DEF IInv, StopIsFinal, TypeOK, Killed, Knows, Obeyed
<1> QED
  BY <1>1, Invariant, PTL

(* A process that has got the pid meanwhile is spared once the exit is     *)
(* known, but for the stop whose graceful time had just run out.           *)
THEOREM StrangersAreSpared == Spec => SparesStrangers
<1>1. IInv /\ [Next]_vars =>
        [stranger = "alive" /\ stranger' = "hit" =>
           \/ ~noticed
           \/ \E c \in Calls : call[c].at = "signalling" /\ call[c].late]_vars
  <2> SUFFICES ASSUME IInv, Next, stranger = "alive", stranger' = "hit", noticed
               PROVE  \E c \in Calls : call[c].at = "signalling" /\ call[c].late
    BY DEF vars
  <2>1. PICK c \in Calls : Signal(c)
    BY DEF Next, Stopping, Start, Fork, MemberExits, Exits, Reap, PidReused, Notice, Stop,
           GraceEnds, Escalate, Returns, system
  <2> QED
    BY <2>1 DEF Signal, IInv, Knows
<1> QED
  BY <1>1, Invariant, PTL DEF Spec, SparesStrangers
==============================================================================
