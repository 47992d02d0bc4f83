----------------------------- MODULE ResourceRun -----------------------------
(***************************************************************************)
(* What the run of one resource promises (LaunchService._run_one around    *)
(* run_with_retry), with no clock, no database and no other resource: the  *)
(* attempts are made one after the other, none beyond the last; READY      *)
(* comes out of the attempt under way, after its own launch and, where     *)
(* there is a readiness condition, its own wait; and the run ends once.    *)
(* LaunchEngine.tla implements it for every resource of a launch,          *)
(* RetryReadiness.tla for one resource against the clock.                  *)
(***************************************************************************)
EXTENDS Naturals

VARIABLES total,    \* the attempts the resource has, fixed for a run
          probed,   \* it has a readiness condition; fixed too
          at,       \* what the run is doing
          attempt,  \* the number of the attempt
          launched, \* the adapter has returned in this attempt
          outcome   \* what is reported of the resource, or "none"

runVars == <<total, probed, at, attempt, launched, outcome>>

RunInit ==
    /\ total \in Nat \ {0}
    /\ probed \in BOOLEAN
    /\ at = "launch" /\ attempt = 1
    /\ launched = FALSE
    /\ outcome = "none"

(* The run is over: with this outcome, or with none, if it could not be    *)
(* reported.                                                               *)
Over(o) ==
    /\ at' = "over"
    /\ outcome' \in {o, "none"}

LaunchReturns ==
    /\ at = "launch"
    /\ launched' = TRUE
    /\ \/ probed /\ at' = "probe" /\ UNCHANGED outcome
       \/ ~probed /\ Over("ready")
    /\ UNCHANGED <<total, probed, attempt>>

TurnsReady ==
    /\ at = "probe"
    /\ Over("ready")
    /\ UNCHANGED <<total, probed, attempt, launched>>

(* A failure may be final whatever attempts are left; the last one is.     *)
Fails ==
    /\ at \in {"launch", "probe"}
    /\ \/ attempt < total /\ at' = "backoff" /\ UNCHANGED outcome
       \/ Over("failed")
    /\ UNCHANGED <<total, probed, attempt, launched>>

TriesAgain ==
    /\ at = "backoff"
    /\ at' = "launch"
    /\ attempt' = attempt + 1
    /\ launched' = FALSE
    /\ UNCHANGED <<total, probed, outcome>>

(* The launch around it is given up. *)
Abandon ==
    /\ at # "over"
    /\ at' = "over"
    /\ UNCHANGED <<total, probed, attempt, launched, outcome>>

RunNext == LaunchReturns \/ TurnsReady \/ Fails \/ TriesAgain \/ Abandon

RunSpec == RunInit /\ [][RunNext]_runVars
==============================================================================
