-------------------------- MODULE MCRetryReadiness --------------------------
(* Policies for RetryReadiness: the backoff below, at and above the maximum *)
(* delay, one whose power overflows, and no retry at all.                   *)
EXTENDS RetryReadiness

MCPower(base, n) == base ^ n

Policy(attempts, timeout, initial, maximum, backoff, kind) ==
    [attempts |-> attempts, timeout |-> timeout, initial |-> initial, maximum |-> maximum,
     backoff |-> backoff, probe |-> kind]

MCPolicies ==
    {Policy(3, 3, 1, 2, 4, kind) : kind \in {"tcp", "http", "command"}}
    \cup {Policy(3, 2, 1, 9, 5, "http"), Policy(1, 4, 0, 0, 1, "command"), Policy(2, 1, 2, 2, 1, None)}
==============================================================================
