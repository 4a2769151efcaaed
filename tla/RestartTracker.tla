--------------------------- MODULE RestartTracker ---------------------------
(***************************************************************************)
(* Restart policy and backoff (internal/fabric/restart.go): whether a       *)
(* service that exited is started again, and how long that waits.  The      *)
(* times are numbers; the code's are 1s, 30s and 60s.                       *)
(***************************************************************************)
EXTENDS Integers

CONSTANTS BackoffFirst,  \* the first delay
          BackoffMax,    \* the longest
          StableAfter    \* having run this long forgives the past

ASSUME BackoffAssumption ==
    /\ BackoffFirst \in Nat \ {0}
    /\ BackoffMax \in Nat
    /\ BackoffFirst <= BackoffMax
    /\ StableAfter \in Nat

Policies == {"no", "on-failure", "always"}

Exits == {"clean", "failed"}

\* Mutant: only a failure is worth a restart.
ShouldRestartFailed(policy, exit) == policy # "no" /\ exit # "clean"

\* RestartPolicy.ShouldRestart.
ShouldRestart(policy, exit) ==
    \/ policy = "always"
    \/ policy = "on-failure" /\ exit # "clean"

Reset == [delay |-> 0, restarts |-> 0]

\* The delay that follows the delay d.
NextDelay(d) ==
    IF d = 0 THEN BackoffFirst
    ELSE IF d >= BackoffMax THEN d
    ELSE IF 2 * d > BackoffMax THEN BackoffMax ELSE 2 * d

\* RestartTracker.Died, of a process that ran for ranFor.
Died(t, ranFor) ==
    LET base == IF ranFor >= StableAfter THEN Reset ELSE t
    IN  [delay |-> NextDelay(base.delay), restarts |-> base.restarts + 1]

=============================================================================
