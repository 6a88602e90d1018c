--------------------------- MODULE RuntimeGovernor ---------------------------
(***************************************************************************)
(* The reliability governor of synth-runtime.ts: every degradation of the  *)
(* language model and every failed run is an error, every other run a      *)
(* success; their counts decide in which mode the pipeline works.          *)
(***************************************************************************)
EXTENDS Naturals

VARIABLES
    governor,
    streak, total, upgrades   \* history: the successes since the last error, all errors,
                              \* how often the mode has become a freer one

governorVars == <<governor, streak, total, upgrades>>

Modes == {"full", "conservative", "safe_minimal"}

LessOne(n) == IF n > 0 THEN n - 1 ELSE 0

\* k errors with no success between them: the mode follows from the last.
AfterErrors(g, k) ==
    [mode |-> IF g.errors + k >= 5 THEN "safe_minimal"
              ELSE IF g.errors + k >= 2 THEN "conservative" ELSE g.mode,
     errors |-> g.errors + k,
     successes |-> IF g.successes > k THEN g.successes - k ELSE 0]

Freer(g, threshold, mode) ==
    IF g.successes + 1 >= threshold
    THEN [mode |-> mode, errors |-> LessOne(g.errors), successes |-> g.successes + 1]
    ELSE [g EXCEPT !.successes = @ + 1]

AfterSuccess(g) ==
    IF g.mode = "safe_minimal" THEN Freer(g, 3, "conservative")
    ELSE IF g.mode = "conservative" THEN Freer(g, 5, "full")
    ELSE [g EXCEPT !.successes = @ + 1]

RecordGovernorErrors(k) ==
    /\ governor' = AfterErrors(governor, k)
    /\ streak' = 0 /\ total' = total + k
    /\ UNCHANGED upgrades

RecordGovernorSuccess ==
    /\ governor' = AfterSuccess(governor)
    /\ streak' = streak + 1
    /\ upgrades' = IF governor'.mode # governor.mode THEN upgrades + 1 ELSE upgrades
    /\ UNCHANGED total

NewGovernor == [mode |-> "full", errors |-> 0, successes |-> 0]

GovernorInit == governor = NewGovernor /\ streak = 0 /\ total = 0 /\ upgrades = 0

\* One call of the model may report three degradations.
GovernorNext ==
    \/ \E k \in 1 .. 3 : RecordGovernorErrors(k)
    \/ RecordGovernorSuccess

GovernorSpec == GovernorInit /\ [][GovernorNext]_governorVars

------------------------------------------------------------------------------
GovernorTypeOK ==
    /\ governor \in [mode : Modes, errors : Nat, successes : Nat]
    /\ streak \in Nat /\ total \in Nat /\ upgrades \in Nat

\* Five runs in a row without an error lead back to the full mode and three out of the safe one,
\* whatever happened before; and with two or more errors open the last of which was no success,
\* the mode is not the full one. (recordGovernorError, recordGovernorSuccess)
ModeFollowsRuns ==
    /\ streak >= 3 => governor.mode # "safe_minimal"
    /\ streak >= 5 => governor.mode = "full"
    /\ streak = 0 /\ governor.errors >= 2 => governor.mode # "full"
    /\ streak = 0 /\ governor.errors >= 5 => governor.mode = "safe_minimal"

\* An error is taken back by a freer mode only, one at a time, and never the last one: the count
\* is cut off at zero in vain. (recordGovernorSuccess)
ErrorsAreRemembered ==
    /\ governor.errors + upgrades = total
    /\ upgrades > 0 => governor.errors > 0

GovernorIsSound == ModeFollowsRuns /\ ErrorsAreRemembered

=============================================================================
