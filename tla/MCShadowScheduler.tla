-------------------------- MODULE MCShadowScheduler --------------------------
(***************************************************************************)
(* Instances of ShadowScheduler for TLC. The task options are functions    *)
(* and sequences over ids, which a .cfg cannot write.                      *)
(***************************************************************************)
EXTENDS ShadowScheduler

\* Three tasks: a limited recurring one with a retry, two one-shot ones of
\* which the last has the highest priority.
Priority3 == <<1, 1, 2>>
Retries3 == <<1, 0, 0>>
Recurring3 == {1}
Runs3 == <<2, 0, 0>>

\* Two tasks: a limited recurring task and a one-shot, both with a retry.
Priority2 == <<1, 2>>
Retries2 == <<1, 0>>
Recurring2 == {1}
Runs2 == <<1, 0>>

\* Three tasks that compete for slots: a one-shot, a limited recurring task
\* of higher priority, and a task that recurs for ever and ranks last.
PriorityC == <<2, 3, 2>>
RetriesC == <<1, 0, 0>>
RecurringC == {2, 3}
RunsC == <<0, 1, 0>>
=============================================================================
