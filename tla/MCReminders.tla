------------------------------ MODULE MCReminders ------------------------------
(* The instance of Reminders that TLC checks: overlapping runs of the command.   *)
EXTENDS Reminders, TLC

JobSymmetry == Permutations(Jobs)

\* Two changes or faults in any setting; two changes and a fault where every
\* recipient is reached and no run was started for another day.
Bound ==
    \/ changes + faults <= 2
    \/ /\ changes <= 2 /\ faults <= 1 /\ today = 1
       /\ reachable = Audiences
       /\ \A j \in Jobs : jobs[j].asOf \in {0, today}

=============================================================================
