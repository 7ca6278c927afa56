--------------------------- MODULE MCTargetMonitor ---------------------------
(* Instances of TargetMonitor for TLC. *)
EXTENDS TargetMonitor, TLC

\* Nothing above anything: one target, or dependencies set target by target.
FlatAbove == [t \in Targets |-> {}]

\* The second target's device sits below the first one's on the service map.
StackAbove == [t \in Targets |-> {u \in Targets : u < t}]

\* No guard reads the recorded results or the refused keys: a run whose
\* properties do not read them either need not tell states apart by them.
WithoutStreak  == <<live, row, incident, queued, refused, flight, job, follow>>
WithoutHistory == <<live, row, incident, queued, flight, job, follow>>

\* Runs are alike.
RunSymmetry == Permutations(Runs)
=============================================================================
