-------------------------- MODULE MCRequestWorkers --------------------------
(***************************************************************************)
(* RequestWorkers on small instances.                                      *)
(***************************************************************************)
EXTENDS RequestWorkers, TLC

\* One crosses midnight (DayLength = 2), the other is within a day.
NightAndDay == {<<1, 3>>, <<2, 3>>}

\* Within the first day.
SameDay == {<<1, 2>>}

\* With DayLength = 1 all cross a midnight; two of them touch, the third overlaps both.
Nights == {<<0, 1>>, <<0, 2>>, <<1, 2>>}

\* Overlapping windows that cross the first midnight.
FirstNight == {<<0, 2>>, <<1, 3>>}

\* The manager answers for the van and for nothing else.
VanManaged == [r \in Resources |-> IF r = "van" THEN "mgr" ELSE Nobody]

\* Nobody is responsible for it, as for a resource created through the app.
Unmanaged == [r \in Resources |-> Nobody]

WorkerSymmetry == Permutations(Workers)

=============================================================================
