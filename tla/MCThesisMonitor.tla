-------------------------- MODULE MCThesisMonitor --------------------------
(* Small instances of ThesisMonitor for TLC.                               *)
EXTENDS ThesisMonitor

CONSTANTS w1, s1, e1, e2, r1, r2

OneTicker  == {w1}
OneSource  == {s1}
OneEvent   == {e1}
TwoEvents  == {e1, e2}
FromOne    == [e \in Event |-> s1]
NoEvents   == {}
TwoRuns    == {r1, r2}
AllStatuses == {"active", "paused", "closed"}
CloseOnly   == {"closed"}

\* The two events of a source differ in nothing: e1 is the one shown first.
InOrder == stamp[e2] # 0 => stamp[e1] # 0
=============================================================================
