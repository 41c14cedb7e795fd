--------------------------- MODULE MCOverviewPages ---------------------------
(* OverviewPages for TLC: two employees with the same name.  The lists of     *)
(* RiskViews are compared with the usual definitions of filter, sort and sum. *)
EXTENDS OverviewPages

TwoEmployees == <<"ann", "bob">>
Names == [ann |-> 1, bob |-> 1]
Jobs == [ann |-> "Developer", bob |-> "Manager"]
Others == [ann |-> 0, bob |-> 36]
TwoRoles == <<"Admin", "Manager">>
Members == [Admin |-> 1, Manager |-> 3]
Keys == [Admin |-> {<<"dashboard", "view">>, <<"events", "review">>}, Manager |-> {<<"dashboard", "view">>}]

SomeKinds == {[sev |-> "medium", still |-> TRUE], [sev |-> "high", still |-> FALSE]}

Signal(h, s, b) == [h |-> h, s |-> s, b |-> b]
\* Up to four numbers, each in two kinds that a sort by number does not tell apart.
SomeLists == BoundedSeq({1, 2} \X {"red", "blue"}, 4)
BySortSeq(s) ==
  LET placed == SortSeq([i \in DOMAIN s |-> <<i, s[i]>>], LAMBDA a, b :
                  a[2][1] > b[2][1] \/ (a[2][1] = b[2][1] /\ a[1] < b[1]))
  IN [i \in DOMAIN s |-> placed[i][2]]

ASSUME ListsAgree == \A s \in SomeLists :
  /\ Sorted(s, LAMBDA a, b : a[1] > b[1]) = BySortSeq(s)
  /\ Kept(s, LAMBDA a : a[2] = "red") = SelectSeq(s, LAMBDA a : a[2] = "red")
  /\ Total([i \in DOMAIN s |-> s[i][1]]) = FoldLeft(LAMBDA sum, a : sum + a[1], 0, s)

SomeSignals == {Signal(1, 998, 1), Signal(11, 930, 2), Signal(14, 900, 20)}
==============================================================================
