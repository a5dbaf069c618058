------------------------------- MODULE MCPage -------------------------------
(* Model values of Page for TLC: how far each part is followed, lists of  *)
(* memos that grow, shrink and change order, queries that match one item, *)
(* two or all.                                                            *)
EXTENDS Page

CONSTANTS m1, m2, m3, i1, i2, i3, all, some, one

MCMaxActs == [p \in PageParts |-> CASE p = "filters" -> 3
                                [] p = "tasks" -> 4
                                [] p = "grid" -> 4
                                [] OTHER -> 6]

MCLists == {<<m1, m2>>, <<m1, m2, m3>>, <<m3, m1>>}
MCItems == <<i1, i2, i3>>
MCMatching == (all :> {i1, i2, i3}) @@ (some :> {i1, i3}) @@ (one :> {i2})
=============================================================================
