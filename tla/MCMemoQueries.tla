--------------------------- MODULE MCMemoQueries ---------------------------
(* Model values of MemoQueries for TLC: two task items, two writes at a time. *)
EXTENDS MemoQueries

CONSTANTS t1, t2, w1, w2

MCTasks == {t1, t2}
MCSlots == {w1, w2}
=============================================================================
