------------------------------- MODULE Masonry -------------------------------
(***************************************************************************)
(* The grid of memos (components/MasonryView): the memos of the list are  *)
(* dealt out to columns by the heights they were measured to have.  A new *)
(* list or a new number of columns deals them out at once; a new height   *)
(* does 100 ms later, from the list and the columns of the moment it was  *)
(* measured.  The editor above the first column grows with what is typed, *)
(* and is measured only when the memos are dealt out.                     *)
(***************************************************************************)
EXTENDS Widget, SequencesExt

CONSTANTS Lists,      \* the lists of memos the page may show
          Heights,    \* heights of a memo, or of the editor above the first column
          Widths,     \* numbers of columns
          NoTimer     \* no redistribution is waiting

GridMemos == UNION {ToSet(l) : l \in Lists}

ASSUME ListsAreLists == \A l \in Lists : l \in Seq(ToSet(l)) /\ IsInjective(l)
ASSUME SizesAreNat == Heights \subseteq Nat \ {0} /\ Widths \subseteq Nat \ {0}
ASSUME NoTimerIsOutside ==
    NoTimer \notin [list : Lists, columns : Widths, heights : [GridMemos -> Nat]]

-----------------------------------------------------------------------------
(* distributeItemsToColumns.  A memo not measured yet counts 0; a column   *)
(* is the sequence of the indices it shows.                                *)
HeightOf(list, column, heights) ==
    LET sum[k \in 0..Len(column)] ==
            IF k = 0 THEN 0 ELSE sum[k - 1] + heights[list[column[k]]]
    IN sum[Len(column)]

ColumnHeight(cols, c, list, heights, prefix) ==
    HeightOf(list, cols[c], heights) + (IF c = 1 THEN prefix ELSE 0)

(* The lowest column; of equally low ones that with the fewest memos, then *)
(* the first.                                                              *)
findShortestColumnIndex(cols, height) ==
    CHOOSE c \in DOMAIN cols : \A d \in DOMAIN cols :
        \/ height[c] < height[d]
        \/ height[c] = height[d] /\ Len(cols[c]) < Len(cols[d])
        \/ height[c] = height[d] /\ Len(cols[c]) = Len(cols[d]) /\ c <= d

(* Mutant of Deal: the column with the fewest memos. *)
DealFewest(cols, i, list, heights, prefix) ==
    LET height == [c \in DOMAIN cols |-> 0]
    IN [cols EXCEPT ![findShortestColumnIndex(cols, height)] = Append(@, i)]

Deal(cols, i, list, heights, prefix) ==
    LET height == [c \in DOMAIN cols |-> ColumnHeight(cols, c, list, heights, prefix)]
    IN [cols EXCEPT ![findShortestColumnIndex(cols, height)] = Append(@, i)]

(* The first memo goes to the first column whatever stands above it.       *)
FirstDealt(columns, list) ==
    [c \in 1..columns |-> IF c = 1 /\ list # <<>> THEN <<1>> ELSE <<>>]

(* dealt[i]: the columns once memo i was dealt out. *)
distributeItemsToColumns(list, columns, heights, prefix) ==
    LET dealt[i \in 0..Len(list)] ==
            IF i <= 1 THEN FirstDealt(columns, list)
                      ELSE Deal(dealt[i - 1], i, list, heights, prefix)
    IN IF columns = 1 THEN << [i \in 1..Len(list) |-> i] >> ELSE dealt[Len(list)]

-----------------------------------------------------------------------------
(* prefix: the height of the editor; measured: what it was when the memos  *)
(* were dealt out; late: the grid shown was dealt out from a list or for   *)
(* columns that had already been replaced.                                 *)
Unmeasured == [m \in GridMemos |-> 0]

MasonryInit ==
    \E list \in Lists, columns \in Widths, prefix \in {0} \cup Heights :
        w = [part |-> "grid", acts |-> 0, list |-> list, columns |-> columns,
             heights |-> Unmeasured, timer |-> NoTimer, prefix |-> prefix, measured |-> prefix,
             late |-> FALSE,
             grid |-> distributeItemsToColumns(list, columns, Unmeasured, prefix)]

redistributeMemos(list, columns) ==
    /\ May("grid")
    /\ w' = [w EXCEPT !.acts = @ + 1, !.list = list, !.columns = columns, !.late = FALSE,
                      !.measured = w.prefix,
                      !.grid = distributeItemsToColumns(list, columns, w.heights, w.prefix)]

ListChanged(list) == IsPart("grid") /\ list # w.list /\ redistributeMemos(list, w.columns)
handleResize(columns) ==
    IsPart("grid") /\ columns # w.columns /\ redistributeMemos(w.list, columns)

(* A column shows the indices of the grid that the list has.               *)
Indices(c) == IF c \in DOMAIN w.grid THEN ToSet(w.grid[c]) \cap DOMAIN w.list ELSE {}
Shown == {w.list[i] : i \in UNION {Indices(c) : c \in 1..w.columns}}

(* A memo shown is measured, first when it is mounted, later when what it  *)
(* contains grows.  An unchanged height starts nothing.                    *)
Remeasured(m, h) == [w.heights EXCEPT ![m] = h]

handleHeightChange(m, h) ==
    /\ IsPart("grid")
    /\ m \in Shown
    /\ w.heights[m] # h
    /\ w.heights[m] = 0 \/ May("grid")
    /\ LET heights == Remeasured(m, h)
       IN w' = [w EXCEPT !.acts = IF w.heights[m] = 0 THEN @ ELSE @ + 1, !.heights = heights,
                         !.timer = [list |-> w.list, columns |-> w.columns, heights |-> heights]]

(* What is typed changes the height of the editor, and nothing else.       *)
PrefixChanged(h) ==
    /\ May("grid")
    /\ w.prefix # 0 /\ h # w.prefix
    /\ w' = [w EXCEPT !.acts = @ + 1, !.prefix = h]

Redistribute ==
    /\ IsPart("grid")
    /\ w.timer # NoTimer
    /\ LET t == w.timer
       IN w' = [w EXCEPT !.timer = NoTimer, !.measured = w.prefix,
                         !.grid = distributeItemsToColumns(t.list, t.columns, t.heights, w.prefix),
                         !.late = t.list # w.list \/ t.columns # w.columns]

MasonryNext ==
    \/ \E list \in Lists : ListChanged(list)
    \/ \E columns \in Widths : handleResize(columns)
    \/ \E m \in GridMemos, h \in Heights : handleHeightChange(m, h)
    \/ \E h \in Heights : PrefixChanged(h)
    \/ Redistribute

-----------------------------------------------------------------------------
(* Each memo of the list is on the page, and once: none is dealt out twice *)
(* or left out when the list, the width or the heights change              *)
(* (distributeItems.ts:26-45), but for a late redistribution.  And when no *)
(* redistribution is waiting, no column is higher than another by more     *)
(* than its last memo (distributeItems.ts:36-45): the heights that count   *)
(* are the latest of each memo, whatever order they came in, and that of   *)
(* the editor when the memos were last dealt out: it may have grown since. *)
ShownOnce(i) ==
    Cardinality({p \in (1..w.columns) \X DOMAIN w.list :
                     p[2] \in DOMAIN w.grid[p[1]] /\ w.grid[p[1]][p[2]] = i}) = 1

HigherByOneMemo(c, d) ==
    LET column == w.grid[c]
    IN column # <<>> /\ column # <<1>> =>
           ColumnHeight(w.grid, c, w.list, w.heights, w.measured) - w.heights[w.list[Last(column)]]
             <= ColumnHeight(w.grid, d, w.list, w.heights, w.measured)

GridTrue ==
    IsPart("grid") /\ ~w.late =>
        /\ Len(w.grid) = w.columns
        /\ \A i \in DOMAIN w.list : ShownOnce(i)
        /\ w.timer = NoTimer /\ w.columns > 1 =>
               \A c, d \in 1..w.columns : HigherByOneMemo(c, d)
=============================================================================
