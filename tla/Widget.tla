------------------------------- MODULE Widget -------------------------------
(***************************************************************************)
(* The parts of a page of the web client that keep a state of their own   *)
(* and share none of it: the filters and their address, the side panel of *)
(* a profile, the dialogs that link a memo or a place, the lists and the  *)
(* suggestions of an editor, a memo's tasks and the grid of memos.  The   *)
(* modules of these parts all describe the one part the page is looked at *)
(* for: w, a record whose field part says which one it is.                *)
(***************************************************************************)
EXTENDS Naturals, Sequences, FiniteSets

PageParts == {"filters", "profile", "link", "place", "lines", "tasks", "suggest", "grid"}

CONSTANTS MaxActs   \* how many things the user does with each part

ASSUME MaxActsIsBound == MaxActs \in [PageParts -> Nat]

VARIABLE w          \* the state of the part: a record with the fields part and acts

IsPart(p) == w.part = p

(* The user does something with part p. *)
May(p) == IsPart(p) /\ w.acts < MaxActs[p]

-----------------------------------------------------------------------------
(* The members of a finite set of numbers, the least first.                *)
Ascending(S) ==
    CHOOSE s \in [1..Cardinality(S) -> S] : \A m, n \in DOMAIN s : m < n => s[m] < s[n]

(* What a sequence has at the places in S, in its order: filter of an      *)
(* array, and no recursion.                                                *)
At(s, S) == LET places == Ascending(S) IN [k \in DOMAIN places |-> s[places[k]]]
=============================================================================
