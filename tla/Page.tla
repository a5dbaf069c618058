-------------------------------- MODULE Page --------------------------------
(***************************************************************************)
(* A page of the web client: whichever of its parts is looked at.  The    *)
(* parts share no state, so that their behaviours, side by side, are all  *)
(* there is to check.                                                     *)
(***************************************************************************)
EXTENDS MemoFilter, Dialogs, Writing, Masonry

PageInit == FilterInit \/ DialogsInit \/ WritingInit \/ MasonryInit

PageNext == FilterNext \/ DialogsNext \/ WritingNext \/ MasonryNext

PageSpec == PageInit /\ [][PageNext]_w

(* React renders what it was asked to. *)
PageFairSpec == PageSpec /\ WF_w(FilterRender)

(* The filters are lists without duplicates, and what was last copied to   *)
(* and from the address says the same; a grid shows memos of the list.     *)
PageTypeOK ==
    /\ w.part \in PageParts /\ w.acts \in 0..MaxActs[w.part]
    /\ FilterTypeOK
=============================================================================
