----------------------------- MODULE MemosProofs -----------------------------
(***************************************************************************)
(* Proofs about Memos, for any number of handlers that interleave and fail *)
(* at any call: comments form a forest and what was announced is linked    *)
(* (CommentForest); where no two attachments share a path, a row has its   *)
(* file (RowHasFile).  Then about requests served one at a time, where a   *)
(* handler finds what its calls before have left: whatever fails, a memo   *)
(* reported deleted leaves nothing behind (DeletedWhole), and one reported *)
(* created or edited is as the request says (SetAsAsked).                  *)
(***************************************************************************)
EXTENDS Memos, TLAPS

-----------------------------------------------------------------------------
(* The inductive invariant of CommentForest.                               *)

Functional ==
    /\ pc \in [Procs -> PCs]
    /\ req = [p \in Procs |-> req[p]]
    /\ cur = [p \in Procs |-> cur[p]]
    /\ left = [p \in Procs |-> left[p]]
    /\ beyond = [p \in Procs |-> beyond[p]]

\* Ids name memos created before, and are not given again.
IdsGiven ==
    /\ next \in Nat \ {0}
    /\ memos \subseteq 1..(next - 1) /\ comments \subseteq 1..(next - 1)
    /\ memo \in [Procs -> 0..(next - 1)] /\ parent \in [Procs -> 0..(next - 1)]
    /\ notices \in [{"activity", "inbox"} -> SUBSET (1..(next - 1))]

\* A handler between the insertion of a comment and its link to the memo it is about.
Early == {"find", "list", "drop", "drop_row", "attach", "attach_set", "find_again", "unrelate",
          "relate", "relate_insert", "read_back", "link"}
Unlinked(p)   == Op(p) = "comment" /\ pc[p] \in Early
Commenting(p) == Op(p) = "comment" /\ pc[p] \in Early \cup {"activity", "inbox"}

\* The comment a handler has inserted is its own until it is linked; from then on it stays
\* linked as long as its row is there.
CommentAt(p) ==
    /\ Commenting(p) => memo[p] \in comments /\ parent[p] < memo[p]
    /\ Unlinked(p) => RelationsOf(memo[p], "COMMENT") = {} /\ memo[p] \notin notices["activity"]
    /\ pc[p] \in {"activity", "inbox"} /\ memo[p] \in memos => RelationsOf(memo[p], "COMMENT") # {}
    /\ pc[p] = "inbox" => memo[p] \in notices["activity"]
    /\ pc[p] \in {"collect", "delete_row", "unlink"} => Op(p) # "comment"
    /\ pc[p] \in {"link", "activity", "inbox"} => Op(p) = "comment"
    /\ pc[p] = "unlink" => memo[p] \notin memos
    /\ pc[p] \in {"relate", "relate_insert"} => req[p].type # "COMMENT"

CommentInv ==
    /\ Functional /\ IdsGiven /\ CommentForest
    /\ \A p \in Procs : CommentAt(p)
    /\ \A p, q \in Procs : p # q /\ Commenting(p) /\ Commenting(q) => memo[p] # memo[q]

-----------------------------------------------------------------------------
(* The inductive invariant of RowHasFile.                                  *)

\* An upload under way is of an attachment of its own, whose file is there once it is saved.
Uploading(p) == pc[p] \in {"save", "locate", "insert_att"}

FileInv ==
    /\ Functional
    /\ DOMAIN atts \subseteq used /\ used \subseteq Atts
    /\ \A p \in Procs : Uploading(p) => cur[p] \in used \ DOMAIN atts
    /\ \A p, q \in Procs : p # q /\ Uploading(p) /\ Uploading(q) => cur[p] # cur[q]
    /\ \A p \in Procs : pc[p] \in {"locate", "insert_att"} => FileOf[cur[p]] \in files
    /\ RowHasFile

-----------------------------------------------------------------------------
(* Steps that keep the shape of the variables.                             *)

LEMMA Stages ==
    ASSUME NEW r
    PROVE  /\ LastStage(r) \in {"done", "read_back"}
           /\ RelationStage(r) \in {"find_again", "done", "read_back"}
           /\ FirstStage(r) \in {"find", "find_again", "done", "read_back"}
    BY DEF LastStage, RelationStage, FirstStage

LEMMA EndFunctional == ASSUME Functional, NEW p \in Procs, End(p) PROVE Functional'
    BY DEF Functional, End, Goto, PCs

LEMMA FunctionalStep == Functional /\ [Next]_vars => Functional'
    <1> USE DEF ghosts
    <1> SUFFICES ASSUME Functional, [Next]_vars PROVE Functional'
        OBVIOUS
    <1>1. CASE UNCHANGED vars
        BY <1>1 DEF vars, locals, Functional
    <1>2. ASSUME NEW p \in Procs, Arrive(p) PROVE Functional'
        <2>1. CASE CreateMemo(p)
            BY <2>1 DEF CreateMemo, Call, Goto, Functional, PCs
        <2>2. CASE CreateMemoComment(p)
            BY <2>2 DEF CreateMemoComment, Call, Goto, Functional, PCs
        <2>3. CASE Edit(p)
            BY <2>3, Stages DEF Edit, Call, Goto, Functional, PCs
        <2>4. CASE DeleteMemo(p)
            BY <2>4 DEF DeleteMemo, Call, Goto, Functional, PCs
        <2>5. CASE CreateAttachment(p)
            BY <2>5 DEF CreateAttachment, Call, Goto, Functional, PCs
        <2>6. CASE DeleteAttachment(p)
            BY <2>6 DEF DeleteAttachment, Call, Goto, Functional, PCs
        <2> QED BY <1>2, <2>1, <2>2, <2>3, <2>4, <2>5, <2>6 DEF Arrive
    <1>3. ASSUME NEW p \in Procs, Continue(p) PROVE Functional'
        <2> USE Stages DEF locals
        <2>0. CASE End(p)
            BY <2>0, EndFunctional
        <2>1. CASE InsertMemo(p)
            BY <2>1 DEF InsertMemo, Goto, Functional, PCs
        <2>2. CASE FindMemo(p) \/ FindMemoAgain(p) \/ LocateMemo(p) \/ ReadBack(p)
            BY <2>0, <2>2 DEF FindMemo, FindMemoAgain, LocateMemo, ReadBack, Abort, Goto, Functional, PCs
        <2>3. CASE ListAttachments(p)
            BY <2>3 DEF ListAttachments, Loop, Goto, Functional, PCs
        <2>4. CASE DropFile(p)
            BY <2>0, <2>4 DEF DropFile, Abort, Goto, Functional, PCs
        <2>5. CASE DropRow(p)
            BY <2>5 DEF DropRow, AfterDrop, Loop, Goto, Functional, PCs
        <2>6. CASE GetAttachment(p) \/ GetRelated(p)
            BY <2>0, <2>6 DEF GetAttachment, GetRelated, Abort, Goto, Functional, PCs
        <2>7. CASE UpdateAttachment(p)
            BY <2>7 DEF UpdateAttachment, Loop, Goto, Functional, PCs
        <2>8. CASE Unrelate(p)
            BY <2>8 DEF Unrelate, Loop, Goto, Functional, PCs
        <2>9. CASE InsertRelation(p)
            BY <2>0, <2>9 DEF InsertRelation, Abort, Loop, Goto, Functional, PCs
        <2>10. CASE LinkComment(p)
            BY <2>0, <2>10 DEF LinkComment, Abort, Goto, Functional, PCs
        <2>11. CASE Notify(p) \/ DeleteRow(p) \/ Unlink(p) \/ Unrefer(p) \/ SaveFile(p) \/ InsertAttachment(p)
            BY <2>11 DEF Notify, DeleteRow, Unlink, Unrefer, SaveFile, InsertAttachment, Goto, Functional, PCs
        <2>12. CASE CollectAttachments(p)
            BY <2>12 DEF CollectAttachments, Goto, Functional, PCs
        <2>13. CASE ListReplies(p) \/ DeleteReply(p)
            BY <2>13 DEF ListReplies, DeleteReply, Loop, Goto, Functional, PCs
        <2> QED
            BY <1>3, <2>1, <2>2, <2>3, <2>4, <2>5, <2>6, <2>7, <2>8, <2>9, <2>10, <2>11, <2>12, <2>13
            DEF Continue
    <1>4. ASSUME NEW p \in Procs, Fail(p) \/ Respond(p) PROVE Functional'
        BY <1>4, EndFunctional DEF Fail, Respond
    <1> QED BY <1>1, <1>2, <1>3, <1>4 DEF Next

-----------------------------------------------------------------------------
(* Rows have their files.                                                  *)

\* A step of p that changes no row and no file and neither begins nor advances an upload.
LEMMA FileMove ==
    ASSUME FileInv, Functional', NEW p \in Procs,
           UNCHANGED <<atts, files, used, faulted>>,
           \A q \in Procs : q # p => pc'[q] = pc[q] /\ cur'[q] = cur[q],
           pc[p] # "drop_row",
           Uploading(p)' => Uploading(p) /\ cur'[p] = cur[p],
           pc'[p] \in {"locate", "insert_att"} => pc[p] \in {"locate", "insert_att"}
    PROVE  FileInv'
    <1>1. ASSUME NEW q \in Procs, Uploading(q)' PROVE Uploading(q) /\ cur'[q] = cur[q]
        BY <1>1 DEF Uploading
    <1>2. RowHasFile'
        BY DEF FileInv, RowHasFile
    <1>3. ASSUME NEW q \in Procs, pc'[q] \in {"locate", "insert_att"}
          PROVE  pc[q] \in {"locate", "insert_att"} /\ cur'[q] = cur[q]
        BY <1>3, <1>1 DEF Uploading
    <1> QED BY <1>1, <1>2, <1>3 DEF FileInv

LEMMA FileEnd ==
    ASSUME FileInv, NEW p \in Procs, End(p), pc[p] # "drop_row",
           UNCHANGED <<atts, files, used, faulted>>
    PROVE  FileInv'
    <1>1. Functional'
        BY EndFunctional DEF FileInv
    <1>2. pc'[p] = "idle" /\ \A q \in Procs : q # p => pc'[q] = pc[q] /\ cur'[q] = cur[q]
        BY DEF End, Goto, FileInv, Functional
    <1> QED BY <1>1, <1>2, FileMove DEF Uploading

LEMMA FileStep ==
    ASSUME \A a, b \in Atts : FileOf[a] = FileOf[b] => a = b, FileInv, [Next]_vars
    PROVE  FileInv'
    <1>f. Functional /\ Functional'
        BY FunctionalStep DEF FileInv
    <1> USE DEF rows, locals, ghosts
    <1>1. CASE UNCHANGED vars
        BY <1>1, <1>f DEF vars, FileInv, RowHasFile, Uploading
    <1>2. ASSUME NEW p \in Procs, Arrive(p) PROVE FileInv'
        <2>1. CASE CreateMemo(p) \/ CreateMemoComment(p) \/ DeleteMemo(p) \/ DeleteAttachment(p)
            <3>1. pc[p] = "idle" /\ pc'[p] \in {"insert", "collect", "drop"}
                BY <2>1, <1>f DEF CreateMemo, CreateMemoComment, DeleteMemo, DeleteAttachment, Call, Goto, Functional
            <3>2. \A q \in Procs : q # p => pc'[q] = pc[q] /\ cur'[q] = cur[q]
                BY <2>1, <1>f DEF CreateMemo, CreateMemoComment, DeleteMemo, DeleteAttachment, Call, Goto, Functional
            <3> QED BY <2>1, <1>f, <3>1, <3>2, FileMove
                    DEF CreateMemo, CreateMemoComment, DeleteMemo, DeleteAttachment, Call, Uploading
        <2>2. CASE Edit(p)
            <3>1. /\ pc[p] = "idle" /\ pc'[p] \in {"find", "find_again", "done", "read_back"}
                  /\ cur' = cur /\ UNCHANGED <<atts, files, used, faulted>>
                BY <2>2, <1>f, Stages DEF Edit, Call, Goto, Functional
            <3>2. \A q \in Procs : q # p => pc'[q] = pc[q] /\ cur'[q] = cur[q]
                BY <2>2, <1>f DEF Edit, Call, Goto, Functional
            <3> QED BY <1>f, <3>1, <3>2, FileMove DEF Uploading
        <2>3. CASE CreateAttachment(p)
            <3>1. PICK a \in Atts \ used : /\ cur' = [cur EXCEPT ![p] = a] /\ used' = used \cup {a}
                                           /\ pc' = [pc EXCEPT ![p] = "save"]
                BY <2>3 DEF CreateAttachment, Call, Goto
            <3>2. UNCHANGED <<atts, files, faulted>> /\ pc[p] = "idle"
                BY <2>3 DEF CreateAttachment, Call
            <3>3. RowHasFile'
                BY <3>1, <3>2, <1>f DEF FileInv, RowHasFile, Functional
            <3> QED BY <3>1, <3>2, <3>3, <1>f DEF FileInv, Uploading, Functional
        <2> QED BY <1>2, <2>1, <2>2, <2>3 DEF Arrive
    <1>3. ASSUME NEW p \in Procs, Continue(p) PROVE FileInv'
        <2> USE <1>f
        <2>1. CASE End(p) /\ pc[p] # "drop_row" /\ UNCHANGED <<atts, files, used, faulted>>
            BY <2>1, FileEnd
        <2>2. CASE /\ pc' = [pc EXCEPT ![p] = pc'[p]] /\ cur' = [cur EXCEPT ![p] = cur'[p]]
                   /\ UNCHANGED <<atts, files, used, faulted>>
                   /\ pc[p] # "drop_row" /\ pc'[p] \notin {"save", "locate", "insert_att"}
            BY <2>2, FileMove DEF Functional, Uploading
        <2>3. CASE InsertMemo(p)
            BY <2>2, <2>3, Stages DEF InsertMemo, Goto, Functional
        <2>4. CASE FindMemo(p) \/ FindMemoAgain(p) \/ ReadBack(p)
            BY <2>1, <2>2, <2>4 DEF FindMemo, FindMemoAgain, ReadBack, Abort, Goto, Functional
        <2>5. CASE ListAttachments(p) \/ ListReplies(p) \/ CollectAttachments(p) \/ Unrelate(p) \/ DeleteReply(p)
            BY <2>2, <2>5, Stages DEF ListAttachments, ListReplies, CollectAttachments, Unrelate, DeleteReply, Loop, Goto, Functional
        <2>6. CASE DropFile(p)
            <3>1. CASE Abort(p)
                BY <2>1, <2>6, <3>1 DEF Abort, DropFile
            <3>2. CASE ~Abort(p)
                <4>1. PICK a \in DOMAIN atts : /\ files' = files \ {FileOf[a]}
                                               /\ cur' = [cur EXCEPT ![p] = a]
                                               /\ pc' = [pc EXCEPT ![p] = "drop_row"]
                                               /\ UNCHANGED <<atts, used, faulted>> /\ pc[p] = "drop"
                    BY <2>6, <3>2 DEF DropFile, Goto
                <4>2. a \in Atts /\ DOMAIN atts \subseteq Atts
                    BY DEF FileInv
                <4>3. RowHasFile'
                    <5> SUFFICES ASSUME ~faulted, NEW b \in DOMAIN atts
                                 PROVE  FileOf[b] \in files' \/ \E q \in Procs : pc'[q] = "drop_row" /\ cur'[q] = b
                        BY <4>1 DEF RowHasFile
                    <5>1. CASE b = a
                        BY <4>1, <5>1 DEF Functional
                    <5>2. CASE b # a
                        BY <4>1, <4>2, <5>2 DEF FileInv, RowHasFile, Functional
                    <5> QED BY <5>1, <5>2
                <4>4. ASSUME NEW q \in Procs, Uploading(q)'
                      PROVE  /\ q # p /\ Uploading(q) /\ cur'[q] = cur[q] /\ pc'[q] = pc[q]
                             /\ cur[q] \in Atts /\ cur[q] # a
                    BY <4>1, <4>4 DEF Uploading, FileInv, Functional
                <4>5. ASSUME NEW q \in Procs, pc'[q] \in {"locate", "insert_att"}
                      PROVE  FileOf[cur'[q]] \in files'
                    BY <4>1, <4>2, <4>4, <4>5 DEF Uploading, FileInv
                <4> QED BY <4>1, <4>3, <4>4, <4>5 DEF FileInv
            <3> QED BY <3>1, <3>2
        <2>7. CASE DropRow(p)
            <3>1. /\ DOMAIN atts' = DOMAIN atts \ {cur[p]} /\ pc[p] = "drop_row"
                  /\ UNCHANGED <<files, used, faulted>>
                BY <2>7 DEF DropRow, Restrict
            <3>2. /\ pc'[p] \notin {"save", "locate", "insert_att"}
                  /\ \A q \in Procs : q # p => pc'[q] = pc[q] /\ cur'[q] = cur[q]
                BY <2>7, Stages DEF DropRow, AfterDrop, Loop, Goto, Functional
            <3>3. RowHasFile'
                BY <3>1, <3>2 DEF FileInv, RowHasFile
            <3> QED BY <3>1, <3>2, <3>3 DEF FileInv, Uploading
        <2>8. CASE GetAttachment(p) \/ GetRelated(p)
            BY <2>1, <2>2, <2>8 DEF GetAttachment, GetRelated, Abort, Goto, Functional
        <2>9. CASE UpdateAttachment(p)
            <3>1. /\ DOMAIN atts' = DOMAIN atts /\ pc[p] = "attach_set"
                  /\ UNCHANGED <<files, used, faulted>>
                BY <2>9 DEF UpdateAttachment
            <3>2. /\ pc'[p] \notin {"save", "locate", "insert_att"}
                  /\ \A q \in Procs : q # p => pc'[q] = pc[q] /\ cur'[q] = cur[q]
                BY <2>9, Stages DEF UpdateAttachment, Loop, Goto, Functional
            <3>3. RowHasFile'
                BY <3>1, <3>2 DEF FileInv, RowHasFile
            <3> QED BY <3>1, <3>2, <3>3 DEF FileInv, Uploading
        <2>10. CASE InsertRelation(p)
            BY <2>1, <2>2, <2>10, Stages DEF InsertRelation, Abort, Loop, Goto, Functional
        <2>11. CASE LinkComment(p)
            BY <2>1, <2>2, <2>11 DEF LinkComment, Abort, Goto, Functional
        <2>12. CASE Notify(p) \/ DeleteRow(p) \/ Unlink(p) \/ Unrefer(p)
            BY <2>2, <2>12 DEF Notify, DeleteRow, Unlink, Unrefer, Goto, Functional
        <2>13. CASE SaveFile(p)
            <3>1. /\ pc[p] = "save" /\ pc'[p] \in {"locate", "insert_att"} /\ cur' = cur
                  /\ files' = files \cup {FileOf[cur[p]]} /\ UNCHANGED <<atts, used, faulted>>
                  /\ \A q \in Procs : q # p => pc'[q] = pc[q]
                BY <2>13 DEF SaveFile, Goto, Functional
            <3>2. RowHasFile'
                BY <3>1 DEF FileInv, RowHasFile
            <3> QED BY <3>1, <3>2 DEF FileInv, Uploading
        <2>14. CASE LocateMemo(p)
            <3>1. CASE Abort(p)
                BY <2>1, <2>14, <3>1 DEF Abort, LocateMemo
            <3>2. CASE ~Abort(p)
                BY <2>14, <3>2, FileMove DEF LocateMemo, Goto, Functional, Uploading
            <3> QED BY <3>1, <3>2
        <2>15. CASE InsertAttachment(p)
            <3>1. /\ pc[p] = "insert_att" /\ DOMAIN atts' = DOMAIN atts \cup {cur[p]}
                  /\ pc' = [pc EXCEPT ![p] = "done"]
                  /\ cur' = cur /\ UNCHANGED <<files, used, faulted>>
                BY <2>15 DEF InsertAttachment, Goto
            <3>2. pc'[p] = "done" /\ \A q \in Procs : q # p => pc'[q] = pc[q]
                BY <3>1 DEF Functional
            <3>3. cur[p] \in used /\ FileOf[cur[p]] \in files
                BY <3>1 DEF FileInv, Uploading
            <3>4. RowHasFile'
                BY <3>1, <3>2, <3>3 DEF FileInv, RowHasFile
            <3> QED BY <3>1, <3>2, <3>3, <3>4 DEF FileInv, Uploading
        <2> QED
            BY <1>3, <2>3, <2>4, <2>5, <2>6, <2>7, <2>8, <2>9, <2>10, <2>11, <2>12, <2>13, <2>14, <2>15
            DEF Continue
    <1>4. ASSUME NEW p \in Procs, Respond(p) PROVE FileInv'
        BY <1>4, FileEnd DEF Respond
    <1>5. ASSUME NEW p \in Procs, Fail(p) PROVE FileInv'
        <2>1. faulted' /\ UNCHANGED <<atts, files, used>>
            BY <1>5 DEF Fail
        <2>2. /\ pc'[p] = "idle"
              /\ \A q \in Procs : q # p => pc'[q] = pc[q] /\ cur'[q] = cur[q]
            BY <1>5, <1>f DEF Fail, End, Goto, Functional
        <2> QED BY <1>f, <2>1, <2>2 DEF FileInv, RowHasFile, Uploading
    <1> QED BY <1>1, <1>2, <1>3, <1>4, <1>5 DEF Next

\* However the handlers interleave, an attachment whose row is there has its file, or a handler
\* that removed the file is about to delete the row, as long as no call of the store has failed
\* and no two attachments share a path.
THEOREM RowsHaveFiles ==
    ASSUME \A a, b \in Atts : FileOf[a] = FileOf[b] => a = b
    PROVE  Spec => []RowHasFile
    <1>1. Init => FileInv
        BY DEF Init, FileInv, Functional, RowHasFile, Uploading, PCs
    <1>2. FileInv /\ [Next]_vars => FileInv'
        BY FileStep
    <1>3. FileInv => RowHasFile
        BY DEF FileInv
    <1> QED BY <1>1, <1>2, <1>3, PTL DEF Spec

-----------------------------------------------------------------------------
(* Comments form a forest.                                                  *)

\* A step of p that changes neither memos nor comments nor what they are linked to.
LEMMA CommentMove ==
    ASSUME CommentInv, Functional', NEW p \in Procs,
           UNCHANGED <<next, memos, notices, comments, parent>>,
           \A r : r.type = "COMMENT" => (r \in rel' <=> r \in rel),
           \A q \in Procs : q # p => pc'[q] = pc[q] /\ req'[q] = req[q] /\ memo'[q] = memo[q],
           memo'[p] \in 0..(next - 1),
           Unlinked(p)' => Unlinked(p) /\ memo'[p] = memo[p],
           pc'[p] \notin {"activity", "inbox", "unlink"},
           pc'[p] \in {"collect", "delete_row"} => Op(p)' # "comment",
           pc'[p] = "link" => Op(p)' = "comment",
           pc'[p] \in {"relate", "relate_insert"} => req'[p].type # "COMMENT",
           memo' = [q \in Procs |-> memo'[q]]
    PROVE  CommentInv'
    <1>1. \A m : RelationsOf(m, "COMMENT")' = RelationsOf(m, "COMMENT")
        BY DEF RelationsOf
    <1>2. IdsGiven'
        BY DEF CommentInv, IdsGiven
    <1>3. CommentForest'
        BY <1>1 DEF CommentInv, CommentForest
    <1>4. ASSUME NEW q \in Procs, q # p PROVE CommentAt(q)'
        BY <1>1, <1>4 DEF CommentInv, CommentAt, Commenting, Unlinked, Op
    <1>5. CommentAt(p)'
        <2>1. Commenting(p)' => Unlinked(p)' /\ Unlinked(p) /\ Commenting(p)
            BY DEF Commenting, Unlinked
        <2> QED BY <1>1, <2>1 DEF CommentInv, CommentAt
    <1>6. ASSUME NEW q \in Procs, Commenting(q)' PROVE Commenting(q) /\ memo'[q] = memo[q]
        BY <1>6 DEF Commenting, Unlinked, Op
    <1>7. \A q, o \in Procs : q # o /\ Commenting(q)' /\ Commenting(o)' => memo'[q] # memo'[o]
        BY <1>6 DEF CommentInv
    <1> QED BY <1>2, <1>3, <1>4, <1>5, <1>7 DEF CommentInv

LEMMA CommentEnd ==
    ASSUME CommentInv, NEW p \in Procs, End(p), UNCHANGED <<next, memos, rel, notices, comments>>
    PROVE  CommentInv'
    <1>1. Functional'
        BY EndFunctional DEF CommentInv
    <1>2. \A m : RelationsOf(m, "COMMENT")' = RelationsOf(m, "COMMENT")
        BY DEF RelationsOf
    <1>3. IdsGiven'
        BY DEF CommentInv, IdsGiven, End
    <1>4. CommentForest'
        BY <1>2 DEF CommentInv, CommentForest
    <1>5. pc'[p] = "idle" /\ \A q \in Procs : q # p => /\ pc'[q] = pc[q] /\ req'[q] = req[q]
                                                       /\ memo'[q] = memo[q] /\ parent'[q] = parent[q]
        BY DEF End, Goto, CommentInv, Functional, IdsGiven
    <1>6. ~Commenting(p)' /\ CommentAt(p)'
        BY <1>5 DEF Commenting, Unlinked, CommentAt, Early
    <1>7. ASSUME NEW q \in Procs, q # p PROVE CommentAt(q)' /\ (Commenting(q)' <=> Commenting(q))
        BY <1>2, <1>5, <1>7 DEF CommentInv, CommentAt, Commenting, Unlinked, Op
    <1> QED BY <1>1, <1>3, <1>4, <1>5, <1>6, <1>7 DEF CommentInv

LEMMA RequestOp ==
    ASSUME NEW op, NEW m, NEW S, NEW R, NEW t, NEW P
    PROVE  /\ Request(op, m).op = op
           /\ [Request(op, m) EXCEPT !.atts = S, !.related = R].op = op
           /\ [Request(op, m) EXCEPT !.atts = S, !.related = R, !.type = t, !.paths = P].op = op
    BY DEF Request

LEMMA CallOp ==
    ASSUME Functional, NEW p \in Procs, NEW r, NEW first, Call(p, r, first)
    PROVE  Op(p)' = r.op
    BY DEF Functional, Call, Op

LEMMA CommentStep == CommentInv /\ [Next]_vars => CommentInv'
    <1> SUFFICES ASSUME CommentInv, [Next]_vars PROVE CommentInv'
        OBVIOUS
    <1>f. Functional /\ Functional' /\ IdsGiven /\ CommentForest
        BY FunctionalStep DEF CommentInv
    <1> USE DEF rows, locals, ghosts
    <1> DEFINE Others(p) == \A q \in Procs : q # p => /\ pc'[q] = pc[q] /\ req'[q] = req[q]
                                                      /\ memo'[q] = memo[q] /\ parent'[q] = parent[q]
    <1>1. CASE UNCHANGED vars
        BY <1>1, <1>f DEF vars, CommentInv, CommentForest, IdsGiven, CommentAt, Commenting,
           Unlinked, Op, RelationsOf
    <1>2. ASSUME NEW p \in Procs, Arrive(p) PROVE CommentInv'
        <2>1. CASE CreateMemo(p) \/ DeleteMemo(p) \/ CreateAttachment(p) \/ DeleteAttachment(p)
            <3>1. /\ UNCHANGED <<next, memos, rel, notices, comments, parent>>
                  /\ pc'[p] \in {"insert", "collect", "save", "drop"}
                BY <2>1, <1>f DEF CreateMemo, DeleteMemo, CreateAttachment, DeleteAttachment, Call,
                                  Goto, Functional
            <3>3. Op(p)' # "comment"
                <4>1. CASE CreateMemo(p)
                    <5>1. PICK S \in SUBSET used, R \in SUBSET Named :
                            Call(p, [Request("create", 0) EXCEPT !.atts = S, !.related = R], "insert")
                        BY <4>1 DEF CreateMemo
                    <5> DEFINE r == [Request("create", 0) EXCEPT !.atts = S, !.related = R]
                    <5>2. r.op = "create"
                        BY RequestOp
                    <5>3. Call(p, r, "insert")
                        BY <5>1
                    <5> HIDE DEF r
                    <5> QED BY <1>f, <5>2, <5>3, CallOp
                <4>2. CASE DeleteMemo(p) \/ CreateAttachment(p) \/ DeleteAttachment(p)
                    <5>1. PICK op \in {"delete", "upload", "discard"}, m \in Nat :
                            req' = [req EXCEPT ![p] = Request(op, m)]
                        BY <4>2, <1>f DEF DeleteMemo, CreateAttachment, DeleteAttachment, Call, Named, IdsGiven
                    <5>2. req'[p].op = op
                        BY <1>f, <5>1, RequestOp DEF Functional
                    <5> QED BY <5>2 DEF Op
                <4> QED BY <2>1, <4>1, <4>2
            <3>4. memo' \in [Procs -> 0..(next - 1)]
                <4>1. memo' = memo \/ \E m \in memos : memo' = [memo EXCEPT ![p] = m]
                    BY <2>1 DEF CreateMemo, DeleteMemo, CreateAttachment, DeleteAttachment
                <4> QED BY <1>f, <4>1 DEF IdsGiven
            <3>2. Others(p)
                BY <2>1, <1>f DEF CreateMemo, DeleteMemo, CreateAttachment, DeleteAttachment,
                   Call, Goto,
                                  Functional, IdsGiven
            <3>5. memo'[p] \in 0..(next - 1) /\ memo' = [q \in Procs |-> memo'[q]]
                BY <3>4
            <3> QED BY <1>f, <3>1, <3>2, <3>3, <3>5, CommentMove DEF Unlinked
        <2>2. CASE CreateMemoComment(p)
            <3>1. /\ UNCHANGED <<next, memos, rel, notices, comments, memo>> /\ pc'[p] = "insert"
                  /\ parent' \in [Procs -> 0..(next - 1)]
                BY <2>2, <1>f DEF CreateMemoComment, Call, Goto, Functional, IdsGiven
            <3>2. Others(p)
                BY <2>2, <1>f DEF CreateMemoComment, Call, Goto, Functional, IdsGiven
            <3>3. \A m : RelationsOf(m, "COMMENT")' = RelationsOf(m, "COMMENT")
                BY <3>1 DEF RelationsOf
            <3>4. IdsGiven' /\ CommentForest'
                BY <1>f, <3>1, <3>3 DEF IdsGiven, CommentForest
            <3>5. ~Commenting(p)' /\ CommentAt(p)'
                BY <3>1 DEF Commenting, Unlinked, CommentAt, Early
            <3>6. ASSUME NEW q \in Procs, q # p PROVE CommentAt(q)' /\ (Commenting(q)' <=> Commenting(q))
                BY <3>1, <3>2, <3>3, <3>6 DEF CommentInv, CommentAt, Commenting, Unlinked, Op
            <3> QED BY <1>f, <3>1, <3>4, <3>5, <3>6 DEF CommentInv
        <2>3. CASE Edit(p)
            <3>1. /\ UNCHANGED <<next, memos, rel, notices, comments, parent>>
                  /\ pc'[p] \in {"find", "find_again", "done", "read_back"}
                BY <2>3, <1>f, Stages DEF Edit, Call, Goto, Functional
            <3>3. Op(p)' # "comment"
                <4>1. PICK op \in {"update", "set"}, m \in memos, S \in SUBSET used, R \in SUBSET Named,
                           t \in Types, P \in SUBSET Paths :
                        Call(p, EditRequest(op, m, S, R, t, P), FirstStage(EditRequest(op, m, S, R, t, P)))
                    BY <2>3 DEF Edit
                <4>2. EditRequest(op, m, S, R, t, P).op = op
                    BY RequestOp DEF EditRequest
                <4> QED BY <1>f, <4>1, <4>2, CallOp
            <3>4. memo' \in [Procs -> 0..(next - 1)]
                BY <2>3, <1>f DEF Edit, IdsGiven
            <3>5. memo'[p] \in 0..(next - 1) /\ memo' = [q \in Procs |-> memo'[q]]
                BY <3>4
            <3>2. Others(p)
                BY <2>3, <1>f DEF Edit, Call, Goto, Functional, IdsGiven
            <3> QED BY <1>f, <3>1, <3>2, <3>3, <3>5, CommentMove DEF Unlinked
        <2> QED BY <1>2, <2>1, <2>2, <2>3 DEF Arrive
    <1>3. ASSUME NEW p \in Procs, Continue(p) PROVE CommentInv'
        <2> USE <1>f
        <2>0. CASE End(p) /\ UNCHANGED <<next, memos, rel, notices, comments>>
            BY <2>0, CommentEnd
        <2>m. CASE /\ pc' = [pc EXCEPT ![p] = pc'[p]]
                   /\ UNCHANGED <<next, memos, notices, comments, parent, req, memo>>
                   /\ \A r : r.type = "COMMENT" => (r \in rel' <=> r \in rel)
                   /\ pc'[p] \notin {"activity", "inbox", "unlink", "collect"}
                   /\ pc'[p] = "delete_row" => Op(p) # "comment"
                   /\ pc'[p] \in Early /\ Op(p) = "comment" => pc[p] \in Early
                   /\ pc'[p] = "link" => Op(p) = "comment"
                   /\ pc'[p] \in {"relate", "relate_insert"} => req[p].type # "COMMENT"
            <3>1. memo'[p] \in 0..(next - 1) /\ memo' = [q \in Procs |-> memo'[q]]
                BY <2>m DEF IdsGiven
            <3>2. Unlinked(p)' => Unlinked(p)
                BY <2>m DEF Unlinked, Op
            <3> QED BY <2>m, <3>1, <3>2, CommentMove DEF Functional, Op
        <2>a. CommentAt(p)
            BY DEF CommentInv
        <2>1. CASE InsertMemo(p)
            <3>1. /\ next' = next + 1 /\ memos' = memos \cup {next} /\ memo' = [memo EXCEPT ![p] = next]
                  /\ UNCHANGED <<rel, notices, req, parent>>
                  /\ comments' = IF Op(p) = "comment" THEN comments \cup {next} ELSE comments
                  /\ pc' = [pc EXCEPT ![p] = pc'[p]]
                  /\ pc'[p] \in {"find", "find_again", "done", "read_back"}
                BY <2>1, Stages DEF InsertMemo, Goto, Functional
            <3>2. IdsGiven'
                BY <3>1 DEF IdsGiven
            <3>3. \A m : RelationsOf(m, "COMMENT")' = RelationsOf(m, "COMMENT")
                BY <3>1 DEF RelationsOf
            <3>4. RelationsOf(next, "COMMENT") = {}
                BY DEF RelationsOf, CommentForest, IdsGiven
            <3>5. next \notin notices["activity"] /\ next \notin memos
                BY DEF IdsGiven
            <3>6. CommentForest'
                BY <3>1, <3>3, <3>5 DEF CommentForest
            <3>7. CommentAt(p)'
                BY <3>1, <3>3, <3>4, <3>5 DEF CommentAt, Commenting, Unlinked, Op, IdsGiven,
                   Functional
            <3>8. ASSUME NEW q \in Procs, q # p
                  PROVE  /\ CommentAt(q)' /\ (Commenting(q)' <=> Commenting(q)) /\ memo'[q] = memo[q]
                         /\ memo[q] # next
                <4>1. memo'[q] = memo[q] /\ memo[q] # next /\ pc'[q] = pc[q]
                    BY <3>1, <3>8 DEF IdsGiven, Functional
                <4> QED BY <3>1, <3>3, <4>1 DEF CommentInv, CommentAt, Commenting, Unlinked, Op
            <3>9. memo'[p] = next
                BY <3>1 DEF IdsGiven
            <3> QED BY <3>2, <3>6, <3>7, <3>8, <3>9 DEF CommentInv
        <2>2. CASE FindMemo(p) \/ FindMemoAgain(p) \/ ReadBack(p) \/ LocateMemo(p)
            BY <2>0, <2>m, <2>2 DEF FindMemo, FindMemoAgain, ReadBack, LocateMemo, Abort, Goto,
               Functional, Early
        <2>3. CASE ListAttachments(p) \/ ListReplies(p)
            BY <2>m, <2>3, Stages DEF ListAttachments, ListReplies, Loop, Goto, Functional, Early
        <2>4. CASE CollectAttachments(p)
            BY <2>m, <2>a, <2>4 DEF CollectAttachments, Goto, Functional, Early, CommentAt
        <2>5. CASE DropFile(p)
            BY <2>0, <2>m, <2>5 DEF DropFile, Abort, Goto, Functional, Early
        <2>6. CASE DropRow(p)
            <3>1. pc[p] = "drop_row" /\ pc'[p] \in {"drop", "replies", "done", "attach", "find_again", "read_back"}
                BY <2>6, Stages DEF DropRow, AfterDrop, Loop, Goto, Functional
            <3>2. pc' = [pc EXCEPT ![p] = pc'[p]] /\ UNCHANGED <<next, memos, notices, comments, parent, req, memo, rel>>
                BY <2>6 DEF DropRow, AfterDrop, Loop, Goto, Functional
            <3> QED BY <2>m, <3>1, <3>2 DEF Early
        <2>7. CASE GetAttachment(p) \/ UpdateAttachment(p)
            BY <2>0, <2>m, <2>7, Stages DEF GetAttachment, UpdateAttachment, Abort, Loop, Goto,
               Functional, Early
        <2>8. CASE Unrelate(p)
            <3>1. \A r : r.type = "COMMENT" => (r \in rel' <=> r \in rel)
                BY <2>8 DEF Unrelate, RelationsOf
            <3> QED BY <2>m, <2>8, <3>1, Stages DEF Unrelate, ToRelate, Loop, Goto, Functional,
               Early
        <2>9. CASE GetRelated(p)
            BY <2>0, <2>m, <2>a, <2>9 DEF GetRelated, Abort, Goto, Functional, Early, CommentAt
        <2>10. CASE InsertRelation(p)
            <3>1. CASE Abort(p)
                BY <2>0, <3>1 DEF Abort
            <3>2. CASE ~Abort(p)
                <4>1. \A r : r.type = "COMMENT" => (r \in rel' <=> r \in rel)
                    BY <2>a, <2>10, <3>2 DEF InsertRelation, CommentAt
                <4> QED BY <2>m, <2>a, <2>10, <3>2, <4>1, Stages
                        DEF InsertRelation, Loop, Goto, Functional, Early, CommentAt
            <3> QED BY <3>1, <3>2
        <2>11. CASE LinkComment(p)
            <3>1. CASE Abort(p)
                BY <2>0, <3>1 DEF Abort
            <3>2. CASE ~Abort(p)
                <4> DEFINE new == [memo |-> memo[p], related |-> parent[p], type |-> "COMMENT"]
                <4>1. /\ rel' = rel \cup {new} /\ pc' = [pc EXCEPT ![p] = pc'[p]]
                      /\ pc[p] = "link" /\ pc'[p] \in {"activity", "done"}
                      /\ UNCHANGED <<next, memos, notices, comments, parent, req, memo>>
                    BY <2>11, <3>2 DEF LinkComment, Goto, Functional
                <4>2. Unlinked(p) /\ memo[p] \in comments /\ parent[p] < memo[p]
                      /\ RelationsOf(memo[p], "COMMENT") = {}
                    BY <2>a, <4>1 DEF CommentAt, Commenting, Unlinked, Early
                <4>3. \A m : /\ m # memo[p] => RelationsOf(m, "COMMENT")' = RelationsOf(m, "COMMENT")
                             /\ RelationsOf(m, "COMMENT") \subseteq RelationsOf(m, "COMMENT")'
                    BY <4>1 DEF RelationsOf
                <4>4. new \in RelationsOf(memo[p], "COMMENT")'
                    BY <4>1 DEF RelationsOf
                <4>5. \A r \in rel : r.type = "COMMENT" => r.memo # memo[p]
                    BY <4>2 DEF RelationsOf
                <4>6. CommentForest'
                    <5>1. ASSUME NEW r \in rel', NEW t \in rel'
                          PROVE  /\ r.type = "COMMENT" => r.related < r.memo /\ r.memo \in comments
                                 /\ r.type = "COMMENT" /\ t.type = "COMMENT" /\ r.memo = t.memo => r = t
                        BY <4>1, <4>2, <4>5, <5>1 DEF CommentForest
                    <5> QED BY <4>1, <4>3, <5>1 DEF CommentForest
                <4>7. ASSUME NEW q \in Procs, q # p PROVE CommentAt(q)' /\ (Commenting(q)' <=> Commenting(q))
                    <5>1. Commenting(q) => memo[q] # memo[p]
                        BY <4>2, <4>7 DEF CommentInv, Commenting, Unlinked
                    <5>2. CommentAt(q) /\ pc'[q] = pc[q]
                        BY <4>1, <4>7 DEF CommentInv, Functional
                    <5> QED BY <4>1, <4>3, <5>1, <5>2 DEF CommentAt, Commenting, Unlinked, Op
                <4>8. CommentAt(p)'
                    BY <4>1, <4>2, <4>4 DEF CommentAt, Commenting, Unlinked, Early, Op
                <4>9. IdsGiven'
                    BY <4>1 DEF IdsGiven
                <4>10. Commenting(p)
                    BY <4>2 DEF Commenting, Unlinked
                <4> QED BY <4>1, <4>6, <4>7, <4>8, <4>9, <4>10 DEF CommentInv
            <3> QED BY <3>1, <3>2
        <2>12. CASE Notify(p)
            <3>1. /\ pc[p] \in {"activity", "inbox"} /\ pc'[p] \in {"inbox", "done"}
                  /\ pc' = [pc EXCEPT ![p] = pc'[p]]
                  /\ (pc'[p] = "inbox" => pc[p] = "activity")
                  /\ notices' = [notices EXCEPT ![pc[p]] = @ \cup {memo[p]}]
                  /\ UNCHANGED <<next, memos, rel, comments, parent, req, memo>>
                BY <2>12 DEF Notify, Goto, Functional
            <3>2. memo[p] \in comments /\ (memo[p] \in memos => RelationsOf(memo[p], "COMMENT") # {})
                BY <2>a, <3>1 DEF CommentAt, Commenting
            <3>3. pc[p] = "inbox" => memo[p] \in notices["activity"]
                BY <2>a DEF CommentAt
            <3>4. \A m : RelationsOf(m, "COMMENT")' = RelationsOf(m, "COMMENT")
                BY <3>1 DEF RelationsOf
            <3>5. IdsGiven'
                BY <3>1, <3>2 DEF IdsGiven
            <3>6. CommentForest'
                BY <3>1, <3>2, <3>3, <3>4 DEF CommentForest, IdsGiven
            <3>7. CommentAt(p)'
                BY <3>1, <3>2, <3>4, <2>a DEF CommentAt, Commenting, Unlinked, Early, IdsGiven,
                   Functional, Op
            <3>8. ASSUME NEW q \in Procs, q # p PROVE CommentAt(q)' /\ (Commenting(q)' <=> Commenting(q))
                <4>1. CommentAt(q) /\ pc'[q] = pc[q]
                    BY <3>1, <3>8 DEF CommentInv, Functional
                <4>2. Commenting(q) => memo[q] # memo[p]
                    BY <2>a, <3>1, <3>8 DEF CommentInv, Commenting, CommentAt
                <4>3. /\ notices["activity"] \subseteq notices'["activity"]
                      /\ notices'["activity"] \subseteq notices["activity"] \cup {memo[p]}
                    BY <3>1 DEF IdsGiven
                <4>4. (Commenting(q)' <=> Commenting(q)) /\ (Unlinked(q)' <=> Unlinked(q))
                    BY <3>1, <4>1 DEF Commenting, Unlinked, Op
                <4>5. Unlinked(q) => memo[q] \notin notices'["activity"]
                    BY <4>1, <4>2, <4>3 DEF CommentAt, Commenting, Unlinked
                <4>6. CommentAt(q)'
                    <5>1. /\ memo' = memo /\ memos' = memos /\ comments' = comments
                          /\ parent' = parent /\ req' = req /\ pc'[q] = pc[q]
                          /\ RelationsOf(memo[q], "COMMENT")' = RelationsOf(memo[q], "COMMENT")
                        BY <3>1, <3>4, <4>1
                    <5> QED BY <4>1, <4>3, <4>4, <4>5, <5>1 DEF CommentAt, Op
                <4> QED BY <4>4, <4>6
            <3>9. Commenting(p)
                BY <2>a, <3>1 DEF CommentAt, Commenting
            <3> QED BY <3>1, <3>5, <3>6, <3>7, <3>8, <3>9 DEF CommentInv
        <2>13. CASE DeleteRow(p)
            <3>1. /\ memos' = memos \ {memo[p]} /\ pc' = [pc EXCEPT ![p] = "unlink"] /\ pc[p] = "delete_row"
                  /\ UNCHANGED <<next, rel, notices, comments, parent, req, memo>>
                BY <2>13 DEF DeleteRow, Goto
            <3>2. \A m : RelationsOf(m, "COMMENT")' = RelationsOf(m, "COMMENT")
                BY <3>1 DEF RelationsOf
            <3>3. IdsGiven' /\ CommentForest'
                BY <3>1, <3>2 DEF IdsGiven, CommentForest
            <3>4. pc'[p] = "unlink" /\ \A q \in Procs : q # p => pc'[q] = pc[q]
                BY <3>1 DEF Functional
            <3>5. CommentAt(p)'
                BY <2>a, <3>1, <3>4 DEF CommentAt, Commenting, Unlinked, Early, Op
            <3>6. ASSUME NEW q \in Procs, q # p PROVE CommentAt(q)'
                <4>1. CommentAt(q)
                    BY DEF CommentInv
                <4> QED BY <3>1, <3>2, <3>4, <3>6, <4>1 DEF CommentAt, Commenting, Unlinked, Op
            <3>7. \A q \in Procs : Commenting(q)' => Commenting(q)
                BY <3>1, <3>4 DEF Commenting, Early, Op
            <3> QED BY <3>1, <3>3, <3>5, <3>6, <3>7 DEF CommentInv
        <2>14. CASE Unlink(p)
            <3>1. /\ rel' = {r \in rel : r.memo # memo[p]} /\ pc[p] = "unlink"
                  /\ pc'[p] \in {"replies", "drop"} /\ pc' = [pc EXCEPT ![p] = pc'[p]]
                  /\ UNCHANGED <<next, memos, notices, comments, parent, req, memo>>
                BY <2>14 DEF Unlink, Goto, Functional
            <3>2. /\ memo[p] \notin memos /\ Op(p) # "comment"
                  /\ \A m : m # memo[p] => RelationsOf(m, "COMMENT")' = RelationsOf(m, "COMMENT")
                  /\ RelationsOf(memo[p], "COMMENT")' = {}
                BY <2>a, <3>1 DEF CommentAt, RelationsOf
            <3>3. IdsGiven'
                BY <3>1 DEF IdsGiven
            <3>4. CommentForest'
                BY <3>1, <3>2 DEF CommentForest
            <3>5. CommentAt(p)' /\ ~Commenting(p)'
                BY <3>1, <3>2 DEF CommentAt, Commenting, Unlinked, Op
            <3>6. ASSUME NEW q \in Procs, q # p PROVE CommentAt(q)' /\ (Commenting(q)' <=> Commenting(q))
                <4>1. CommentAt(q) /\ pc'[q] = pc[q]
                    BY <3>1, <3>6 DEF CommentInv, Functional
                <4> QED BY <3>1, <3>2, <4>1 DEF CommentAt, Commenting, Unlinked, Op
            <3> QED BY <3>1, <3>3, <3>4, <3>5, <3>6 DEF CommentInv
        <2>15. CASE DeleteReply(p)
            <3>1. /\ memos' \subseteq memos /\ pc[p] = "delete_reply" /\ pc'[p] \in {"delete_reply", "unref"}
                  /\ pc' = [pc EXCEPT ![p] = pc'[p]]
                  /\ UNCHANGED <<next, rel, notices, comments, parent, req, memo>>
                BY <2>15 DEF DeleteReply, Loop, Goto, Functional
            <3>2. \A m : RelationsOf(m, "COMMENT")' = RelationsOf(m, "COMMENT")
                BY <3>1 DEF RelationsOf
            <3>3. IdsGiven' /\ CommentForest'
                BY <3>1, <3>2 DEF IdsGiven, CommentForest
            <3>4. CommentAt(p)' /\ ~Commenting(p)'
                BY <3>1 DEF CommentAt, Commenting, Unlinked, Early, Op
            <3>5. ASSUME NEW q \in Procs, q # p PROVE CommentAt(q)' /\ (Commenting(q)' <=> Commenting(q))
                <4>1. CommentAt(q) /\ pc'[q] = pc[q]
                    BY <3>1, <3>5 DEF CommentInv, Functional
                <4> QED BY <3>1, <3>2, <4>1 DEF CommentAt, Commenting, Unlinked, Op
            <3> QED BY <3>1, <3>3, <3>4, <3>5 DEF CommentInv
        <2>16. CASE Unrefer(p)
            <3>1. \A r : r.type = "COMMENT" => (r \in rel' <=> r \in rel)
                BY <2>16 DEF Unrefer, RelationsTo
            <3> QED BY <2>m, <2>16, <3>1 DEF Unrefer, Goto, Functional, Early
        <2>17. CASE SaveFile(p) \/ InsertAttachment(p)
            BY <2>m, <2>17 DEF SaveFile, InsertAttachment, Goto, Functional, Early
        <2> QED
            BY <1>3, <2>1, <2>2, <2>3, <2>4, <2>5, <2>6, <2>7, <2>8, <2>9, <2>10, <2>11, <2>12,
               <2>13,
               <2>14, <2>15, <2>16, <2>17
            DEF Continue
    <1>4. ASSUME NEW p \in Procs, Fail(p) \/ Respond(p) PROVE CommentInv'
        BY <1>4, CommentEnd DEF Fail, Respond
    <1> QED BY <1>1, <1>2, <1>3, <1>4 DEF Next

\* However the handlers interleave and wherever they fail: comments form a forest, no edit makes
\* a comment of a memo, and a comment that was announced is linked to the memo it is about for as
\* long as it exists.
THEOREM CommentsFormAForest == Spec => []CommentForest
    <1>1. Init => CommentInv
        <2>1. Init => Functional /\ IdsGiven
            BY DEF Init, Functional, IdsGiven, PCs
        <2>2. Init => CommentForest
            BY DEF Init, CommentForest
        <2>3. Init => \A p \in Procs : CommentAt(p) /\ ~Commenting(p)
            BY DEF Init, CommentAt, Commenting, Unlinked, Early
        <2> QED BY <2>1, <2>2, <2>3 DEF CommentInv
    <1>2. CommentInv => CommentForest
        BY DEF CommentInv
    <1> QED BY CommentStep, <1>1, <1>2, PTL DEF Spec
-----------------------------------------------------------------------------
(* One request at a time: how far its handler has come.                     *)

Setters == {"create", "comment", "update", "set"}

\* What the memo refers to.
Refs(m) == {r.related : r \in RelationsOf(m, "REFERENCE")}

\* DeleteMemo, from its first call to its last.
Bare     == {"replies", "delete_reply", "unref", "done"}     \* the attachments listed are gone
Alone    == {"drop", "drop_row"} \cup Bare                   \* so are its own relations
Vanished == {"unlink"} \cup Alone                            \* and the row
Doomed   == {"collect", "delete_row"} \cup Vanished

Replies(p) == RelationsTo(memo[p], "COMMENT")

DeletionAt(p) ==
    Op(p) = "delete" =>
        /\ pc[p] \in Doomed
        /\ pc[p] \in {"delete_row", "unlink", "drop", "drop_row"} =>
               AttachmentsOf(memo[p]) = left[p] \cup beyond[p] /\ left[p] \cap beyond[p] = {}
        /\ pc[p] = "drop_row" => cur[p] \in left[p]
        /\ pc[p] \in Vanished => memo[p] \notin memos
        /\ pc[p] \in Alone => \A r \in rel : r.memo # memo[p]
        /\ pc[p] \in Bare => AttachmentsOf(memo[p]) = beyond[p]
        /\ pc[p] = "delete_reply" => \A r \in Replies(p) : r.memo \in memos => r.memo \in left[p]
        /\ pc[p] \in {"unref", "done"} => \A r \in Replies(p) : r.memo \notin memos
        /\ pc[p] = "done" => RelationsTo(memo[p], "REFERENCE") = {}

\* CreateMemo and UpdateMemo: the attachments, then the relations, then the answer.
Closing  == {"read_back", "link", "activity", "inbox", "done"}
Relating == {"find_again", "unrelate", "relate", "relate_insert"}
Setting  == {"insert", "find", "list", "drop", "drop_row", "attach", "attach_set"}

SettingAt(p) ==
    Op(p) \in Setters =>
        /\ pc[p] \in Setting \cup Relating \cup Closing
        /\ req[p].type \in Types
        /\ pc[p] \in {"drop", "drop_row"} =>
               /\ AttachmentsOf(memo[p]) \ req[p].atts = left[p] \cup (beyond[p] \ req[p].atts)
               /\ beyond[p] \subseteq AttachmentsOf(memo[p]) /\ left[p] \cap beyond[p] = {}
        /\ pc[p] = "drop_row" => cur[p] \in left[p]
        /\ pc[p] \in {"attach", "attach_set"} =>
               /\ left[p] \subseteq req[p].atts
               /\ AttachmentsOf(memo[p]) \subseteq req[p].atts \cup beyond[p]
               /\ (req[p].atts \ left[p]) \cup beyond[p] \subseteq AttachmentsOf(memo[p])
        /\ pc[p] = "attach_set" => cur[p] \in left[p] \cap DOMAIN atts
        /\ pc[p] \in Relating \cup Closing /\ WantsAttachments(req[p]) =>
               AttachmentsOf(memo[p]) = req[p].atts \cup beyond[p]
        /\ pc[p] \in {"relate", "relate_insert"} =>
               /\ req[p].type = "REFERENCE"
               /\ left[p] \subseteq ToRelate(req[p], memo[p])
               /\ Refs(memo[p]) = ToRelate(req[p], memo[p]) \ left[p]
        /\ pc[p] = "relate_insert" => cur[p] \in left[p]
        /\ pc[p] \in Closing /\ WantsRelations(req[p]) =>
               Refs(memo[p]) = ToRelate(req[p], memo[p])

OnCourse(p) == (pc[p] = "idle" => req[p] = NoReq) /\ DeletionAt(p) /\ SettingAt(p)

CourseInv == Functional /\ \A p \in Procs : OnCourse(p)

-----------------------------------------------------------------------------
(* Every step keeps the handler on its course.                              *)

LEMMA CourseEnd == ASSUME Functional, NEW p \in Procs, End(p) PROVE OnCourse(p)'
    <1>1. pc'[p] = "idle" /\ req'[p] = NoReq /\ req'[p].op = "none"
        BY DEF Functional, End, Goto, NoReq
    <1> QED BY <1>1 DEF OnCourse, DeletionAt, SettingAt, Op, Setters

\* A request comes in.
LEMMA CourseArrive ==
    ASSUME Functional, NEW p \in Procs, Arrive(p)
    PROVE  OnCourse(p)'
    <1>1. CASE CreateMemo(p) \/ CreateMemoComment(p)
        <2>1. PICK r : Call(p, r, "insert") /\ r.op \in {"create", "comment"} /\ r.type = "REFERENCE"
            <3>1. CASE CreateMemo(p)
                <4>1. PICK S \in SUBSET used, R \in SUBSET Named :
                         Call(p, [Request("create", 0) EXCEPT !.atts = S, !.related = R], "insert")
                    BY <3>1 DEF CreateMemo
                <4> DEFINE q == [Request("create", 0) EXCEPT !.atts = S, !.related = R]
                <4>2. q.op \in {"create", "comment"} /\ q.type = "REFERENCE"
                    BY DEF Request
                <4>3. Call(p, q, "insert")
                    BY <4>1
                <4> HIDE DEF q
                <4> QED BY <4>2, <4>3
            <3>2. CASE CreateMemoComment(p)
                <4>1. PICK m \in Named, S \in SUBSET used, n \in BOOLEAN :
                         Call(p, [Request("comment", m) EXCEPT !.atts = S, !.notify = n], "insert")
                    BY <3>2 DEF CreateMemoComment
                <4> DEFINE q == [Request("comment", m) EXCEPT !.atts = S, !.notify = n]
                <4>2. q.op \in {"create", "comment"} /\ q.type = "REFERENCE"
                    BY DEF Request
                <4>3. Call(p, q, "insert")
                    BY <4>1
                <4> HIDE DEF q
                <4> QED BY <4>2, <4>3
            <3> QED BY <1>1, <3>1, <3>2
        <2>2. pc'[p] = "insert" /\ req'[p] = r
            BY <2>1 DEF Call, Goto, Functional
        <2> QED BY <2>1, <2>2 DEF OnCourse, DeletionAt, SettingAt, Op, Setters, Setting, Relating, Closing, Types
    <1>2. CASE Edit(p)
        <2>1. PICK op \in {"update", "set"}, m \in memos, S \in SUBSET used, R \in SUBSET Named,
                   t \in Types, P \in SUBSET Paths :
                  Call(p, EditRequest(op, m, S, R, t, P), FirstStage(EditRequest(op, m, S, R, t, P)))
            BY <1>2 DEF Edit
        <2> DEFINE r == EditRequest(op, m, S, R, t, P)
        <2>a. r.op \in {"update", "set"} /\ r.type \in Types
            BY DEF EditRequest, Request
        <2> HIDE DEF r
        <2>b. Call(p, r, FirstStage(r))
            BY <2>1 DEF r
        <2>2. /\ pc'[p] = FirstStage(req'[p]) /\ req'[p].op \in {"update", "set"}
              /\ req'[p].type \in Types
            BY <2>a, <2>b DEF Call, Goto, Functional
        <2>3. /\ pc'[p] \in {"find", "find_again", "done", "read_back"}
              /\ pc'[p] \in {"find_again", "done", "read_back"} => ~WantsAttachments(req'[p])
              /\ pc'[p] \in {"done", "read_back"} => ~WantsRelations(req'[p])
            BY <2>2 DEF FirstStage, RelationStage, LastStage
        <2> QED BY <2>2, <2>3 DEF OnCourse, DeletionAt, SettingAt, Op, Setters, Setting, Relating, Closing
    <1>3. CASE DeleteMemo(p)
        <2>1. pc'[p] = "collect" /\ req'[p].op = "delete"
            BY <1>3 DEF DeleteMemo, Call, Goto, Request, Functional
        <2> QED BY <2>1 DEF OnCourse, DeletionAt, SettingAt, Op, Setters, Doomed, Vanished, Alone, Bare
    <1>4. CASE CreateAttachment(p) \/ DeleteAttachment(p)
        <2>1. pc'[p] \in {"save", "drop"} /\ req'[p].op \in {"upload", "discard"}
            BY <1>4 DEF CreateAttachment, DeleteAttachment, Call, Goto, Request, Functional
        <2> QED BY <2>1 DEF OnCourse, DeletionAt, SettingAt, Op, Setters
    <1> QED BY <1>1, <1>2, <1>3, <1>4 DEF Arrive

\* The steps of a handler.
LEMMA ContinueParts ==
    ASSUME NEW p, Continue(p)
    PROVE  \/ InsertMemo(p) \/ FindMemo(p) \/ ListAttachments(p) \/ DropFile(p) \/ DropRow(p)
           \/ GetAttachment(p) \/ UpdateAttachment(p) \/ FindMemoAgain(p) \/ Unrelate(p)
           \/ GetRelated(p) \/ InsertRelation(p) \/ (ReadBack(p) \/ LinkComment(p) \/ Notify(p))
           \/ CollectAttachments(p) \/ (DeleteRow(p) \/ Unlink(p)) \/ ListReplies(p) \/ DeleteReply(p)
           \/ Unrefer(p) \/ (SaveFile(p) \/ LocateMemo(p) \/ InsertAttachment(p))
    BY DEF Continue

\* The handler moves on within its locals.
LEMMA CourseContinue ==
    ASSUME Functional, NEW p \in Procs, OnCourse(p), Continue(p)
    PROVE  OnCourse(p)'
    <1> USE DEF OnCourse, Op, ghosts
    <1> DEFINE m == memo[p]
    <1>0. CASE End(p)
        BY <1>0, CourseEnd
    <1>1. CASE InsertMemo(p)
        <2>1. /\ pc'[p] = FirstStage(req'[p]) /\ req'[p] = req[p] /\ pc[p] = "insert"
            BY <1>1 DEF InsertMemo, Goto, Functional
        <2>2. Op(p) # "delete"
            BY <2>1 DEF DeletionAt, Doomed, Vanished, Alone, Bare
        <2>3. /\ pc'[p] \in {"find", "find_again", "done", "read_back"}
              /\ pc'[p] \in {"find_again", "done", "read_back"} => ~WantsAttachments(req'[p])
              /\ pc'[p] \in {"done", "read_back"} => ~WantsRelations(req'[p])
            BY <2>1 DEF FirstStage, RelationStage, LastStage
        <2> QED BY <2>1, <2>2, <2>3 DEF DeletionAt, SettingAt, Setters, Setting, Relating, Closing
    <1>2. CASE FindMemo(p) /\ ~End(p)
        <2>1. /\ pc[p] = "find" /\ pc'[p] = "list" /\ req'[p] = req[p]
            BY <1>2 DEF FindMemo, Abort, Goto, Functional, locals
        <2> QED BY <2>1 DEF DeletionAt, SettingAt, Setting, Relating, Closing, Doomed, Vanished, Alone, Bare
    <1>3. CASE ListAttachments(p)
        <2>1. /\ pc[p] = "list" /\ UNCHANGED <<atts, rel>> /\ req'[p] = req[p] /\ memo'[p] = memo[p]
            BY <1>3 DEF ListAttachments, rows
        <2>2. Op(p) # "delete"
            BY <2>1 DEF DeletionAt, Doomed, Vanished, Alone, Bare
        <2>3. AttachmentsOf(m)' = AttachmentsOf(m)
            BY <2>1 DEF AttachmentsOf
        <2>6. PICK S \in Listed(m) :
                /\ beyond' = [beyond EXCEPT ![p] = AttachmentsOf(m) \ S]
                /\ IF S \ req[p].atts # {} THEN Loop(p, S \ req[p].atts, "drop", "drop")
                   ELSE Loop(p, req[p].atts, "attach", RelationStage(req[p]))
            BY <1>3 DEF ListAttachments
        <2>7. beyond'[p] = AttachmentsOf(m) \ S /\ S \subseteq AttachmentsOf(m)
            BY <2>6 DEF Functional, Listed
        <2>4. CASE S \ req[p].atts # {}
            <3>1. pc'[p] = "drop" /\ left'[p] = S \ req[p].atts
                BY <2>4, <2>6 DEF Loop, Goto, Functional
            <3> QED BY <2>1, <2>2, <2>3, <2>7, <3>1 DEF DeletionAt, SettingAt, Setting, Relating, Closing
        <2>5. CASE S \ req[p].atts = {}
            <3>1. /\ left'[p] = req[p].atts
                  /\ pc'[p] = IF req[p].atts = {} THEN RelationStage(req[p]) ELSE "attach"
                BY <2>5, <2>6 DEF Loop, Goto, Functional
            <3>2. /\ pc'[p] \in {"attach", "find_again", "done", "read_back"}
                  /\ pc'[p] \in {"done", "read_back"} => ~WantsRelations(req[p])
                  /\ pc'[p] # "attach" => req[p].atts = {}
                BY <3>1 DEF RelationStage, LastStage
            <3>3. /\ AttachmentsOf(m) \subseteq req[p].atts \cup beyond'[p]
                  /\ beyond'[p] \subseteq AttachmentsOf(m)
                  /\ req[p].atts = {} => AttachmentsOf(m) = beyond'[p]
                BY <2>5, <2>7
            <3> QED BY <2>1, <2>2, <2>3, <3>1, <3>2, <3>3 DEF DeletionAt, SettingAt, Setting, Relating, Closing
        <2> QED BY <2>4, <2>5
    <1>4. CASE DropFile(p) /\ ~End(p)
        <2>1. /\ pc[p] = "drop" /\ UNCHANGED <<atts, rel, memos, left, beyond>>
              /\ req'[p] = req[p] /\ memo'[p] = memo[p]
              /\ pc'[p] = "drop_row" /\ cur'[p] \in left[p]
            BY <1>4 DEF DropFile, Abort, Goto, Functional
        <2>2. AttachmentsOf(m)' = AttachmentsOf(m) /\ Replies(p)' = Replies(p)
            BY <2>1 DEF AttachmentsOf, Replies, RelationsTo
        <2> QED BY <2>1, <2>2 DEF DeletionAt, SettingAt, Setting, Relating, Closing, Doomed, Vanished, Alone, Bare
    <1>5. CASE DropRow(p)
        <2>1. /\ pc[p] = "drop_row" /\ UNCHANGED <<rel, memos, beyond>> /\ req'[p] = req[p] /\ memo'[p] = memo[p]
            BY <1>5 DEF DropRow
        <2>2. AttachmentsOf(m)' = AttachmentsOf(m) \ {cur[p]}
            BY <1>5, <2>1 DEF DropRow, Restrict, AttachmentsOf
        <2>3. CASE left[p] # {cur[p]}
            <3>1. cur[p] \in left[p] => pc'[p] = "drop" /\ left'[p] = left[p] \ {cur[p]}
                BY <1>5, <2>3 DEF DropRow, AfterDrop, Loop, Goto, Functional
            <3>2. CASE Op(p) = "delete"
                BY <2>1, <2>2, <3>1, <3>2
                   DEF DeletionAt, SettingAt, Setters, Doomed, Vanished, Alone, Bare
            <3>3. CASE Op(p) \in Setters
                BY <2>1, <2>2, <3>1, <3>3
                   DEF DeletionAt, SettingAt, Setters, Setting, Relating, Closing
            <3>4. CASE Op(p) \notin Setters \cup {"delete"}
                <4>1. pc'[p] = "drop"
                    BY <1>5, <2>3 DEF DropRow, AfterDrop, Loop, Goto, Functional
                <4> QED BY <2>1, <3>4, <4>1 DEF DeletionAt, SettingAt
            <3> QED BY <3>2, <3>3, <3>4
        <2>4. CASE left[p] = {cur[p]}
            <3>1. CASE Op(p) = "delete"
                <4>1. pc'[p] = "replies" /\ left'[p] = {}
                    BY <1>5, <2>4, <3>1 DEF DropRow, AfterDrop, Loop, Goto, Functional
                <4> QED BY <2>1, <2>2, <2>4, <3>1, <4>1
                        DEF DeletionAt, SettingAt, Setters, Doomed, Vanished, Alone, Bare
            <3>2. CASE Op(p) \in Setters
                <4>1. /\ left'[p] = req[p].atts
                      /\ pc'[p] = IF req[p].atts = {} THEN RelationStage(req[p]) ELSE "attach"
                    BY <1>5, <2>4, <3>2 DEF DropRow, AfterDrop, Loop, Goto, Functional, Setters
                <4>2. /\ pc'[p] \in {"attach", "find_again", "done", "read_back"}
                      /\ pc'[p] \in {"done", "read_back"} => ~WantsRelations(req[p])
                      /\ pc'[p] # "attach" => req[p].atts = {}
                    BY <4>1 DEF RelationStage, LastStage
                <4> QED BY <2>1, <2>2, <2>4, <3>2, <4>1, <4>2
                        DEF DeletionAt, SettingAt, Setters, Setting, Relating, Closing
            <3>3. CASE Op(p) \notin Setters \cup {"delete"}
                <4>1. pc'[p] # "idle"
                    BY <1>5, <2>4, Stages DEF DropRow, AfterDrop, Loop, Goto, Functional
                <4> QED BY <2>1, <3>3, <4>1 DEF DeletionAt, SettingAt
            <3> QED BY <3>1, <3>2, <3>3
        <2> QED BY <2>3, <2>4
    <1>6. CASE GetAttachment(p) /\ ~End(p)
        <2>1. /\ pc[p] = "attach" /\ UNCHANGED <<atts, rel, memos, left, beyond>>
              /\ req'[p] = req[p] /\ memo'[p] = memo[p]
              /\ pc'[p] = "attach_set" /\ cur'[p] \in left[p] \cap DOMAIN atts
            BY <1>6 DEF GetAttachment, Abort, Goto, Functional, rows
        <2>2. AttachmentsOf(m)' = AttachmentsOf(m)
            BY <2>1 DEF AttachmentsOf
        <2> QED BY <2>1, <2>2 DEF DeletionAt, SettingAt, Setters, Setting, Relating, Closing, Doomed, Vanished, Alone, Bare
    <1>7. CASE UpdateAttachment(p)
        <2>1. /\ pc[p] = "attach_set" /\ UNCHANGED <<rel, memos, beyond>> /\ req'[p] = req[p] /\ memo'[p] = memo[p]
            BY <1>7 DEF UpdateAttachment
        <2>2. Op(p) # "delete"
            BY <2>1 DEF DeletionAt, Doomed, Vanished, Alone, Bare
        <2>3. Op(p) \in Setters => AttachmentsOf(m)' = AttachmentsOf(m) \cup {cur[p]}
            BY <1>7, <2>1 DEF UpdateAttachment, AttachmentsOf, SettingAt
        <2>4. /\ left'[p] = left[p] \ {cur[p]}
              /\ pc'[p] = IF left'[p] = {} THEN RelationStage(req[p]) ELSE "attach"
            BY <1>7 DEF UpdateAttachment, Loop, Goto, Functional
        <2>5. /\ pc'[p] \in {"attach", "find_again", "done", "read_back"}
              /\ pc'[p] \in {"done", "read_back"} => ~WantsRelations(req[p])
              /\ pc'[p] # "attach" => left'[p] = {}
            BY <2>4 DEF RelationStage, LastStage
        <2>6. CASE Op(p) \in Setters
            <3>1. /\ left'[p] \subseteq req[p].atts
                  /\ AttachmentsOf(m)' \subseteq req[p].atts \cup beyond[p]
                  /\ (req[p].atts \ left'[p]) \cup beyond[p] \subseteq AttachmentsOf(m)'
                BY <2>1, <2>3, <2>4, <2>6 DEF SettingAt
            <3>2. left'[p] = {} => AttachmentsOf(m)' = req[p].atts \cup beyond[p]
                BY <3>1
            <3> QED BY <2>1, <2>2, <2>5, <2>6, <3>1, <3>2 DEF DeletionAt, SettingAt, Setting, Relating, Closing
        <2>7. CASE Op(p) \notin Setters
            BY <2>1, <2>2, <2>5, <2>7 DEF DeletionAt, SettingAt
        <2> QED BY <2>6, <2>7
    <1>8. CASE FindMemoAgain(p) /\ ~End(p)
        <2>1. /\ pc[p] = "find_again" /\ pc'[p] = "unrelate" /\ UNCHANGED <<atts, beyond>>
              /\ req'[p] = req[p] /\ memo'[p] = memo[p]
            BY <1>8 DEF FindMemoAgain, Abort, Goto, Functional, locals, rows
        <2>2. AttachmentsOf(m)' = AttachmentsOf(m)
            BY <2>1 DEF AttachmentsOf
        <2> QED BY <2>1, <2>2 DEF DeletionAt, SettingAt, Setting, Relating, Closing, Doomed, Vanished, Alone, Bare
    <1>9. CASE Unrelate(p)
        <2>1. /\ pc[p] = "unrelate" /\ UNCHANGED <<atts, beyond>> /\ req'[p] = req[p] /\ memo'[p] = memo[p]
            BY <1>9 DEF Unrelate
        <2>2. Op(p) # "delete"
            BY <2>1 DEF DeletionAt, Doomed, Vanished, Alone, Bare
        <2>3. AttachmentsOf(m)' = AttachmentsOf(m) /\ Refs(m)' = {}
            BY <1>9, <2>1 DEF Unrelate, AttachmentsOf, Refs, RelationsOf
        <2>4. /\ left'[p] = ToRelate(req[p], m)
              /\ pc'[p] = IF left'[p] = {} THEN LastStage(req[p]) ELSE "relate"
            BY <1>9 DEF Unrelate, Loop, Goto, Functional
        <2>5. /\ pc'[p] \in {"relate", "done", "read_back"}
              /\ pc'[p] # "relate" => left'[p] = {}
              /\ pc'[p] = "relate" => req[p].type # "COMMENT"
            BY <2>4 DEF LastStage, ToRelate
        <2> QED BY <2>1, <2>2, <2>3, <2>4, <2>5 DEF DeletionAt, SettingAt, Setting, Relating, Closing, Types
    <1>10. CASE GetRelated(p) /\ ~End(p)
        <2>1. /\ pc[p] = "relate" /\ UNCHANGED <<atts, rel, left, beyond>>
              /\ req'[p] = req[p] /\ memo'[p] = memo[p]
              /\ pc'[p] = "relate_insert" /\ cur'[p] \in left[p]
            BY <1>10 DEF GetRelated, Abort, Goto, Functional, rows
        <2>2. AttachmentsOf(m)' = AttachmentsOf(m) /\ Refs(m)' = Refs(m)
            BY <2>1 DEF AttachmentsOf, Refs, RelationsOf
        <2> QED BY <2>1, <2>2 DEF DeletionAt, SettingAt, Setting, Relating, Closing, Doomed, Vanished, Alone, Bare
    <1>11. CASE InsertRelation(p) /\ ~End(p)
        <2>1. /\ pc[p] = "relate_insert" /\ UNCHANGED <<atts, beyond>> /\ req'[p] = req[p] /\ memo'[p] = memo[p]
              /\ rel' = rel \cup {[memo |-> m, related |-> cur[p], type |-> req[p].type]}
            BY <1>11 DEF InsertRelation, Abort
        <2>2. Op(p) # "delete"
            BY <2>1 DEF DeletionAt, Doomed, Vanished, Alone, Bare
        <2>3. AttachmentsOf(m)' = AttachmentsOf(m)
            BY <2>1 DEF AttachmentsOf
        <2>4. Op(p) \in Setters => Refs(m)' = Refs(m) \cup {cur[p]}
            <3> DEFINE new == [memo |-> m, related |-> cur[p], type |-> "REFERENCE"]
            <3> SUFFICES ASSUME Op(p) \in Setters PROVE Refs(m)' = Refs(m) \cup {cur[p]}
                OBVIOUS
            <3>1. rel' = rel \cup {new}
                BY <2>1 DEF SettingAt
            <3>2. new.memo = m /\ new.type = "REFERENCE" /\ new.related = cur[p]
                OBVIOUS
            <3> HIDE DEF new
            <3>3. RelationsOf(m, "REFERENCE")' = RelationsOf(m, "REFERENCE") \cup {new}
                BY <2>1, <3>1, <3>2 DEF RelationsOf
            <3> QED BY <2>1, <3>2, <3>3 DEF Refs
        <2>5. /\ left'[p] = left[p] \ {cur[p]}
              /\ pc'[p] = IF left'[p] = {} THEN LastStage(req[p]) ELSE "relate"
            BY <1>11 DEF InsertRelation, Abort, Loop, Goto, Functional
        <2>6. /\ pc'[p] \in {"relate", "done", "read_back"}
              /\ pc'[p] # "relate" => left'[p] = {}
            BY <2>5 DEF LastStage
        <2> QED BY <2>1, <2>2, <2>3, <2>4, <2>5, <2>6, SMTT(60) DEF DeletionAt, SettingAt, Setting, Relating, Closing
    <1>12. CASE (ReadBack(p) \/ LinkComment(p) \/ Notify(p)) /\ ~End(p)
        <2>1. /\ pc[p] \in {"read_back", "link", "activity", "inbox"} /\ UNCHANGED <<atts, beyond>>
              /\ req'[p] = req[p] /\ memo'[p] = memo[p] /\ pc'[p] \in Closing
            BY <1>12 DEF ReadBack, LinkComment, Notify, Abort, Goto, Functional, locals, rows, Closing
        <2>2. Op(p) # "delete"
            BY <2>1 DEF DeletionAt, Doomed, Vanished, Alone, Bare
        <2>3. AttachmentsOf(m)' = AttachmentsOf(m)
            BY <2>1 DEF AttachmentsOf
        <2>4. Refs(m)' = Refs(m)
            BY <1>12, <2>1 DEF ReadBack, LinkComment, Notify, Abort, rows, Refs, RelationsOf
        <2> QED BY <2>1, <2>2, <2>3, <2>4 DEF DeletionAt, SettingAt, Setting, Relating, Closing
    <1>13. CASE CollectAttachments(p)
        <2>1. /\ pc[p] = "collect" /\ pc'[p] = "delete_row" /\ UNCHANGED atts
              /\ req'[p] = req[p] /\ memo'[p] = memo[p]
            BY <1>13 DEF CollectAttachments, Goto, Functional, rows
        <2>2. /\ AttachmentsOf(m) = left'[p] \cup beyond'[p]
              /\ left'[p] \cap beyond'[p] = {}
            BY <1>13 DEF CollectAttachments, Listed, Functional
        <2> QED BY <2>1, <2>2 DEF DeletionAt, SettingAt, Setting, Relating, Closing, Doomed, Vanished, Alone, Bare, AttachmentsOf
    <1>14. CASE DeleteRow(p) \/ Unlink(p)
        <2>1. /\ UNCHANGED <<atts, left, beyond>> /\ req'[p] = req[p] /\ memo'[p] = memo[p]
              /\ \/ pc[p] = "delete_row" /\ pc'[p] = "unlink" /\ memos' = memos \ {m} /\ rel' = rel
                 \/ /\ pc[p] = "unlink" /\ memos' = memos /\ rel' = {r \in rel : r.memo # m}
                    /\ pc'[p] = IF left[p] = {} THEN "replies" ELSE "drop"
            BY <1>14 DEF DeleteRow, Unlink, Goto, Functional, locals
        <2>2. AttachmentsOf(m)' = AttachmentsOf(m)
            BY <2>1 DEF AttachmentsOf
        <2> QED BY <2>1, <2>2 DEF DeletionAt, SettingAt, Setting, Relating, Closing, Doomed, Vanished, Alone, Bare
    <1>15. CASE ListReplies(p)
        <2>1. /\ pc[p] = "replies" /\ UNCHANGED <<atts, rel, memos, beyond>> /\ req'[p] = req[p] /\ memo'[p] = memo[p]
              /\ left'[p] = {r.memo : r \in Replies(p)}
              /\ pc'[p] = IF left'[p] = {} THEN "unref" ELSE "delete_reply"
            BY <1>15 DEF ListReplies, Loop, Goto, Functional, rows, Replies
        <2>2. AttachmentsOf(m)' = AttachmentsOf(m) /\ Replies(p)' = Replies(p)
            BY <2>1 DEF AttachmentsOf, Replies, RelationsTo
        <2> QED BY <2>1, <2>2, SMTT(60) DEF DeletionAt, SettingAt, Setting, Relating, Closing, Doomed, Vanished, Alone, Bare
    <1>16. CASE DeleteReply(p)
        <2>1. PICK c \in left[p] : /\ memos' = memos \ {c} /\ left'[p] = left[p] \ {c}
                                  /\ pc'[p] = IF left'[p] = {} THEN "unref" ELSE "delete_reply"
            BY <1>16 DEF DeleteReply, Loop, Goto, Functional
        <2>2. /\ pc[p] = "delete_reply" /\ UNCHANGED <<atts, rel, beyond>> /\ req'[p] = req[p] /\ memo'[p] = memo[p]
            BY <1>16 DEF DeleteReply
        <2>3. AttachmentsOf(m)' = AttachmentsOf(m) /\ Replies(p)' = Replies(p)
            BY <2>2 DEF AttachmentsOf, Replies, RelationsTo
        <2> QED BY <2>1, <2>2, <2>3 DEF DeletionAt, SettingAt, Setting, Relating, Closing, Doomed, Vanished, Alone, Bare
    <1>17. CASE Unrefer(p)
        <2>1. /\ pc[p] = "unref" /\ pc'[p] = "done" /\ UNCHANGED <<atts, memos, left, beyond>>
              /\ req'[p] = req[p] /\ memo'[p] = memo[p] /\ rel' = rel \ RelationsTo(m, "REFERENCE")
            BY <1>17 DEF Unrefer, Goto, Functional, locals
        <2>2. /\ AttachmentsOf(m)' = AttachmentsOf(m) /\ Replies(p)' \subseteq Replies(p)
              /\ RelationsTo(m, "REFERENCE")' = {}
            BY <2>1 DEF AttachmentsOf, Replies, RelationsTo
        <2> QED BY <2>1, <2>2 DEF DeletionAt, SettingAt, Setting, Relating, Closing, Doomed, Vanished, Alone, Bare
    <1>18. CASE SaveFile(p) \/ LocateMemo(p) \/ InsertAttachment(p)
        <2>1. /\ pc[p] \in {"save", "locate", "insert_att"} /\ req'[p] = req[p] /\ pc'[p] # "idle"
              \/ End(p)
            BY <1>18 DEF SaveFile, LocateMemo, InsertAttachment, Abort, Goto, Functional, locals
        <2>2. pc[p] \in {"save", "locate", "insert_att"} => Op(p) \notin Setters \cup {"delete"}
            BY DEF DeletionAt, SettingAt, Setting, Relating, Closing, Doomed, Vanished, Alone, Bare
        <2> QED BY <1>0, <2>1, <2>2 DEF DeletionAt, SettingAt
    <1> QED
        BY <1>0, <1>1, <1>2, <1>3, <1>4, <1>5, <1>6, <1>7, <1>8, <1>9, <1>10, <1>11, <1>12, <1>13,
           <1>14, <1>15, <1>16, <1>17, <1>18, ContinueParts

LEMMA CourseStep ==
    ASSUME \A p, q \in Procs : p = q, CourseInv, [Next]_vars
    PROVE  CourseInv'
    <1>f. Functional /\ Functional'
        BY FunctionalStep DEF CourseInv
    <1>1. CASE UNCHANGED vars
        BY <1>1, <1>f DEF vars, rows, locals, ghosts, CourseInv, OnCourse, DeletionAt, SettingAt, Op, Replies, Refs,
              RelationsOf, RelationsTo, AttachmentsOf
    <1>2. CASE Next
        <2>1. PICK p \in Procs : Arrive(p) \/ Continue(p) \/ Fail(p) \/ Respond(p)
            BY <1>2 DEF Next
        <2>2. OnCourse(p)'
            BY <1>f, <2>1, CourseArrive, CourseContinue, CourseEnd DEF CourseInv, Fail, Respond
        <2> QED BY <1>f, <2>2 DEF CourseInv
    <1> QED BY <1>1, <1>2

\* While requests are served one at a time, a memo reported deleted leaves nothing behind: no
\* attachment, no relation, no comment, whatever failed before (DeleteMemo).
THEOREM DeletionsAreWhole ==
    ASSUME \A p, q \in Procs : p = q
    PROVE  Spec => []DeletedWhole
    <1>1. Init => CourseInv
        BY DEF Init, CourseInv, Functional, OnCourse, DeletionAt, SettingAt, Op, NoReq, Setters, PCs
    <1>2. CourseInv /\ [Next]_vars => CourseInv'
        BY CourseStep
    <1>3. CourseInv => DeletedWhole
        BY DEF CourseInv, OnCourse, DeletionAt, DeletedWhole, Done, Vanished, Alone, Bare, Replies
    <1> QED BY <1>1, <1>2, <1>3, PTL DEF Spec

\* While requests are served one at a time, a memo reported created or edited has exactly the
\* attachments and references the request names (SetMemoAttachments, SetMemoRelations).
THEOREM EditsAreExact ==
    ASSUME \A p, q \in Procs : p = q
    PROVE  Spec => []SetAsAsked
    <1>1. Init => CourseInv
        BY DEF Init, CourseInv, Functional, OnCourse, DeletionAt, SettingAt, Op, NoReq, Setters, PCs
    <1>2. CourseInv /\ [Next]_vars => CourseInv'
        BY CourseStep
    <1>3. CourseInv => SetAsAsked
        BY DEF CourseInv, OnCourse, SettingAt, SetAsAsked, Done, Setters, Closing, Refs
    <1> QED BY <1>1, <1>2, <1>3, PTL DEF Spec
=============================================================================
