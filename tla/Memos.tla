------------------------------- MODULE Memos -------------------------------
(***************************************************************************)
(* server/router/api/v1/memo_service.go, memo_relation_service.go,         *)
(* memo_attachment_service.go and attachment_service.go: the handlers that *)
(* create, comment on, edit and delete memos, and their attachments.       *)
(*                                                                         *)
(* A handler is a sequence of calls of the store, each one SQL statement   *)
(* or one access to the disk, without a transaction around them: handlers  *)
(* interleave, and one may end after any of its calls (an error of the     *)
(* driver, a nil pointer, the death of the process).                       *)
(*                                                                         *)
(* A memo is its id, which AUTOINCREMENT never gives twice; its content,   *)
(* visibility, payload and reactions are left out, permissions are taken   *)
(* as granted, and a uid is not given to a second memo.  An attachment is  *)
(* a row and a file on the local disk (storage type LOCAL).                *)
(***************************************************************************)
EXTENDS Naturals, FiniteSets, Functions

CONSTANTS
    Procs,      \* goroutines that serve requests
    Atts,       \* attachments
    FileOf,     \* attachment |-> path of its file, by the template of the storage
                \* setting: time in seconds and file name, not always unique
    Limit,      \* rows a listing of attachments returns at most: 100
    MaxMemos,   \* bound on the memos created
    Ops,        \* the requests made: some of AllOps
    Faults      \* calls of the store may fail

AllOps == {"create", "comment", "update", "set", "delete", "upload", "discard"}

ASSUME MemosAssumption ==
    /\ Limit \in Nat /\ MaxMemos \in Nat
    /\ Ops \subseteq AllOps
    /\ DOMAIN FileOf = Atts
    /\ Faults \in BOOLEAN

VARIABLES
    next,      \* the next id of a memo
    memos,     \* rows of memo
    rel,       \* rows of memo_relation
    atts,      \* rows of resource: attachment |-> memo_id, 0 when it has none
    files,     \* paths of the files on the disk
    notices,   \* activities, and the inbox messages made of them, by comment
    pc,        \* where each handler is
    req,       \* the request it serves
    memo,      \* the memo it works on
    parent,    \* the memo a comment is about, 0 when it was not found
    left,      \* what its loop has still to visit
    cur,       \* what its loop is visiting
    comments,  \* ids of memos created as comments
    used,      \* attachments uploaded so far
    faulted,   \* a call of the store has failed
    beyond     \* attachments of its memo that the handler's listing left out

rows == <<next, memos, rel, atts, files, notices>>
locals == <<req, memo, parent, left, cur>>
ghosts == <<comments, used, faulted, beyond>>
vars == <<rows, pc, locals, ghosts>>

Ids == 1..MaxMemos
Types == {"REFERENCE", "COMMENT"}
Relations == [memo : Ids, related : Ids, type : Types]
Paths == {"attachments", "relations"}

\* What a request says: its memo (for a comment, the memo commented on), its
\* attachments and relations, the paths an update is about, and whether the
\* memo's creator is to be told of the comment.
Requests == [op : Ops, memo : Ids \cup {0}, atts : SUBSET Atts, related : SUBSET Ids,
             type : Types, paths : SUBSET Paths, notify : BOOLEAN]
NoReq == [op |-> "none"]

PCs == {"idle", "insert", "find", "list", "drop", "drop_row", "attach", "attach_set",
        "find_again", "unrelate", "relate", "relate_insert", "read_back", "link",
        "activity", "inbox", "collect", "delete_row", "unlink", "replies",
        "delete_reply", "unref", "save", "locate", "insert_att", "done"}

TypeOK ==
    /\ next \in 1..(MaxMemos + 1)
    /\ memos \subseteq 1..(next - 1)
    /\ rel \subseteq Relations
    /\ DOMAIN atts \subseteq Atts /\ \A a \in DOMAIN atts : atts[a] \in 0..(next - 1)
    /\ notices \in [{"activity", "inbox"} -> SUBSET Ids]
    /\ pc \in [Procs -> PCs]
    /\ \A p \in Procs : IF pc[p] = "idle" THEN req[p] = NoReq ELSE req[p] \in Requests
    /\ memo \in [Procs -> 0..(next - 1)]
    /\ parent \in [Procs -> 0..(next - 1)]
    /\ DOMAIN left = Procs /\ \A p \in Procs : left[p] \subseteq Atts \cup Ids
    /\ DOMAIN cur = Procs /\ \A p \in Procs : cur[p] \in Atts \cup Ids \cup {0}
    /\ comments \subseteq 1..(next - 1)
    /\ DOMAIN atts \subseteq used /\ used \subseteq Atts
    /\ files \subseteq {FileOf[a] : a \in used}
    /\ faulted \in BOOLEAN
    /\ beyond \in [Procs -> SUBSET Atts]

Init ==
    /\ next = 1 /\ memos = {} /\ rel = {}
    /\ atts = [a \in {} |-> 0] /\ files = {}
    /\ notices = [n \in {"activity", "inbox"} |-> {}]
    /\ pc = [p \in Procs |-> "idle"]
    /\ req = [p \in Procs |-> NoReq]
    /\ memo = [p \in Procs |-> 0]
    /\ parent = [p \in Procs |-> 0]
    /\ left = [p \in Procs |-> {}]
    /\ cur = [p \in Procs |-> 0]
    /\ comments = {} /\ used = {} /\ faulted = FALSE
    /\ beyond = [p \in Procs |-> {}]

-----------------------------------------------------------------------------
Goto(p, label) == pc' = [pc EXCEPT ![p] = label]

\* The handler ends, with its locals.
End(p) ==
    /\ Goto(p, "idle")
    /\ req' = [req EXCEPT ![p] = NoReq]
    /\ memo' = [memo EXCEPT ![p] = 0]
    /\ parent' = [parent EXCEPT ![p] = 0]
    /\ left' = [left EXCEPT ![p] = {}]
    /\ cur' = [cur EXCEPT ![p] = 0]
    /\ beyond' = [beyond EXCEPT ![p] = {}]

Op(p) == req[p].op
RelationsOf(m, type) == {r \in rel : r.memo = m /\ r.type = type}
RelationsTo(m, type) == {r \in rel : r.related = m /\ r.type = type}
AttachmentsOf(m) == {a \in DOMAIN atts : atts[a] = m}

\* store.ListAttachments puts a limit of its own on a listing that names none:
\* of a memo with more attachments it returns some (those updated last).
Listed(m) ==
    {S \in SUBSET AttachmentsOf(m) :
        IF Cardinality(AttachmentsOf(m)) <= Limit THEN S = AttachmentsOf(m)
        ELSE Cardinality(S) = Limit}

\* The stages of CreateMemo, UpdateMemo, SetMemoAttachments and
\* SetMemoRelations, as far as the request asks for them.
WantsAttachments(r) ==
    IF r.op \in {"update", "set"} THEN "attachments" \in r.paths ELSE r.atts # {}
WantsRelations(r) ==
    IF r.op \in {"update", "set"} THEN "relations" \in r.paths ELSE r.related # {}
LastStage(r) == IF r.op = "set" THEN "done" ELSE "read_back"
RelationStage(r) == IF WantsRelations(r) THEN "find_again" ELSE LastStage(r)
FirstStage(r) == IF WantsAttachments(r) THEN "find" ELSE RelationStage(r)

\* The loop of p goes on with another element of S, or is over.
Loop(p, S, body, after) ==
    /\ left' = [left EXCEPT ![p] = S]
    /\ Goto(p, IF S = {} THEN after ELSE body)

\* A request comes in: the handler's first reads found what they must.
Call(p, r, first) ==
    /\ pc[p] = "idle"
    /\ r.op \in Ops
    /\ Goto(p, first)
    /\ req' = [req EXCEPT ![p] = r]
    /\ UNCHANGED <<rows, comments, faulted, beyond>>

Request(op, m) ==
    [op |-> op, memo |-> m, atts |-> {}, related |-> {}, type |-> "REFERENCE",
     paths |-> {}, notify |-> FALSE]

\* Memos and attachments that a client may name: it saw them at some time.
Named == 1..(next - 1)

\* Bound: there is an id left for every memo about to be inserted.
IdsLeft == next + Cardinality({q \in Procs : pc[q] = "insert"}) <= MaxMemos

CreateMemo(p) ==
    /\ IdsLeft
    /\ \E S \in SUBSET used, R \in SUBSET Named :
           Call(p, [Request("create", 0) EXCEPT !.atts = S, !.related = R], "insert")
    /\ UNCHANGED <<memo, parent, left, cur, used>>

\* CreateMemoComment looks for the memo commented on, and goes on with its
\* CreateMemo even if it is not there.
CreateMemoComment(p) ==
    /\ IdsLeft
    /\ \E m \in Named, S \in SUBSET used, n \in BOOLEAN :
           /\ Call(p, [Request("comment", m) EXCEPT !.atts = S, !.notify = n], "insert")
           /\ parent' = [parent EXCEPT ![p] = IF m \in memos THEN m ELSE 0]
    /\ UNCHANGED <<memo, left, cur, used>>

EditRequest(op, m, S, R, t, P) ==
    [Request(op, m) EXCEPT !.atts = S, !.related = R, !.type = t, !.paths = P]

\* UpdateMemo ("update") is SetMemoAttachments and SetMemoRelations, which are
\* also requests of their own ("set"), and an update of the row.
Edit(p) ==
    \E op \in {"update", "set"}, m \in memos, S \in SUBSET used, R \in SUBSET Named,
       t \in Types, P \in SUBSET Paths :
        LET r == EditRequest(op, m, S, R, t, P)
        IN  /\ P # {} /\ (op = "set" => Cardinality(P) = 1)
            /\ "attachments" \notin P => S = {}
            /\ "relations" \notin P => R = {} /\ t = "REFERENCE"
            /\ Call(p, r, FirstStage(r))
            /\ memo' = [memo EXCEPT ![p] = m]
            /\ UNCHANGED <<parent, left, cur, used>>

DeleteMemo(p) ==
    \E m \in memos :
        /\ Call(p, Request("delete", m), "collect")
        /\ memo' = [memo EXCEPT ![p] = m]
        /\ UNCHANGED <<parent, left, cur, used>>

\* CreateAttachment, for a memo or for none.
CreateAttachment(p) ==
    \E a \in Atts \ used, m \in Named \cup {0} :
        /\ Call(p, Request("upload", m), "save")
        /\ cur' = [cur EXCEPT ![p] = a]
        /\ used' = used \cup {a}
        /\ UNCHANGED <<memo, parent, left>>

DeleteAttachment(p) ==
    \E a \in DOMAIN atts :
        /\ Call(p, Request("discard", 0), "drop")
        /\ left' = [left EXCEPT ![p] = {a}]
        /\ UNCHANGED <<memo, parent, cur, used>>

\* An error, a nil pointer or the death of the process ends the handler.
Abort(p) ==
    /\ End(p)
    /\ UNCHANGED <<rows, comments, used, faulted>>

\* A call of the store fails, whatever the handler was about to do.
Fail(p) ==
    /\ Faults
    /\ pc[p] \notin {"idle", "done"}
    /\ End(p)
    /\ faulted' = TRUE
    /\ UNCHANGED <<rows, comments, used>>

\* The response is sent.
Respond(p) ==
    /\ pc[p] = "done"
    /\ End(p)
    /\ UNCHANGED <<rows, comments, used, faulted>>

-----------------------------------------------------------------------------
(* CreateMemo: the row first.                                               *)

InsertMemo(p) ==
    /\ pc[p] = "insert"
    /\ next' = next + 1
    /\ memos' = memos \cup {next}
    /\ memo' = [memo EXCEPT ![p] = next]
    /\ comments' = IF Op(p) = "comment" THEN comments \cup {next} ELSE comments
    /\ Goto(p, FirstStage(req[p]))
    /\ UNCHANGED <<rel, atts, files, notices, req, parent, left, cur, used, faulted, beyond>>

(* SetMemoAttachments.                                                      *)

FindMemo(p) ==
    /\ pc[p] = "find"
    /\ IF memo[p] \notin memos
       THEN Abort(p)
       ELSE /\ Goto(p, "list")
            /\ UNCHANGED <<rows, locals, ghosts>>

\* The attachments of the memo that are listed and not in the request are to
\* be deleted.
ListAttachments(p) ==
    /\ pc[p] = "list"
    /\ \E S \in Listed(memo[p]) :
         LET extra == S \ req[p].atts
         IN  /\ beyond' = [beyond EXCEPT ![p] = AttachmentsOf(memo[p]) \ S]
             /\ IF extra # {} THEN Loop(p, extra, "drop", "drop")
                ELSE Loop(p, req[p].atts, "attach", RelationStage(req[p]))
    /\ UNCHANGED <<rows, req, memo, parent, cur, comments, used, faulted>>

\* store.DeleteAttachment: it reads the row again and removes the file; it
\* fails if either is gone.  (Read and removal are one step: two deletions
\* that both read the row part when the second finds no file.)
DropFile(p) ==
    /\ pc[p] = "drop"
    /\ \E a \in left[p] :
           IF a \notin DOMAIN atts \/ FileOf[a] \notin files
           THEN Abort(p)
           ELSE /\ files' = files \ {FileOf[a]}
                /\ cur' = [cur EXCEPT ![p] = a]
                /\ Goto(p, "drop_row")
                /\ UNCHANGED <<next, memos, rel, atts, notices, req, memo, parent, left, ghosts>>

\* What follows the loop over the attachments to delete.
AfterDrop(p) ==
    IF left[p] # {cur[p]} THEN Loop(p, left[p] \ {cur[p]}, "drop", "drop")
    ELSE CASE Op(p) = "delete"  -> Loop(p, {}, "replies", "replies")
           [] Op(p) = "discard" -> Loop(p, {}, "done", "done")
           [] OTHER -> Loop(p, req[p].atts, "attach", RelationStage(req[p]))

\* Mutant: the row is deleted only if it still has the memo_id of the request.
DropRowOfMemo(p) ==
    /\ pc[p] = "drop_row"
    /\ atts' = Restrict(atts, {a \in DOMAIN atts :
                                  a # cur[p] \/ (Op(p) # "discard" /\ atts[a] # memo[p])})
    /\ cur' = [cur EXCEPT ![p] = 0]
    /\ AfterDrop(p)
    /\ UNCHANGED <<next, memos, rel, files, notices, req, memo, parent, ghosts>>

DropRow(p) ==
    /\ pc[p] = "drop_row"
    /\ atts' = Restrict(atts, DOMAIN atts \ {cur[p]})
    /\ cur' = [cur EXCEPT ![p] = 0]
    /\ AfterDrop(p)
    /\ UNCHANGED <<next, memos, rel, files, notices, req, memo, parent, ghosts>>

\* GetAttachment; its result is used without a check.
GetAttachment(p) ==
    /\ pc[p] = "attach"
    /\ \E a \in left[p] :
           IF a \notin DOMAIN atts
           THEN Abort(p)
           ELSE /\ cur' = [cur EXCEPT ![p] = a]
                /\ Goto(p, "attach_set")
                /\ UNCHANGED <<rows, req, memo, parent, left, ghosts>>

\* UPDATE resource SET memo_id: no row, no error.
UpdateAttachment(p) ==
    /\ pc[p] = "attach_set"
    /\ atts' = [a \in DOMAIN atts |-> IF a = cur[p] THEN memo[p] ELSE atts[a]]
    /\ cur' = [cur EXCEPT ![p] = 0]
    /\ Loop(p, left[p] \ {cur[p]}, "attach", RelationStage(req[p]))
    /\ UNCHANGED <<next, memos, rel, files, notices, req, memo, parent, ghosts>>

(* SetMemoRelations.                                                        *)

FindMemoAgain(p) ==
    /\ pc[p] = "find_again"
    /\ IF memo[p] \notin memos
       THEN Abort(p)
       ELSE /\ Goto(p, "unrelate")
            /\ UNCHANGED <<rows, locals, ghosts>>

\* Mutant: comment relations are not ignored.
ToRelateAny(r, m) == r.related \ {m}

\* Reflexive relations and comments are ignored.
ToRelate(r, m) == IF r.type = "COMMENT" THEN {} ELSE r.related \ {m}

\* Mutant: the old references stay.
UnrelateNothing(p) ==
    /\ pc[p] = "unrelate"
    /\ Loop(p, ToRelate(req[p], memo[p]), "relate", LastStage(req[p]))
    /\ UNCHANGED <<rows, req, memo, parent, cur, ghosts>>

\* All references of the memo are deleted first.
Unrelate(p) ==
    /\ pc[p] = "unrelate"
    /\ rel' = rel \ RelationsOf(memo[p], "REFERENCE")
    /\ Loop(p, ToRelate(req[p], memo[p]), "relate", LastStage(req[p]))
    /\ UNCHANGED <<next, memos, atts, files, notices, req, memo, parent, cur, ghosts>>

\* GetMemo of a related memo; its result is used without a check.
GetRelated(p) ==
    /\ pc[p] = "relate"
    /\ \E m \in left[p] :
           IF m \notin memos
           THEN Abort(p)
           ELSE /\ cur' = [cur EXCEPT ![p] = m]
                /\ Goto(p, "relate_insert")
                /\ UNCHANGED <<rows, req, memo, parent, left, ghosts>>

\* UpsertMemoRelation is an INSERT: a row that exists is an error.
InsertRelation(p) ==
    /\ pc[p] = "relate_insert"
    /\ LET r == [memo |-> memo[p], related |-> cur[p], type |-> req[p].type]
       IN  IF r \in rel
           THEN Abort(p)
           ELSE /\ rel' = rel \cup {r}
                /\ cur' = [cur EXCEPT ![p] = 0]
                /\ Loop(p, left[p] \ {cur[p]}, "relate", LastStage(req[p]))
                /\ UNCHANGED <<next, memos, atts, files, notices, req, memo, parent, ghosts>>

\* CreateMemo and UpdateMemo read the memo for the response, again unchecked.
ReadBack(p) ==
    /\ pc[p] = "read_back"
    /\ IF memo[p] \notin memos
       THEN Abort(p)
       ELSE /\ Goto(p, IF Op(p) = "comment" THEN "link" ELSE "done")
            /\ UNCHANGED <<rows, locals, ghosts>>

-----------------------------------------------------------------------------
(* CreateMemoComment, after its CreateMemo.                                 *)

\* The memo commented on may have been missing from the start.
LinkComment(p) ==
    /\ pc[p] = "link"
    /\ IF parent[p] = 0
       THEN Abort(p)
       ELSE /\ rel' = rel \cup {[memo |-> memo[p], related |-> parent[p], type |-> "COMMENT"]}
            /\ Goto(p, IF req[p].notify THEN "activity" ELSE "done")
            /\ UNCHANGED <<next, memos, atts, files, notices, locals, ghosts>>

Notify(p) ==
    /\ pc[p] \in {"activity", "inbox"}
    /\ notices' = [notices EXCEPT ![pc[p]] = @ \cup {memo[p]}]
    /\ Goto(p, IF pc[p] = "activity" THEN "inbox" ELSE "done")
    /\ UNCHANGED <<next, memos, rel, atts, files, locals, ghosts>>

(* DeleteMemo.                                                              *)

CollectAttachments(p) ==
    /\ pc[p] = "collect"
    /\ \E S \in Listed(memo[p]) :
           /\ left' = [left EXCEPT ![p] = S]
           /\ beyond' = [beyond EXCEPT ![p] = AttachmentsOf(memo[p]) \ S]
    /\ Goto(p, "delete_row")
    /\ UNCHANGED <<rows, req, memo, parent, cur, comments, used, faulted>>

DeleteRow(p) ==
    /\ pc[p] = "delete_row"
    /\ memos' = memos \ {memo[p]}
    /\ Goto(p, "unlink")
    /\ UNCHANGED <<next, rel, atts, files, notices, locals, ghosts>>

\* Its relations to other memos, of both types.
Unlink(p) ==
    /\ pc[p] = "unlink"
    /\ rel' = {r \in rel : r.memo # memo[p]}
    /\ Goto(p, IF left[p] = {} THEN "replies" ELSE "drop")
    /\ UNCHANGED <<next, memos, atts, files, notices, locals, ghosts>>

\* The comments on it, as their relations name them.
ListReplies(p) ==
    /\ pc[p] = "replies"
    /\ Loop(p, {r.memo : r \in RelationsTo(memo[p], "COMMENT")}, "delete_reply", "unref")
    /\ UNCHANGED <<rows, req, memo, parent, cur, ghosts>>

\* Only the row of a comment is deleted.
DeleteReply(p) ==
    /\ pc[p] = "delete_reply"
    /\ \E c \in left[p] :
           /\ memos' = memos \ {c}
           /\ Loop(p, left[p] \ {c}, "delete_reply", "unref")
    /\ UNCHANGED <<next, rel, atts, files, notices, req, memo, parent, cur, ghosts>>

\* Mutant: the references from the memo are deleted, and not those to it.
UnreferFrom(p) ==
    /\ pc[p] = "unref"
    /\ rel' = rel \ RelationsOf(memo[p], "REFERENCE")
    /\ Goto(p, "done")
    /\ UNCHANGED <<next, memos, atts, files, notices, locals, ghosts>>

Unrefer(p) ==
    /\ pc[p] = "unref"
    /\ rel' = rel \ RelationsTo(memo[p], "REFERENCE")
    /\ Goto(p, "done")
    /\ UNCHANGED <<next, memos, atts, files, notices, locals, ghosts>>

-----------------------------------------------------------------------------
(* CreateAttachment: the file, the memo, the row.                           *)

SaveFile(p) ==
    /\ pc[p] = "save"
    /\ files' = files \cup {FileOf[cur[p]]}
    /\ Goto(p, IF req[p].memo = 0 THEN "insert_att" ELSE "locate")
    /\ UNCHANGED <<next, memos, rel, atts, notices, locals, ghosts>>

LocateMemo(p) ==
    /\ pc[p] = "locate"
    /\ IF req[p].memo \notin memos
       THEN Abort(p)
       ELSE /\ Goto(p, "insert_att")
            /\ UNCHANGED <<rows, locals, ghosts>>

InsertAttachment(p) ==
    /\ pc[p] = "insert_att"
    /\ atts' = [a \in DOMAIN atts \cup {cur[p]} |->
                   IF a = cur[p] THEN req[p].memo ELSE atts[a]]
    /\ Goto(p, "done")
    /\ UNCHANGED <<next, memos, rel, files, notices, locals, ghosts>>

-----------------------------------------------------------------------------
Arrive(p) ==
    \/ CreateMemo(p) \/ CreateMemoComment(p) \/ Edit(p) \/ DeleteMemo(p)
    \/ CreateAttachment(p) \/ DeleteAttachment(p)

Continue(p) ==
    \/ InsertMemo(p)
    \/ FindMemo(p) \/ ListAttachments(p) \/ DropFile(p) \/ DropRow(p)
    \/ GetAttachment(p) \/ UpdateAttachment(p)
    \/ FindMemoAgain(p) \/ Unrelate(p) \/ GetRelated(p) \/ InsertRelation(p)
    \/ ReadBack(p) \/ LinkComment(p) \/ Notify(p)
    \/ CollectAttachments(p) \/ DeleteRow(p) \/ Unlink(p)
    \/ ListReplies(p) \/ DeleteReply(p) \/ Unrefer(p)
    \/ SaveFile(p) \/ LocateMemo(p) \/ InsertAttachment(p)

Next == \E p \in Procs : Arrive(p) \/ Continue(p) \/ Fail(p) \/ Respond(p)

Spec == Init /\ [][Next]_vars

-----------------------------------------------------------------------------
(* Properties.                                                              *)

\* Comments form a forest: a memo is a comment on one memo at most (ListMemos
\* joins memo_relation and would list it twice), and on one that is older, so
\* that following parents comes to an end; and no edit makes a comment of a memo
\* that was not created as one (ListMemos hides comments).  A comment that was
\* announced, in the inbox or by an activity, is linked to the memo it is about
\* for as long as it exists.
CommentForest ==
    /\ \A r, s \in rel :
         /\ r.type = "COMMENT" => r.related < r.memo /\ r.memo \in comments
         /\ r.type = "COMMENT" /\ s.type = "COMMENT" /\ r.memo = s.memo => r = s
    /\ notices["inbox"] \subseteq notices["activity"]
    /\ \A c \in notices["activity"] \cap memos : RelationsOf(c, "COMMENT") # {}

\* The handler of p is about to answer that it did what was asked.
Done(p, ops) == pc[p] = "done" /\ Op(p) \in ops

\* While requests are served one at a time: a memo reported deleted leaves
\* nothing behind, no relation of its own, no reference to it, no comment on it
\* and no attachment, whatever failed before.  (The attachments beyond the limit
\* of the listing stay, exactly those: a memo with at most Limit has none.)
DeletedWhole ==
    \A p \in Procs :
        Done(p, {"delete"}) =>
            /\ memo[p] \notin memos
            /\ AttachmentsOf(memo[p]) = beyond[p]
            /\ \A r \in rel : r.memo # memo[p]
            /\ RelationsTo(memo[p], "REFERENCE") = {}
            /\ \A r \in RelationsTo(memo[p], "COMMENT") : r.memo \notin memos

\* While requests are served one at a time: a memo reported created or edited
\* has exactly the attachments and references that the request names, and of
\* its old attachments those beyond the limit of the listing.
SetAsAsked ==
    \A p \in Procs :
        Done(p, {"create", "comment", "update", "set"}) =>
            /\ WantsAttachments(req[p]) =>
                   AttachmentsOf(memo[p]) = req[p].atts \cup beyond[p]
            /\ WantsRelations(req[p]) =>
                   {r.related : r \in RelationsOf(memo[p], "REFERENCE")}
                       = ToRelate(req[p], memo[p])

\* An attachment whose row is there can be read and deleted: as long as no
\* call of the store has failed its file is there, or a handler that removed
\* the file is about to delete the row, however the handlers interleave.
\* (Where no two attachments share a path.)
RowHasFile ==
    ~faulted =>
        \A a \in DOMAIN atts :
            FileOf[a] \in files \/ \E p \in Procs : pc[p] = "drop_row" /\ cur[p] = a
=============================================================================
