----------------------------- MODULE MemoQueries -----------------------------
(* One memo in the React Query cache of the web client: the copy of its own    *)
(* page (memoKeys.detail) and the copy in the page that lists it, which is the *)
(* list of memos (memoKeys.lists) or, for a comment, the list of its parent's  *)
(* comments (memoKeys.comments); the optimistic updates of the memo menu, the  *)
(* task boxes and the keyboard, reactions, deletion, and a save of the editor. *)
(* Requests run concurrently and the server serves them in any order.          *)
EXTENDS Naturals, FiniteSets

CONSTANTS Tasks,      \* task list items of the memo
          None,       \* no memo, no data
          Absent,     \* the memo is not in the list
          Failed,     \* no answer, or an error
          Gone,       \* NotFound
          Slots,      \* writes under way at a time
          MaxEvents   \* writes of the user and of other clients, requests and answers lost

Contents == [Tasks -> {"open", "done", "gone"}]
Memo     == [pinned : BOOLEAN, archived : BOOLEAN, content : Contents, reacted : BOOLEAN]

ASSUME MemoQueriesAssumption ==
    /\ MaxEvents \in Nat
    /\ {None, Absent, Failed, Gone} \cap Memo = {}
    /\ None \notin {Absent, Failed, Gone} /\ Absent \notin {Failed, Gone} /\ Failed # Gone

VARIABLES kind,       \* "memo" or "comment"
          srv,        \* the memo on the server
          entry,      \* the two cache entries
          page,       \* the page on display
          write,      \* the writes under way
          nevent,
          apart,      \* the copies that something outside the hooks' reach may have left behind
          blind       \* a foreign write or a lost answer: nothing tells the client

vars == <<kind, srv, entry, page, write, nevent, apart, blind>>

Copies   == {"card", "detail"}
Fields   == {"pinned", "archived", "content", "none"}
Kinds    == {"update", "delete", "react", "save"}
NoWrite  == [pc |-> "idle", op |-> "update", field |-> "none", value |-> None, prev |-> None,
             retried |-> FALSE, leave |-> "stay", ans |-> None]
Results  == Memo \cup {None, Failed, Gone}
Home     == IF kind = "memo" THEN "card" ELSE "other"

TypeOK ==
    /\ kind \in {"memo", "comment"}
    /\ srv \in Memo \cup {None}
    /\ \A q \in Copies : /\ entry[q].data \in Memo \cup {None, Absent}
                         /\ entry[q].stale \in BOOLEAN
                         /\ entry[q].fetch \in {"idle", "sent", "served"}
                         /\ entry[q].ans \in Results \cup {Absent}
    /\ page \in Copies \cup {"other"}
    /\ \A s \in Slots : /\ write[s].pc \in {"idle", "sent", "served", "get", "got"}
                        /\ write[s].op \in Kinds /\ write[s].field \in Fields
                        /\ write[s].prev \in Memo \cup {None}
                        /\ write[s].leave \in {"stay", "other"} \cup Copies
                        /\ write[s].ans \in Results
    /\ nevent \in 0..MaxEvents
    /\ apart \subseteq Copies \cup {"page"} /\ blind \in BOOLEAN

(* ---- the query cache ---- *)
Active(q)   == page = q
Fetching(q) == entry[q].fetch # "idle"
Writing     == \E s \in Slots : write[s].pc # "idle"
AtRest      == ~Writing /\ \A q \in Copies : ~Fetching(q)

Fetch(e)       == [e EXCEPT !.fetch = "sent", !.ans = None]
SetData(e, v)  == [e EXCEPT !.data = v, !.stale = FALSE]
Removed        == [data |-> None, stale |-> FALSE, fetch |-> "idle", ans |-> None]
Settled(e)     == [e EXCEPT !.fetch = "idle", !.ans = None]
\* cancelQueries: the fetch under way is given up.
\* Mutant: it is left running.
CancelNothing(e) == e
Cancel(e)        == Settled(e)

\* invalidateQueries: a mounted query is fetched again, in place of a fetch under way unless it
\* is the first one.
Invalidate(q) ==
    LET e == [entry[q] EXCEPT !.stale = TRUE] IN
    IF Active(q) /\ (e.fetch = "idle" \/ e.data # None) THEN Fetch(e) ELSE e

\* The invalidation leaves an older fetch of q running.
Overtaken(q) == Fetching(q) /\ ~(Active(q) /\ entry[q].data # None)

\* A query mounted without data or with stale data is fetched.
Mounted(q) ==
    IF (entry[q].data = None \/ entry[q].stale) /\ ~Fetching(q) THEN Fetch(entry[q]) ELSE entry[q]

\* A fetch of the memo's page that begins while a write is under way may bring back the value
\* before it.
Late(q) == IF q = "detail" /\ Writing THEN {q} ELSE {}

\* The answer to a fetch: the list of memos leaves archived ones out.
View(q) ==
    IF srv = None THEN IF q = "card" THEN Absent ELSE Gone
    ELSE IF q = "card" /\ kind = "memo" /\ srv.archived THEN Absent ELSE srv

ServeFetch(q) ==
    /\ entry[q].fetch = "sent"
    /\ entry' = [entry EXCEPT ![q].fetch = "served", ![q].ans = View(q)]
    /\ UNCHANGED <<kind, srv, page, write, nevent, apart, blind>>

LoseFetch(q) ==
    /\ Fetching(q) /\ nevent < MaxEvents /\ entry[q].ans # Failed
    /\ nevent' = nevent + 1
    /\ entry' = [entry EXCEPT ![q].fetch = "served", ![q].ans = Failed]
    /\ UNCHANGED <<kind, srv, page, write, apart, blind>>

Fetched(q) ==
    /\ entry[q].fetch = "served" /\ entry[q].ans \in Memo \cup {Absent}
    /\ entry' = [entry EXCEPT ![q] = SetData(Settled(entry[q]), entry[q].ans)]
    /\ UNCHANGED <<kind, srv, page, write, nevent, apart, blind>>

\* A failed fetch keeps the data; the memo's page leaves for /403.
FetchFailed(q) ==
    /\ entry[q].fetch = "served" /\ entry[q].ans \in {Failed, Gone}
    /\ entry' = [entry EXCEPT ![q] = [Settled(@) EXCEPT !.stale = TRUE]]
    /\ page' = IF q = "detail" /\ page = "detail" THEN "other" ELSE page
    /\ UNCHANGED <<kind, srv, write, nevent, apart, blind>>

\* staleTime, a minute, passes: longer than requests take.
\* Mutant: data never becomes stale.
AgeNever(q) == FALSE /\ UNCHANGED vars
Age(q) ==
    /\ AtRest /\ entry[q].data # None /\ ~entry[q].stale
    /\ entry' = [entry EXCEPT ![q].stale = TRUE]
    /\ UNCHANGED <<kind, srv, page, write, nevent, apart, blind>>

\* refetchOnWindowFocus: the user returns to the tab.
Focus(q) ==
    /\ Active(q) /\ entry[q].stale /\ ~Fetching(q)
    /\ entry' = [entry EXCEPT ![q] = Fetch(@)]
    /\ apart' = apart \cup Late(q)
    /\ UNCHANGED <<kind, srv, page, write, nevent, blind>>

\* The user goes to the page of the memo, or to the page that lists it.
Open(q) ==
    /\ page # q /\ (q = "detail" => entry["card"].data \in Memo \/ page = "other")
    /\ page' = q
    /\ entry' = [entry EXCEPT ![q] = Mounted(q)]
    /\ apart' = (apart \ {"page"}) \cup (IF entry'[q] = entry[q] THEN {} ELSE Late(q))
    /\ UNCHANGED <<kind, srv, write, nevent, blind>>

(* ---- useUpdateMemo and its callers ---- *)
Shown == IF page = "other" THEN None ELSE entry[page].data
Menu  == Shown \in Memo /\ nevent < MaxEvents /\ \E s \in Slots : write[s].pc = "idle"

\* mutationFn is called in slot s; the second write at a time may be answered out of order.
Start(s, w) ==
    /\ s = CHOOSE i \in Slots : write[i].pc = "idle"
    /\ write' = [write EXCEPT ![s] = [w EXCEPT !.pc = "sent"]]
    /\ nevent' = nevent + 1
    /\ apart' = apart \cup (IF Writing THEN {"detail"} ELSE {})

\* onMutate: the fetches of the memo's page are cancelled, its data is kept for a rollback and
\* shows the update before the server has it.
Mutate(s, field, value, leave) ==
    LET old == entry["detail"].data IN
    /\ Start(s, [NoWrite EXCEPT !.field = field, !.value = value, !.prev = old, !.leave = leave])
    /\ entry' = [entry EXCEPT !["detail"] =
                   IF old = None THEN Cancel(@) ELSE SetData(Cancel(@), [old EXCEPT ![field] = value])]
    /\ UNCHANGED <<kind, srv, page, blind>>

\* handleTogglePinMemoBtnClick; comments and archived memos have no such item.
TogglePin(s) ==
    /\ Menu /\ kind = "memo" /\ ~Shown.archived
    /\ Mutate(s, "pinned", ~Shown.pinned, "stay")

\* unpinMemo, the bookmark of a pinned memo.
Unpin(s) ==
    /\ Menu /\ Shown.pinned
    /\ Mutate(s, "pinned", FALSE, "stay")

\* handleToggleMemoStatusClick: from the memo's page the user is then taken elsewhere.
ToggleStatus(s) ==
    /\ Menu /\ kind = "memo"
    /\ Mutate(s, "archived", ~Shown.archived,
              IF page # "detail" THEN "stay" ELSE IF Shown.archived THEN "card" ELSE "other")

\* archiveMemo: the key "a" on a card that is not archived, a comment's too.
Archive(s) ==
    /\ Menu /\ ~Shown.archived
    /\ Mutate(s, "archived", TRUE, "stay")

\* TaskListItem.handleChange: the whole content is written, computed from the one on display.
Toggled(c, t) == [c EXCEPT ![t] = IF @ = "done" THEN "open" ELSE "done"]

ToggleTask(s, t) ==
    /\ Menu /\ Shown.content[t] # "gone"
    /\ Mutate(s, "content", Toggled(Shown.content, t), "stay")

\* confirmRemoveCompletedTaskListItems
RemoveCompleted(s) ==
    /\ Menu /\ kind = "memo" /\ ~Shown.archived /\ \E t \in Tasks : Shown.content[t] = "done"
    /\ Mutate(s, "content",
              [t \in Tasks |-> IF Shown.content[t] = "done" THEN "gone" ELSE Shown.content[t]], "stay")

\* The editor opened on the card, saving one task changed: no optimistic update.
EditorSave(s, t) ==
    /\ Menu /\ ~Shown.archived /\ Shown.content[t] # "gone"
    /\ Start(s, [NoWrite EXCEPT !.op = "save", !.field = "content", !.value = Toggled(Shown.content, t)])
    /\ UNCHANGED <<kind, srv, entry, page, blind>>

\* confirmDeleteMemo
Delete(s) ==
    /\ Menu
    /\ Start(s, [NoWrite EXCEPT !.op = "delete", !.leave = IF page = "detail" THEN Home ELSE "stay"])
    /\ UNCHANGED <<kind, srv, entry, page, blind>>

\* handleReactionClick: the reaction is put or taken back as the page shows it.
React(s) ==
    /\ Menu /\ ~Shown.archived
    /\ Start(s, [NoWrite EXCEPT !.op = "react", !.value = ~Shown.reacted])
    /\ UNCHANGED <<kind, srv, entry, page, blind>>

(* ---- the server ---- *)
Written(w) == IF w.op = "react" THEN [srv EXCEPT !.reacted = w.value]
              ELSE [srv EXCEPT ![w.field] = w.value]

ServeWrite(s) ==
    LET w == write[s] IN
    /\ w.pc = "sent"
    /\ IF srv = None
       THEN /\ write' = [write EXCEPT ![s].pc = "served", ![s].ans = Gone]
            /\ UNCHANGED srv
       ELSE /\ srv' = IF w.op = "delete" THEN None ELSE Written(w)
            /\ write' = [write EXCEPT ![s].pc = "served", ![s].ans = srv']
    /\ UNCHANGED <<kind, entry, page, nevent, apart, blind>>

\* The request, or the answer to a write that was served, is lost; the retry may be lost as well.
LoseWrite(s, again) ==
    LET w == write[s] IN
    /\ w.pc \in {"sent", "served", "get", "got"} /\ w.ans # Failed /\ nevent < MaxEvents
    /\ nevent' = nevent + 1
    /\ write' = [write EXCEPT ![s].pc = IF w.pc \in {"get", "got"} THEN "got" ELSE "served",
                              ![s].ans = Failed, ![s].retried = @ \/ again]
    /\ blind' = (blind \/ w.pc # "sent")
    /\ UNCHANGED <<kind, srv, entry, page, apart>>

\* Another client changes the memo.
OtherWrite(t) ==
    /\ nevent < MaxEvents /\ srv # None
    /\ nevent' = nevent + 1
    /\ srv' = [srv EXCEPT !.content = Toggled(@, t)]
    /\ blind' = TRUE
    /\ UNCHANGED <<kind, entry, page, write, apart>>

(* ---- the answers ---- *)
Refused(s) == write[s].ans \in {Failed, Gone}

\* The handler navigates once the mutation is done, wherever the user is by then.
Leave(w) == IF w.leave = "stay" THEN page ELSE w.leave

\* retry: 1 repeats a failed mutation once, whatever the error.
Retry(s) ==
    /\ write[s].pc = "served" /\ write[s].op \in {"update", "delete"}
    /\ Refused(s) /\ ~write[s].retried
    /\ write' = [write EXCEPT ![s].pc = "sent", ![s].ans = None, ![s].retried = TRUE]
    /\ UNCHANGED <<kind, srv, entry, page, nevent, apart, blind>>

Done(s) == write' = [write EXCEPT ![s] = NoWrite]

\* The queries of memoKeys.lists are invalidated; those of memoKeys.comments are not.
\* Mutant: no query is.
CardKept       == entry["card"]
InvalidateCard == IF kind = "memo" THEN Invalidate("card") ELSE entry["card"]

\* The list after a write that takes the user to page to: invalidated, then mounted, which joins
\* a fetch under way.
CardAfter(to) ==
    IF to = "card" /\ page # "card" /\ ~Fetching("card") THEN Fetch(InvalidateCard) ELSE InvalidateCard
CardOvertaken  == IF Overtaken("card") THEN {"card"} ELSE {}

\* onError puts back what the page showed before the update.
Rollback(e, prev) == IF prev = None THEN e ELSE SetData(e, prev)

UpdateFailed(s) ==
    /\ write[s].pc = "served" /\ write[s].op = "update" /\ Refused(s) /\ write[s].retried
    /\ entry' = [entry EXCEPT !["detail"] = Rollback(@, write[s].prev)]
    /\ Done(s)
    /\ UNCHANGED <<kind, srv, page, nevent, apart, blind>>

\* onSuccess: the answer becomes the data of the memo's page; then the caller navigates.
Updated(s) ==
    LET w == write[s] IN
    /\ w.pc = "served" /\ w.op = "update" /\ w.ans \in Memo
    /\ page' = Leave(w)
    /\ entry' = [q \in Copies |-> IF q = "detail" THEN SetData(entry[q], w.ans) ELSE CardAfter(page')]
    /\ apart' = apart \cup CardOvertaken
    /\ Done(s)
    /\ UNCHANGED <<kind, srv, nevent, blind>>

\* removeQueries.
Forget(e) == Removed

\* useDeleteMemo's onSuccess; the memo's page is left before its query would be fetched again.  A
\* page opened after the deletion was asked for stays, and nothing fetches the removed query for it.
Deleted(s) ==
    LET w == write[s] IN
    /\ w.pc = "served" /\ w.op = "delete" /\ w.ans = None
    /\ page' = Leave(w)
    /\ entry' = [q \in Copies |-> IF q = "detail" THEN Forget(entry[q]) ELSE CardAfter(page')]
    /\ apart' = apart \cup CardOvertaken \cup (IF page' = "detail" THEN {"page"} ELSE {})
    /\ Done(s)
    /\ UNCHANGED <<kind, srv, nevent, blind>>

\* The error of a deletion, a reaction or a save changes nothing on display.
WriteFailed(s) ==
    /\ write[s].pc \in {"served", "got"} /\ write[s].op # "update" /\ Refused(s)
    /\ write[s].op = "delete" => write[s].retried
    /\ Done(s)
    /\ UNCHANGED <<kind, srv, entry, page, nevent, apart, blind>>

\* After a reaction the memo is read again, and that answer becomes the data of its page.
ReactionPut(s) ==
    /\ write[s].pc = "served" /\ write[s].op = "react" /\ write[s].ans \in Memo
    /\ write' = [write EXCEPT ![s].pc = "get", ![s].ans = None]
    /\ UNCHANGED <<kind, srv, entry, page, nevent, apart, blind>>

ServeGet(s) ==
    /\ write[s].pc = "get"
    /\ write' = [write EXCEPT ![s].pc = "got", ![s].ans = IF srv = None THEN Gone ELSE srv]
    /\ UNCHANGED <<kind, srv, entry, page, nevent, apart, blind>>

Reacted(s) ==
    /\ write[s].pc = "got" /\ write[s].ans \in Memo
    /\ entry' = [q \in Copies |-> IF q = "detail" THEN SetData(entry[q], write[s].ans) ELSE InvalidateCard]
    /\ apart' = apart \cup CardOvertaken \cup (IF Fetching("detail") THEN {"detail"} ELSE {})
    /\ Done(s)
    /\ UNCHANGED <<kind, srv, page, nevent, blind>>

\* The editor's save invalidates the lists and leaves the copy of the memo's page alone.
Saved(s) ==
    /\ write[s].pc = "served" /\ write[s].op = "save" /\ write[s].ans \in Memo
    /\ entry' = [entry EXCEPT !["card"] = InvalidateCard]
    /\ apart' = apart \cup CardOvertaken \cup {"detail"}
    /\ Done(s)
    /\ UNCHANGED <<kind, srv, page, nevent, blind>>

Init ==
    /\ kind \in {"memo", "comment"}
    /\ srv = [pinned |-> kind = "memo", archived |-> FALSE, content |-> [t \in Tasks |-> "open"], reacted |-> FALSE]
    /\ page = "card"
    /\ entry = [q \in Copies |-> IF q = "card" THEN Fetch(Removed) ELSE Removed]
    /\ write = [s \in Slots |-> NoWrite]
    /\ nevent = 0 /\ apart = {} /\ blind = FALSE

\* What the server and the client do by themselves, and the return of the user to the tab.
Progress ==
    \/ \E q \in Copies : ServeFetch(q) \/ Fetched(q) \/ FetchFailed(q)
    \/ \E s \in Slots : \/ ServeWrite(s) \/ Retry(s) \/ UpdateFailed(s) \/ Updated(s) \/ Deleted(s)
                        \/ WriteFailed(s) \/ ReactionPut(s) \/ ServeGet(s) \/ Reacted(s) \/ Saved(s)

Choices ==
    \/ \E q \in Copies : Open(q) \/ LoseFetch(q)
    \/ \E s \in Slots : \/ TogglePin(s) \/ Unpin(s) \/ ToggleStatus(s) \/ Archive(s) \/ Delete(s)
                        \/ RemoveCompleted(s) \/ React(s) \/ \E again \in BOOLEAN : LoseWrite(s, again)
                        \/ \E t \in Tasks : ToggleTask(s, t) \/ EditorSave(s, t)
    \/ \E t \in Tasks : OtherWrite(t)

Next ==
    \/ Progress
    \/ \E q \in Copies : Age(q) \/ Focus(q)
    \/ Choices

Spec == Init /\ [][Next]_vars
FairSpec ==
    /\ Spec /\ WF_vars(Progress)
    /\ \A q \in Copies : WF_vars(Age(q)) /\ WF_vars(Focus(q))

(* ---- properties ---- *)
\* useUpdateMemo, "Cancel outgoing refetches to prevent race conditions": with one write at a time,
\* every answer received and no fetch of the memo's page begun while a write was under way, the
\* memo's page shows what the server has once nothing is in flight: a fetch begun before the
\* update cannot bring the old value back, a refused update is rolled back, and nothing a deleted
\* memo left in flight shows it again.
DetailTrue ==
    (AtRest /\ ~blind /\ "detail" \notin apart) => entry["detail"].data \in {None, srv}

\* "Invalidate lists to refresh": whatever updates, reactions, deletions and editor saves
\* overlap, a list marked fresh shows the memo as the server has it once nothing is in flight,
\* unless the invalidation met the list's first fetch, or a fetch of a list no longer on display.
CardTrue ==
    (AtRest /\ kind = "memo" /\ ~blind /\ "card" \notin apart /\ ~entry["card"].stale)
        => entry["card"].data \in {None, View("card")}

\* query-client.ts: stale data is fetched again when the user returns to the tab, so whatever
\* raced, overlapped or was lost, a page that stays on display ends up with what the server has
\* (but for the page of a memo deleted from under it).
Converges ==
    \A q \in Copies : <>[](page = q) => <>[]("page" \in apart \/ entry[q].data = View(q))
=============================================================================
