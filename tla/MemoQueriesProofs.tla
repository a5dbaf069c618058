-------------------------- MODULE MemoQueriesProofs --------------------------
(* Proofs about MemoQueries: the copies of a memo in the query cache show what  *)
(* the server has once nothing is in flight (DetailTrue, CardTrue), with the    *)
(* exceptions these properties name.                                            *)
EXTENDS MemoQueries, TLAPS

(* ---- the inductive invariants ---- *)
Entries == [data : Memo \cup {None, Absent}, stale : BOOLEAN, fetch : {"idle", "sent", "served"},
            ans : Results \cup {Absent}]
Writes  == [pc : {"idle", "sent", "served", "get", "got"}, op : Kinds, field : Fields,
            value : Contents \cup BOOLEAN \cup {None}, prev : Memo \cup {None}, retried : BOOLEAN,
            leave : {"stay", "other"} \cup Copies, ans : Results]

\* What a write asks for makes a memo of a memo; only reactions read it again.
Fits(w) ==
    /\ w.pc # "idle" /\ w.op \in {"update", "save"} =>
           \A m \in Memo : [m EXCEPT ![w.field] = w.value] \in Memo
    /\ w.pc # "idle" /\ w.op = "react" => w.value \in BOOLEAN
    /\ w.pc \in {"get", "got"} => w.op = "react"

TypeInv ==
    /\ kind \in {"memo", "comment"} /\ srv \in Memo \cup {None}
    /\ entry \in [Copies -> Entries] /\ page \in Copies \cup {"other"}
    /\ entry["detail"].data # Absent /\ entry["detail"].ans # Absent
    /\ write \in [Slots -> Writes] /\ \A s \in Slots : Fits(write[s])
    /\ apart \subseteq Copies \cup {"page"} /\ blind \in BOOLEAN

\* A write that found no memo will find none again, and an answer lost while a reaction is read
\* again is remembered.
AnswerInv ==
    \A s \in Slots : /\ write[s].ans = Gone => srv = None
                     /\ write[s].pc \in {"get", "got"} /\ write[s].ans = Failed => blind

\* A copy whose data, or the answer under way to it, is what the server has.
InStep(q) == entry[q].fetch = "served" /\ entry[q].ans \in Memo \cup {Absent} => entry[q].ans = View(q)
Shows(q)  == entry[q].data \in {None, View(q)}
DetailInStep == entry["detail"].data \in {None, srv} /\ InStep("detail")

\* The memo's page, while there is one write: an update has no fetch beside it and can be
\* rolled back until the server has it; any other write leaves the copy as it was until then.
Unserved(w) == w.pc = "sent" \/ (w.pc = "served" /\ w.ans \in {Failed, Gone})

DetailWrite(w) ==
    /\ w.pc # "idle" /\ w.op = "update" =>
           /\ ~Fetching("detail")
           /\ Unserved(w) => w.prev \in {None, srv} /\ (w.prev = None => entry["detail"].data = None)
    /\ w.op # "update" /\ Unserved(w) => DetailInStep
    /\ w.op \in {"update", "react"} /\ w.pc = "served" /\ w.ans \in Memo => w.ans = srv
    /\ w.pc = "get" => srv \in Memo
    /\ w.pc = "got" => w.ans = srv /\ srv \in Memo

DetailInv ==
    ~blind /\ "detail" \notin apart =>
        /\ \A s, t \in Slots : write[s].pc # "idle" /\ write[t].pc # "idle" => s = t
        /\ ~Writing => DetailInStep
        /\ \A s \in Slots : DetailWrite(write[s])

\* A write the server has, and whose answer will invalidate the lists.
Announced(w) ==
    IF w.op = "delete" THEN w.pc = "served" /\ w.ans = None
    ELSE srv # None /\ (w.pc \in {"get", "got"} \/ (w.pc = "served" /\ w.ans \in Memo))
Pending == \E s \in Slots : Announced(write[s])

CardInv ==
    kind = "memo" /\ ~blind /\ "card" \notin apart /\ ~Pending =>
        InStep("card") /\ (entry["card"].stale \/ Shows("card"))

QueryInv == TypeInv /\ AnswerInv /\ DetailInv /\ CardInv

(* ---- what the operators of the cache and of the writes return ---- *)
USE MemoQueriesAssumption

LEMMA Specials == /\ None \notin Memo /\ Absent \notin Memo /\ Failed \notin Memo /\ Gone \notin Memo
                  /\ None # Absent /\ None # Failed /\ None # Gone /\ Absent # Failed /\ Absent # Gone
                  /\ Failed # Gone
    OBVIOUS

LEMMA EntryFields ==
    ASSUME NEW e \in Entries
    PROVE  /\ Fetch(e) \in Entries /\ Fetch(e).data = e.data /\ Fetch(e).stale = e.stale
           /\ Fetch(e).fetch = "sent" /\ Fetch(e).ans = None
           /\ Settled(e) \in Entries /\ Settled(e).data = e.data /\ Settled(e).stale = e.stale
           /\ Settled(e).fetch = "idle" /\ Settled(e).ans = None
           /\ [e EXCEPT !.stale = TRUE] \in Entries /\ [e EXCEPT !.stale = TRUE].data = e.data
           /\ [e EXCEPT !.stale = TRUE].stale = TRUE
           /\ [e EXCEPT !.stale = TRUE].fetch = e.fetch /\ [e EXCEPT !.stale = TRUE].ans = e.ans
    BY DEF Entries, Fetch, Settled, Results

LEMMA SetFields ==
    ASSUME NEW e \in Entries, NEW v \in Memo \cup {None, Absent}
    PROVE  /\ SetData(e, v) \in Entries /\ SetData(e, v).data = v /\ SetData(e, v).stale = FALSE
           /\ SetData(e, v).fetch = e.fetch /\ SetData(e, v).ans = e.ans
    BY DEF Entries, SetData

LEMMA RemovedFields ==
    /\ Removed \in Entries /\ Removed.data = None /\ Removed.stale = FALSE
    /\ Removed.fetch = "idle" /\ Removed.ans = None
    BY DEF Removed, Entries, Results

LEMMA IdleFields == /\ NoWrite \in Writes /\ NoWrite.pc = "idle" /\ NoWrite.ans = None
                    /\ NoWrite.op = "update"
    BY DEF NoWrite, Writes, Kinds, Fields, Results

(* ---- what begins a write ---- *)
\* A write w begins in slot s; it is the second one under way, or not.
Begins(s, w) ==
    /\ s \in Slots /\ write[s].pc = "idle" /\ write' = [write EXCEPT ![s] = w]
    /\ w \in Writes /\ w.pc = "sent" /\ w.ans = None /\ Fits(w)
    /\ apart' = apart \cup (IF Writing THEN {"detail"} ELSE {})
    /\ UNCHANGED <<kind, srv, page, blind>>

\* An update, with its optimistic copy.
Mutates(s, w) ==
    /\ Begins(s, w) /\ w.op = "update" /\ w.prev = entry["detail"].data
    /\ entry' \in [Copies -> Entries] /\ entry'["card"] = entry["card"]
    /\ entry'["detail"].fetch = "idle" /\ entry'["detail"].ans = None
    /\ IF w.prev = None THEN entry'["detail"].data = None ELSE entry'["detail"].data \in Memo

UserWrite == \E s, w : Mutates(s, w) \/ (Begins(s, w) /\ w.op # "update" /\ entry' = entry)

LEMMA IdleSlot == ASSUME Menu, NEW s, s = CHOOSE i \in Slots : write[i].pc = "idle"
                  PROVE  s \in Slots /\ write[s].pc = "idle" /\ Shown \in Memo
    BY DEF Menu

LEMMA MutateWrites ==
    ASSUME TypeInv, NEW s, NEW field \in {"pinned", "archived", "content"}, NEW value \in Contents \cup BOOLEAN,
           NEW leave \in {"stay", "other"} \cup Copies, Menu, Mutate(s, field, value, leave),
           \A m \in Memo : [m EXCEPT ![field] = value] \in Memo
    PROVE  UserWrite
    <1> DEFINE old == entry["detail"].data
               v == [NoWrite EXCEPT !.field = field, !.value = value, !.prev = old, !.leave = leave]
               w == [v EXCEPT !.pc = "sent"]
    <1>1. old \in Memo \cup {None} /\ entry["detail"] \in Entries /\ entry["card"] \in Entries
        BY DEF TypeInv, Entries, Copies
    <1>2. /\ w \in Writes /\ w.pc = "sent" /\ w.ans = None /\ w.op = "update" /\ w.prev = old
          /\ w.field = field /\ w.value = value
        BY <1>1 DEF NoWrite, Writes, Kinds, Fields, Results
    <1>3. Start(s, v) /\ UNCHANGED <<kind, srv, page, blind>>
        BY DEF Mutate
    <1>4. entry' = [entry EXCEPT !["detail"] =
              IF old = None THEN Cancel(entry["detail"])
              ELSE SetData(Cancel(entry["detail"]), [old EXCEPT ![field] = value])]
        BY DEF Mutate
    <1> HIDE DEF old, v
    <1>5. s \in Slots /\ write[s].pc = "idle"
        BY <1>3, IdleSlot DEF Start
    <1>6. write' = [write EXCEPT ![s] = w]
        BY <1>3 DEF Start
    <1> HIDE DEF w
    <1>7. Fits(w)
        BY <1>2 DEF Fits
    <1>8. Begins(s, w)
        BY <1>2, <1>3, <1>5, <1>6, <1>7 DEF Begins, Start
    <1>9. CASE old = None
        <2>1. entry' = [entry EXCEPT !["detail"] = Settled(entry["detail"])]
            BY <1>4, <1>9 DEF Cancel
        <2>2. entry' \in [Copies -> Entries] /\ entry'["card"] = entry["card"] /\ entry'["detail"] = Settled(entry["detail"])
            BY <2>1, <1>1, EntryFields DEF TypeInv, Copies
        <2> DEFINE e == Settled(entry["detail"])
        <2>a. e.fetch = "idle" /\ e.ans = None /\ e.data = old
            BY <1>1, EntryFields DEF old
        <2>b. entry'["detail"] = e
            BY <2>2
        <2> HIDE DEF e
        <2>3. entry'["detail"].fetch = "idle" /\ entry'["detail"].ans = None /\ entry'["detail"].data = old
            BY <2>a, <2>b
        <2>4. Mutates(s, w)
            BY <1>2, <1>8, <1>9, <2>2, <2>3 DEF Mutates, old
        <2> QED BY <2>4 DEF UserWrite
    <1>10. CASE old # None
        <2> DEFINE m == [old EXCEPT ![field] = value]
                   e == Settled(entry["detail"])
        <2>1. m \in Memo
            BY <1>1, <1>10
        <2> HIDE DEF m
        <2>2. e \in Entries /\ e.fetch = "idle" /\ e.ans = None
            BY <1>1, EntryFields
        <2>3. entry' = [entry EXCEPT !["detail"] = SetData(e, m)]
            BY <1>4, <1>10 DEF Cancel, m
        <2> HIDE DEF e
        <2>4. entry' \in [Copies -> Entries] /\ entry'["card"] = entry["card"] /\ entry'["detail"] = SetData(e, m)
            BY <2>1, <2>2, <2>3, SetFields DEF TypeInv, Copies
        <2> DEFINE d == SetData(e, m)
        <2>a. d.fetch = "idle" /\ d.ans = None /\ d.data = m
            BY <2>1, <2>2, SetFields
        <2>b. entry'["detail"] = d
            BY <2>4
        <2> HIDE DEF d
        <2>5. entry'["detail"].fetch = "idle" /\ entry'["detail"].ans = None /\ entry'["detail"].data = m
            BY <2>a, <2>b
        <2>6. Mutates(s, w)
            BY <1>2, <1>8, <1>10, <2>1, <2>4, <2>5 DEF Mutates, old
        <2> QED BY <2>6 DEF UserWrite
    <1> QED BY <1>9, <1>10

\* An update keeps the shape of a memo.
LEMMA UpdateFits ==
    /\ \A m \in Memo, b \in BOOLEAN : [m EXCEPT !["pinned"] = b] \in Memo /\ [m EXCEPT !["archived"] = b] \in Memo
    /\ \A m \in Memo, c \in Contents : [m EXCEPT !["content"] = c] \in Memo
    /\ \A c \in Contents : \A t \in Tasks : Toggled(c, t) \in Contents
    BY DEF Memo, Contents, Toggled

LEMMA UserWrites ==
    ASSUME TypeInv, NEW s \in Slots,
           \/ TogglePin(s) \/ Unpin(s) \/ ToggleStatus(s) \/ Archive(s) \/ Delete(s)
           \/ RemoveCompleted(s) \/ React(s) \/ \E t \in Tasks : ToggleTask(s, t) \/ EditorSave(s, t)
    PROVE  UserWrite
    <1>0. Menu /\ Shown \in Memo
        BY DEF TogglePin, Unpin, ToggleStatus, Archive, Delete, RemoveCompleted, React, ToggleTask, EditorSave, Menu
    <1>m. Shown.pinned \in BOOLEAN /\ Shown.archived \in BOOLEAN /\ Shown.reacted \in BOOLEAN /\ Shown.content \in Contents
        BY <1>0 DEF Memo
    <1>1. CASE TogglePin(s) \/ Unpin(s)
        <2>1. PICK b \in BOOLEAN : Mutate(s, "pinned", b, "stay")
            BY <1>1, <1>m DEF TogglePin, Unpin
        <2> QED BY <1>0, <2>1, MutateWrites, UpdateFits
    <1>2. CASE ToggleStatus(s) \/ Archive(s)
        <2>1. PICK b \in BOOLEAN, l \in {"stay", "other"} \cup Copies : Mutate(s, "archived", b, l)
            BY <1>2, <1>m DEF ToggleStatus, Archive, Copies
        <2> QED BY <1>0, <2>1, MutateWrites, UpdateFits
    <1>3. CASE RemoveCompleted(s) \/ \E t \in Tasks : ToggleTask(s, t)
        <2>1. [t \in Tasks |-> IF Shown.content[t] = "done" THEN "gone" ELSE Shown.content[t]] \in Contents
            BY <1>m DEF Contents
        <2>2. PICK c \in Contents : Mutate(s, "content", c, "stay")
            BY <1>3, <1>m, <2>1, UpdateFits DEF RemoveCompleted, ToggleTask
        <2> QED BY <1>0, <2>2, MutateWrites, UpdateFits
    <1>4. CASE \E t \in Tasks : EditorSave(s, t)
        <2>1. PICK t \in Tasks : EditorSave(s, t)
            BY <1>4
        <2> DEFINE c == Toggled(Shown.content, t)
                   v == [NoWrite EXCEPT !.op = "save", !.field = "content", !.value = c]
                   w == [v EXCEPT !.pc = "sent"]
        <2>2. c \in Contents
            BY <1>m, UpdateFits
        <2>3. Start(s, v) /\ UNCHANGED <<kind, srv, entry, page, blind>>
            BY <2>1 DEF EditorSave
        <2> HIDE DEF c
        <2>4. w \in Writes /\ w.pc = "sent" /\ w.ans = None /\ w.op = "save" /\ w.field = "content" /\ w.value = c
            BY <2>2 DEF NoWrite, Writes, Kinds, Fields, Results
        <2> HIDE DEF v
        <2>5. write' = [write EXCEPT ![s] = w] /\ write[s].pc = "idle"
            BY <1>0, <2>3, IdleSlot DEF Start
        <2> HIDE DEF w
        <2>6. Fits(w)
            BY <2>2, <2>4, UpdateFits DEF Fits
        <2> QED BY <2>3, <2>4, <2>5, <2>6 DEF UserWrite, Begins, Start
    <1>5. CASE Delete(s) \/ React(s)
        <2>1. PICK v : /\ v \in Writes /\ v.ans = None /\ v.op \in {"delete", "react"}
                       /\ v.op = "react" => v.value \in BOOLEAN
                       /\ Start(s, v)
            <3>1. CASE Delete(s)
                <4> DEFINE v == [NoWrite EXCEPT !.op = "delete", !.leave = IF page = "detail" THEN Home ELSE "stay"]
                <4>1. v \in Writes /\ v.ans = None /\ v.op = "delete"
                    BY DEF NoWrite, Writes, Kinds, Fields, Results, Home, Copies
                <4>2. Start(s, v)
                    BY <3>1 DEF Delete
                <4> QED BY <4>1, <4>2
            <3>2. CASE React(s)
                <4> DEFINE v == [NoWrite EXCEPT !.op = "react", !.value = ~Shown.reacted]
                <4>1. v \in Writes /\ v.ans = None /\ v.op = "react" /\ v.value \in BOOLEAN
                    BY <1>m DEF NoWrite, Writes, Kinds, Fields, Results
                <4>2. Start(s, v)
                    BY <3>2 DEF React
                <4> QED BY <4>1, <4>2
            <3> QED BY <1>5, <3>1, <3>2
        <2> DEFINE w == [v EXCEPT !.pc = "sent"]
        <2>2. w \in Writes /\ w.pc = "sent" /\ w.ans = None /\ w.op = v.op /\ w.value = v.value
            BY <2>1 DEF Writes
        <2>3. write' = [write EXCEPT ![s] = w] /\ write[s].pc = "idle" /\ UNCHANGED <<kind, srv, entry, page, blind>>
            BY <1>0, <1>5, <2>1, IdleSlot DEF Start, Delete, React
        <2> HIDE DEF w
        <2>4. Fits(w)
            BY <2>1, <2>2 DEF Fits
        <2> QED BY <2>1, <2>2, <2>3, <2>4 DEF UserWrite, Begins, Start
    <1> QED BY <1>1, <1>2, <1>3, <1>4, <1>5

(* ---- what happens to a copy ---- *)
\* The copy of q becomes e: an answer comes or is lost, is taken or refused, time passes, or a
\* fetch begins.
Becomes(q, e) ==
    /\ q \in Copies /\ e \in Entries /\ entry' = [entry EXCEPT ![q] = e]
    /\ q = "detail" => e.data # Absent /\ e.ans # Absent
    /\ UNCHANGED <<kind, srv, write, blind>> /\ page' \in Copies \cup {"other"}
    /\ apart' \subseteq Copies \cup {"page"} /\ apart \cap Copies \subseteq apart'

CopyStep(q, e) ==
    /\ Becomes(q, e)
    /\ \/ e.fetch = "served" /\ e.ans \in {View(q), Failed} /\ e.data = entry[q].data /\ e.stale = entry[q].stale
          /\ Fetching(q)
       \/ e.fetch = "idle" /\ e.data = entry[q].ans /\ entry[q].fetch = "served" /\ entry[q].ans \in Memo \cup {Absent}
       \/ e.fetch \in {"idle", entry[q].fetch} /\ e.data = entry[q].data /\ e.stale /\ e.ans \in {None, entry[q].ans}
       \/ e.fetch = "sent" /\ e.data = entry[q].data /\ e.stale = entry[q].stale
          /\ (q = "detail" /\ Writing => "detail" \in apart')
       \/ e = entry[q]

LEMMA Viewed == ASSUME TypeInv, NEW q \in Copies
                PROVE  View(q) \in Memo \cup {Gone, Absent} /\ (q = "detail" => View(q) # Absent)
    BY Specials DEF TypeInv, View, Copies

LEMMA CopySteps ==
    ASSUME TypeInv, NEW q \in Copies,
           ServeFetch(q) \/ LoseFetch(q) \/ Fetched(q) \/ FetchFailed(q) \/ Age(q) \/ Focus(q) \/ Open(q)
    PROVE  \E e : CopyStep(q, e)
    <1> DEFINE f == entry[q]
    <1>t. /\ f \in Entries /\ entry \in [Copies -> Entries] /\ page \in Copies \cup {"other"}
          /\ apart \subseteq Copies \cup {"page"} /\ (q = "detail" => f.data # Absent /\ f.ans # Absent)
        BY DEF TypeInv
    <1>1. CASE ServeFetch(q) \/ LoseFetch(q)
        <2>1. PICK a \in {View(q), Failed} : entry' = [entry EXCEPT ![q] = [f EXCEPT !.fetch = "served", !.ans = a]]
            BY <1>1, <1>t DEF ServeFetch, LoseFetch
        <2> DEFINE e == [f EXCEPT !.fetch = "served", !.ans = a]
        <2>2. a \in Results \cup {Absent} /\ (q = "detail" => a # Absent)
            BY Viewed, Specials DEF Results
        <2>3. e \in Entries /\ e.data = f.data /\ e.stale = f.stale /\ e.fetch = "served" /\ e.ans = a
            BY <1>t, <2>2 DEF Entries
        <2>4. entry' = [entry EXCEPT ![q] = e]
            BY <2>1
        <2> HIDE DEF e
        <2>5. Fetching(q) /\ UNCHANGED <<kind, srv, write, blind, page, apart>>
            BY <1>1 DEF ServeFetch, LoseFetch, Fetching
        <2>6. CopyStep(q, e)
            BY <1>t, <2>2, <2>3, <2>4, <2>5 DEF CopyStep, Becomes
        <2> QED BY <2>6
    <1>2. CASE Fetched(q)
        <2> DEFINE g == Settled(f)
                   e == SetData(g, f.ans)
        <2>1. f.fetch = "served" /\ f.ans \in Memo \cup {Absent} /\ entry' = [entry EXCEPT ![q] = e]
            BY <1>2 DEF Fetched
        <2>2. g \in Entries /\ g.fetch = "idle" /\ g.ans = None
            BY <1>t, EntryFields
        <2> HIDE DEF g
        <2>3. e \in Entries /\ e.data = f.ans /\ e.fetch = "idle" /\ e.ans = None
            BY <2>1, <2>2, SetFields
        <2> HIDE DEF e
        <2>4. UNCHANGED <<kind, srv, write, blind, page, apart>>
            BY <1>2 DEF Fetched
        <2>5. CopyStep(q, e)
            BY <1>t, <2>1, <2>3, <2>4, Specials DEF CopyStep, Becomes
        <2> QED BY <2>5
    <1>3. CASE FetchFailed(q)
        <2> DEFINE g == Settled(f)
                   e == [g EXCEPT !.stale = TRUE]
        <2>1. entry' = [entry EXCEPT ![q] = e]
            BY <1>3 DEF FetchFailed
        <2>2. g \in Entries /\ g.fetch = "idle" /\ g.ans = None /\ g.data = f.data
            BY <1>t, EntryFields
        <2> HIDE DEF g
        <2>3. e \in Entries /\ e.data = f.data /\ e.fetch = "idle" /\ e.ans = None /\ e.stale = TRUE
            BY <2>2, EntryFields
        <2> HIDE DEF e
        <2>4. UNCHANGED <<kind, srv, write, blind, apart>> /\ page' \in Copies \cup {"other"}
            BY <1>3, <1>t DEF FetchFailed
        <2>5. CopyStep(q, e)
            BY <1>t, <2>1, <2>3, <2>4, Specials DEF CopyStep, Becomes
        <2> QED BY <2>5
    <1>4. CASE Age(q)
        <2> DEFINE e == [f EXCEPT !.stale = TRUE]
        <2>1. entry' = [entry EXCEPT ![q] = e]
            BY <1>4, <1>t DEF Age
        <2>2. e \in Entries /\ e.data = f.data /\ e.fetch = f.fetch /\ e.ans = f.ans /\ e.stale = TRUE
            BY <1>t, EntryFields
        <2> HIDE DEF e
        <2>3. UNCHANGED <<kind, srv, write, blind, page, apart>>
            BY <1>4 DEF Age
        <2>4. CopyStep(q, e)
            BY <1>t, <2>1, <2>2, <2>3 DEF CopyStep, Becomes
        <2> QED BY <2>4
    <1>5. CASE Focus(q) \/ (Open(q) /\ entry' # entry)
        <2> DEFINE e == Fetch(f)
        <2>1. entry' = [entry EXCEPT ![q] = e]
            BY <1>5, <1>t DEF Focus, Open, Mounted
        <2>2. e \in Entries /\ e.data = f.data /\ e.stale = f.stale /\ e.fetch = "sent" /\ e.ans = None
            BY <1>t, EntryFields
        <2>3. UNCHANGED <<kind, srv, write, blind>> /\ page' \in Copies \cup {"other"}
            BY <1>5, <1>t DEF Focus, Open
        <2>4. entry'[q] # entry[q] \/ entry' = entry
            BY <2>1, <1>t
        <2> HIDE DEF e
        <2>5. /\ apart' \subseteq Copies \cup {"page"} /\ apart \cap Copies \subseteq apart'
              /\ q = "detail" /\ Writing => "detail" \in apart'
            BY <1>5, <1>t, <2>4 DEF Focus, Open, Late, Copies
        <2>6. CopyStep(q, e)
            BY <1>t, <2>1, <2>2, <2>3, <2>5, Specials DEF CopyStep, Becomes
        <2> QED BY <2>6
    <1>6. CASE Open(q) /\ entry' = entry
        <2>1. entry' = [entry EXCEPT ![q] = f]
            BY <1>6, <1>t
        <2>2. /\ UNCHANGED <<kind, srv, write, blind>> /\ page' \in Copies \cup {"other"}
              /\ apart' \subseteq Copies \cup {"page"} /\ apart \cap Copies \subseteq apart'
            BY <1>6, <1>t DEF Open, Late, Copies
        <2>3. CopyStep(q, f)
            BY <1>t, <2>1, <2>2 DEF CopyStep, Becomes
        <2> QED BY <2>3
    <1> QED BY <1>1, <1>2, <1>3, <1>4, <1>5, <1>6

(* ---- what happens to a write ---- *)
\* The write of s becomes x: it is served, an answer is lost, it is repeated, or a reaction is
\* read again.
Advances(s, x) ==
    LET w == write[s] IN
    /\ s \in Slots /\ x \in Writes /\ Fits(x) /\ w.pc # "idle" /\ write' = [write EXCEPT ![s] = x]
    /\ x.op = w.op /\ x.prev = w.prev
    /\ UNCHANGED <<kind, entry, page, apart>>

WriteStep(s, x) ==
    LET w == write[s] IN
    /\ Advances(s, x)
    /\ \/ /\ w.pc = "sent" /\ x.pc = "served" /\ blind' = blind
          /\ \/ srv = None /\ srv' = None /\ x.ans = Gone
             \/ srv # None /\ w.op = "delete" /\ srv' = None /\ x.ans = None
             \/ srv # None /\ w.op # "delete" /\ srv' \in Memo /\ x.ans = srv'
       \/ /\ x.pc = (IF w.pc \in {"get", "got"} THEN "got" ELSE "served") /\ x.ans = Failed
          /\ srv' = srv /\ blind' \in BOOLEAN /\ (blind \/ w.pc # "sent" => blind')
       \/ /\ w.pc = "served" /\ x.pc = "sent" /\ w.op \in {"update", "delete"} /\ w.ans \in {Failed, Gone}
          /\ x.ans = None /\ UNCHANGED <<srv, blind>>
       \/ /\ w.pc = "served" /\ x.pc = "get" /\ w.op = "react" /\ w.ans \in Memo
          /\ x.ans = None /\ UNCHANGED <<srv, blind>>
       \/ /\ w.pc = "get" /\ x.pc = "got" /\ w.op = "react"
          /\ x.ans = (IF srv = None THEN Gone ELSE srv) /\ UNCHANGED <<srv, blind>>

\* The write s goes on to pc with the answer a.
GoesOn(x, s, pc, a, r) == x = [write[s] EXCEPT !.pc = pc, !.ans = a, !.retried = r]

LEMMA WriteFits ==
    ASSUME TypeInv, NEW s \in Slots, NEW pc \in {"idle", "sent", "served", "get", "got"}, NEW a \in Results,
           NEW r \in BOOLEAN, NEW x, GoesOn(x, s, pc, a, r),
           write[s].pc # "idle", pc \in {"get", "got"} => write[s].op = "react"
    PROVE  /\ x \in Writes /\ Fits(x) /\ x.pc = pc /\ x.ans = a
           /\ x.op = write[s].op /\ x.prev = write[s].prev
    <1> DEFINE w == write[s]
    <1>1. w \in Writes /\ Fits(w)
        BY DEF TypeInv
    <1>2. /\ x \in Writes /\ x.pc = pc /\ x.ans = a /\ x.op = w.op /\ x.prev = w.prev
          /\ x.field = w.field /\ x.value = w.value
        BY <1>1 DEF Writes, GoesOn
    <1> QED BY <1>1, <1>2 DEF Fits

LEMMA WriteSteps ==
    ASSUME TypeInv, NEW s \in Slots,
           \/ ServeWrite(s) \/ Retry(s) \/ ReactionPut(s) \/ ServeGet(s)
           \/ \E again \in BOOLEAN : LoseWrite(s, again)
    PROVE  \E x : WriteStep(s, x)
    <1> DEFINE w == write[s]
    <1>t. /\ w \in Writes /\ Fits(w) /\ write \in [Slots -> Writes] /\ w.retried \in BOOLEAN
          /\ srv \in Memo \cup {None} /\ blind \in BOOLEAN
        BY DEF TypeInv, Writes
    <1>1. CASE ServeWrite(s)
        <2>1. PICK a : /\ write' = [write EXCEPT ![s] = [w EXCEPT !.pc = "served", !.ans = a, !.retried = w.retried]]
                       /\ \/ srv = None /\ srv' = None /\ a = Gone
                          \/ srv # None /\ w.op = "delete" /\ srv' = None /\ a = None
                          \/ srv # None /\ w.op # "delete" /\ srv' = Written(w) /\ a = srv'
            <3>1. CASE srv = None
                <4>1. write' = [write EXCEPT ![s] = [w EXCEPT !.pc = "served", !.ans = Gone]] /\ srv' = None
                    BY <1>1, <1>t, <3>1 DEF ServeWrite
                <4>2. [w EXCEPT !.pc = "served", !.ans = Gone] = [w EXCEPT !.pc = "served", !.ans = Gone, !.retried = w.retried]
                    BY <1>t DEF Writes
                <4> QED BY <3>1, <4>1, <4>2
            <3>2. CASE srv # None
                <4>1. /\ write' = [write EXCEPT ![s] = [w EXCEPT !.pc = "served", !.ans = srv']]
                      /\ srv' = IF w.op = "delete" THEN None ELSE Written(w)
                    BY <1>1, <1>t, <3>2 DEF ServeWrite
                <4>2. [w EXCEPT !.pc = "served", !.ans = srv'] = [w EXCEPT !.pc = "served", !.ans = srv', !.retried = w.retried]
                    BY <1>t DEF Writes
                <4> QED BY <3>2, <4>1, <4>2
            <3> QED BY <3>1, <3>2
        <2>2. w.pc = "sent" /\ UNCHANGED <<kind, entry, page, apart, blind>>
            BY <1>1 DEF ServeWrite
        <2>3. srv # None /\ w.op # "delete" => Written(w) \in Memo
            <3> SUFFICES ASSUME srv # None, w.op # "delete" PROVE Written(w) \in Memo
                OBVIOUS
            <3>1. CASE w.op = "react"
                <4>1. w.value \in BOOLEAN
                    BY <1>t, <2>2, <3>1 DEF Fits
                <4> QED BY <1>t, <3>1, <4>1 DEF Written, Memo
            <3>2. CASE w.op # "react"
                <4>1. w.op \in {"update", "save"}
                    BY <1>t, <3>2 DEF Writes, Kinds
                <4> QED BY <1>t, <2>2, <3>2, <4>1 DEF Written, Fits
            <3> QED BY <3>1, <3>2
        <2>4. a \in Results
            BY <2>1, <2>3 DEF Results
        <2> DEFINE x == [w EXCEPT !.pc = "served", !.ans = a, !.retried = w.retried]
        <2>6. write' = [write EXCEPT ![s] = x] /\ GoesOn(x, s, "served", a, w.retried)
            BY <2>1 DEF GoesOn
        <2> HIDE DEF x
        <2>5. x \in Writes /\ Fits(x) /\ x.pc = "served" /\ x.ans = a /\ x.op = w.op /\ x.prev = w.prev
            BY <1>t, <2>2, <2>4, <2>6, WriteFits
        <2>7. WriteStep(s, x)
            BY <2>1, <2>2, <2>3, <2>5, <2>6 DEF WriteStep, Advances
        <2> QED BY <2>7
    <1>2. ASSUME NEW again \in BOOLEAN, LoseWrite(s, again) PROVE \E x : WriteStep(s, x)
        <2> DEFINE r == w.retried \/ again
                   pc == IF w.pc \in {"get", "got"} THEN "got" ELSE "served"
                   x == [w EXCEPT !.pc = pc, !.ans = Failed, !.retried = r]
        <2>1. /\ write' = [write EXCEPT ![s] = x] /\ w.pc # "idle" /\ UNCHANGED <<kind, srv, entry, page, apart>>
              /\ blind' = (blind \/ w.pc # "sent")
            BY <1>2, <1>t DEF LoseWrite
        <2>2. pc \in {"served", "got"} /\ (pc = "got" => w.op = "react") /\ r \in BOOLEAN
            BY <1>t DEF Fits
        <2> HIDE DEF r
        <2>a. GoesOn(x, s, pc, Failed, r) /\ Failed \in Results
            BY DEF Results, GoesOn
        <2> HIDE DEF x
        <2>3. x \in Writes /\ Fits(x) /\ x.pc = pc /\ x.ans = Failed /\ x.op = w.op /\ x.prev = w.prev
            <3> HIDE DEF pc
            <3> QED BY <2>1, <2>2, <2>a, WriteFits
        <2>4. blind' \in BOOLEAN
            BY <2>1
        <2>5. WriteStep(s, x)
            BY <2>1, <2>3, <2>4 DEF WriteStep, Advances
        <2> QED BY <2>5
    <1>3. CASE Retry(s)
        <2> DEFINE x == [w EXCEPT !.pc = "sent", !.ans = None, !.retried = TRUE]
        <2>1. /\ write' = [write EXCEPT ![s] = x] /\ w.pc = "served" /\ w.op \in {"update", "delete"}
              /\ w.ans \in {Failed, Gone} /\ UNCHANGED <<kind, srv, entry, page, apart, blind>>
            BY <1>3, <1>t DEF Retry, Refused
        <2>r. PICK r \in BOOLEAN : r = TRUE
            OBVIOUS
        <2>a. GoesOn(x, s, "sent", None, r) /\ None \in Results
            BY <2>r DEF Results, GoesOn
        <2> HIDE DEF x
        <2>2. x \in Writes /\ Fits(x) /\ x.pc = "sent" /\ x.ans = None /\ x.op = w.op /\ x.prev = w.prev
            BY <2>1, <2>a, WriteFits
        <2>3. WriteStep(s, x)
            BY <2>1, <2>2 DEF WriteStep, Advances
        <2> QED BY <2>3
    <1>4. CASE ReactionPut(s) \/ ServeGet(s)
        <2>1. PICK pc \in {"get", "got"}, a \in Results :
                 /\ write' = [write EXCEPT ![s] = [w EXCEPT !.pc = pc, !.ans = a]]
                 /\ \/ w.pc = "served" /\ pc = "get" /\ w.op = "react" /\ w.ans \in Memo /\ a = None
                    \/ w.pc = "get" /\ pc = "got" /\ w.op = "react" /\ a = (IF srv = None THEN Gone ELSE srv)
            <3>1. CASE ReactionPut(s)
                BY <3>1, <1>t DEF ReactionPut, Results
            <3>2. CASE ServeGet(s)
                <4>1. w.op = "react" /\ w.pc = "get"
                    BY <3>2, <1>t DEF ServeGet, Fits
                <4>2. (IF srv = None THEN Gone ELSE srv) \in Results
                    BY <1>t DEF Results
                <4>3. write' = [write EXCEPT ![s] = [w EXCEPT !.pc = "got", !.ans = IF srv = None THEN Gone ELSE srv]]
                    BY <3>2, <1>t DEF ServeGet
                <4> QED BY <4>1, <4>2, <4>3
            <3> QED BY <1>4, <3>1, <3>2
        <2> DEFINE x == [w EXCEPT !.pc = pc, !.ans = a, !.retried = w.retried]
        <2>2. x = [w EXCEPT !.pc = pc, !.ans = a]
            BY <1>t DEF Writes
        <2>3. write' = [write EXCEPT ![s] = x]
            BY <2>1, <2>2
        <2>a. GoesOn(x, s, pc, a, w.retried)
            BY DEF GoesOn
        <2> HIDE DEF x
        <2>4. x \in Writes /\ Fits(x) /\ x.pc = pc /\ x.ans = a /\ x.op = w.op /\ x.prev = w.prev
            BY <1>t, <2>1, <2>a, WriteFits
        <2>5. UNCHANGED <<kind, srv, entry, page, apart, blind>>
            BY <1>4 DEF ReactionPut, ServeGet
        <2>6. WriteStep(s, x)
            BY <2>1, <2>3, <2>4, <2>5 DEF WriteStep, Advances
        <2> QED BY <2>6
    <1> QED BY <1>1, <1>2, <1>3, <1>4

(* ---- what ends a write ---- *)
\* The list is read again, or is left stale with no answer to come, unless CardTrue leaves it out.
Refreshes(c) == kind = "memo" /\ "card" \notin apart' => c.stale /\ c.fetch # "served"

\* The write of s ends; the copies become d and c.
Finishes(s, d, c) ==
    /\ s \in Slots /\ write' = [write EXCEPT ![s] = NoWrite] /\ d \in Entries /\ c \in Entries
    /\ entry' = [q \in Copies |-> IF q = "detail" THEN d ELSE c]
    /\ d.data # Absent /\ d.ans # Absent
    /\ UNCHANGED <<kind, srv, blind>> /\ page' \in Copies \cup {"other"}
    /\ apart \subseteq apart' /\ apart' \subseteq Copies \cup {"page"}

EndStep(s, d, c) ==
    LET w == write[s]
        old == entry["detail"]
    IN
    /\ Finishes(s, d, c)
    /\ \/ /\ w.pc = "served" /\ w.op = "update" /\ w.ans \in {Failed, Gone} /\ c = entry["card"]
          /\ d.fetch = old.fetch /\ d.ans = old.ans /\ d.data = (IF w.prev = None THEN old.data ELSE w.prev)
       \/ /\ w.pc \in {"served", "got"} /\ w.op # "update" /\ w.ans \in {Failed, Gone}
          /\ c = entry["card"] /\ d = old
       \/ /\ w.pc = "served" /\ w.op = "update" /\ w.ans \in Memo /\ Refreshes(c)
          /\ d.data = w.ans /\ d.fetch = old.fetch
       \/ w.pc = "served" /\ w.op = "delete" /\ w.ans = None /\ Refreshes(c) /\ d = Removed
       \/ /\ w.pc = "got" /\ w.ans \in Memo /\ Refreshes(c) /\ d.data = w.ans /\ d.fetch = old.fetch
          /\ Fetching("detail") => "detail" \in apart'
       \/ w.pc = "served" /\ w.op = "save" /\ w.ans \in Memo /\ Refreshes(c) /\ d = old /\ "detail" \in apart'

LEMMA CardInvalidated ==
    ASSUME TypeInv
    PROVE  /\ InvalidateCard \in Entries /\ Fetch(InvalidateCard) \in Entries
           /\ kind = "memo" => Fetch(InvalidateCard).stale /\ Fetch(InvalidateCard).fetch = "sent"
           /\ kind = "memo" /\ "card" \notin CardOvertaken => InvalidateCard.stale /\ InvalidateCard.fetch # "served"
    <1> DEFINE f == entry["card"]
               e == [f EXCEPT !.stale = TRUE]
    <1>1. f \in Entries
        BY DEF TypeInv, Copies
    <1>2. e \in Entries /\ e.data = f.data /\ e.fetch = f.fetch /\ e.stale = TRUE
        BY <1>1, EntryFields
    <1>3. /\ Invalidate("card") = IF Active("card") /\ (e.fetch = "idle" \/ e.data # None) THEN Fetch(e) ELSE e
        BY DEF Invalidate
    <1>4. "card" \notin CardOvertaken => f.fetch = "idle" \/ (Active("card") /\ f.data # None)
        BY DEF CardOvertaken, Overtaken, Fetching
    <1> HIDE DEF e
    <1> DEFINE g == Fetch(e)
    <1>5. g \in Entries /\ g.stale = TRUE /\ g.fetch = "sent"
        BY <1>2, EntryFields
    <1>6. Invalidate("card") = g \/ (Invalidate("card") = e /\ ("card" \notin CardOvertaken => e.fetch = "idle"))
        BY <1>2, <1>3, <1>4
    <1> HIDE DEF g
    <1> DEFINE i == InvalidateCard
    <1>7. i \in Entries /\ (kind = "memo" => i.stale = TRUE) /\ (kind = "memo" /\ "card" \notin CardOvertaken => i.fetch # "served")
        <2>1. CASE kind = "memo"
            <3>1. i = g \/ (i = e /\ ("card" \notin CardOvertaken => e.fetch = "idle"))
                BY <1>6, <2>1 DEF InvalidateCard
            <3> HIDE DEF i
            <3> QED BY <1>2, <1>5, <3>1
        <2>2. CASE kind # "memo"
            BY <1>1, <2>2 DEF InvalidateCard
        <2> QED BY <2>1, <2>2
    <1> HIDE DEF i
    <1>8. Fetch(i) \in Entries /\ Fetch(i).stale = i.stale /\ Fetch(i).fetch = "sent"
        BY <1>7, EntryFields
    <1> QED BY <1>7, <1>8 DEF i

LEMMA EndSteps ==
    ASSUME TypeInv, NEW s \in Slots,
           UpdateFailed(s) \/ Updated(s) \/ Deleted(s) \/ WriteFailed(s) \/ Reacted(s) \/ Saved(s)
    PROVE  \E d, c : EndStep(s, d, c)
    <1> DEFINE w == write[s]
               old == entry["detail"]
               card == entry["card"]
    <1>t. /\ w \in Writes /\ old \in Entries /\ card \in Entries /\ old.data # Absent /\ old.ans # Absent
          /\ entry \in [Copies -> Entries] /\ page \in Copies \cup {"other"} /\ apart \subseteq Copies \cup {"page"}
          /\ entry = [q \in Copies |-> IF q = "detail" THEN old ELSE card]
          /\ w.prev \in Memo \cup {None} /\ w.ans \in Results /\ w.leave \in {"stay", "other"} \cup Copies
        BY DEF TypeInv, Copies, Writes
    <1>1. CASE UpdateFailed(s)
        <2> DEFINE d == Rollback(old, w.prev)
        <2>1. /\ w.pc = "served" /\ w.op = "update" /\ w.ans \in {Failed, Gone}
              /\ write' = [write EXCEPT ![s] = NoWrite] /\ UNCHANGED <<kind, srv, page, apart, blind>>
            BY <1>1 DEF UpdateFailed, Refused, Done
        <2>2. entry' = [entry EXCEPT !["detail"] = d]
            BY <1>1, <1>t DEF UpdateFailed
        <2>3. /\ d \in Entries /\ d.fetch = old.fetch /\ d.ans = old.ans
              /\ d.data = IF w.prev = None THEN old.data ELSE w.prev
            <3>1. CASE w.prev = None
                BY <1>t, <3>1 DEF Rollback
            <3>2. CASE w.prev # None
                <4> DEFINE e == SetData(old, w.prev)
                <4>1. e \in Entries /\ e.fetch = old.fetch /\ e.ans = old.ans /\ e.data = w.prev
                    BY <1>t, SetFields
                <4>2. d = e
                    BY <3>2 DEF Rollback
                <4> HIDE DEF e, d
                <4> QED BY <3>2, <4>1, <4>2
            <3> QED BY <3>1, <3>2
        <2> HIDE DEF d
        <2>4. entry' = [q \in Copies |-> IF q = "detail" THEN d ELSE card]
            BY <1>t, <2>2
        <2>5. EndStep(s, d, card)
            BY <1>t, <2>1, <2>3, <2>4, Specials DEF EndStep, Finishes
        <2> QED BY <2>5
    <1>2. CASE WriteFailed(s)
        <2>1. /\ w.pc \in {"served", "got"} /\ w.op # "update" /\ w.ans \in {Failed, Gone}
              /\ write' = [write EXCEPT ![s] = NoWrite] /\ UNCHANGED <<kind, srv, entry, page, apart, blind>>
            BY <1>2 DEF WriteFailed, Refused, Done
        <2>2. EndStep(s, old, card)
            BY <1>t, <2>1 DEF EndStep, Finishes
        <2> QED BY <2>2
    <1> DEFINE i == InvalidateCard
               j == Fetch(i)
    <1>i. /\ i \in Entries /\ j \in Entries /\ (kind = "memo" => j.stale /\ j.fetch = "sent")
          /\ kind = "memo" /\ "card" \notin CardOvertaken => i.stale /\ i.fetch # "served"
          /\ CardOvertaken \subseteq Copies
        BY CardInvalidated DEF CardOvertaken, Copies
    <1>l. Leave(w) \in Copies \cup {"other"}
        BY <1>t DEF Leave
    <1>3. CASE Updated(s) \/ Reacted(s)
        <2> DEFINE d == SetData(old, w.ans)
        <2>1. /\ w.ans \in Memo /\ write' = [write EXCEPT ![s] = NoWrite] /\ UNCHANGED <<kind, srv, blind>>
              /\ page' \in Copies \cup {"other"} /\ apart' \subseteq Copies \cup {"page"}
              /\ apart \cup CardOvertaken \subseteq apart'
              /\ \/ w.pc = "served" /\ w.op = "update"
                 \/ w.pc = "got" /\ (Fetching("detail") => "detail" \in apart')
            BY <1>3, <1>t, <1>l, <1>i DEF Updated, Reacted, Done, Copies
        <2>2. PICK c \in {i, j} : entry' = [q \in Copies |-> IF q = "detail" THEN d ELSE c]
            <3>1. CASE Updated(s)
                <4>1. CASE CardAfter(page') = j
                    <5>1. entry' = [q \in Copies |-> IF q = "detail" THEN d ELSE j]
                        BY <3>1, <4>1 DEF Updated, Copies
                    <5> QED BY <5>1
                <4>2. CASE CardAfter(page') = i
                    <5>1. entry' = [q \in Copies |-> IF q = "detail" THEN d ELSE i]
                        BY <3>1, <4>2 DEF Updated, Copies
                    <5> QED BY <5>1
                <4>3. CardAfter(page') \in {i, j}
                    BY DEF CardAfter
                <4> QED BY <4>1, <4>2, <4>3
            <3>2. CASE Reacted(s)
                <4>1. entry' = [q \in Copies |-> IF q = "detail" THEN d ELSE i]
                    BY <3>2 DEF Reacted, Copies
                <4> QED BY <4>1
            <3> QED BY <1>3, <3>1, <3>2
        <2> HIDE DEF i, j
        <2>3. d \in Entries /\ d.data = w.ans /\ d.fetch = old.fetch /\ d.ans = old.ans
            <3> DEFINE a == w.ans
            <3>1. a \in Memo \cup {None, Absent} /\ old \in Entries
                BY <1>t, <2>1
            <3>2. d = SetData(old, a)
                OBVIOUS
            <3> HIDE DEF a, old, d
            <3>3. /\ SetData(old, a) \in Entries /\ SetData(old, a).data = a
                  /\ SetData(old, a).fetch = old.fetch /\ SetData(old, a).ans = old.ans
                BY <3>1, SetFields
            <3> QED BY <3>2, <3>3 DEF a
        <2> HIDE DEF d
        <2>4. c \in Entries /\ Refreshes(c)
            BY <1>i, <2>1, <2>2 DEF Refreshes
        <2>5. EndStep(s, d, c)
            BY <1>t, <2>1, <2>2, <2>3, <2>4, Specials DEF EndStep, Finishes
        <2> QED BY <2>5
    <1>4. CASE Deleted(s)
        <2>1. /\ w.pc = "served" /\ w.op = "delete" /\ w.ans = None
              /\ write' = [write EXCEPT ![s] = NoWrite] /\ UNCHANGED <<kind, srv, blind>>
              /\ page' \in Copies \cup {"other"} /\ apart' \subseteq Copies \cup {"page"}
              /\ apart \cup CardOvertaken \subseteq apart'
            BY <1>4, <1>t, <1>l, <1>i DEF Deleted, Done, Copies
        <2>2. PICK c \in {i, j} : entry' = [q \in Copies |-> IF q = "detail" THEN Removed ELSE c]
            <3>1. CASE CardAfter(page') = j
                <4>1. entry' = [q \in Copies |-> IF q = "detail" THEN Removed ELSE j]
                    BY <1>4, <3>1 DEF Deleted, Copies, Forget
                <4> QED BY <4>1
            <3>2. CASE CardAfter(page') = i
                <4>1. entry' = [q \in Copies |-> IF q = "detail" THEN Removed ELSE i]
                    BY <1>4, <3>2 DEF Deleted, Copies, Forget
                <4> QED BY <4>1
            <3>3. CardAfter(page') \in {i, j}
                BY DEF CardAfter
            <3> QED BY <3>1, <3>2, <3>3
        <2> HIDE DEF i, j
        <2>3. c \in Entries /\ Refreshes(c)
            BY <1>i, <2>1, <2>2 DEF Refreshes
        <2>4. EndStep(s, Removed, c)
            BY <2>1, <2>2, <2>3, RemovedFields, Specials DEF EndStep, Finishes
        <2> QED BY <2>4
    <1>5. CASE Saved(s)
        <2>1. /\ w.pc = "served" /\ w.op = "save" /\ w.ans \in Memo
              /\ write' = [write EXCEPT ![s] = NoWrite] /\ UNCHANGED <<kind, srv, blind, page>>
              /\ apart' = apart \cup CardOvertaken \cup {"detail"} /\ entry' = [entry EXCEPT !["card"] = i]
            BY <1>5 DEF Saved, Done
        <2> HIDE DEF i
        <2>2. entry' = [q \in Copies |-> IF q = "detail" THEN old ELSE i]
            BY <1>t, <2>1 DEF Copies
        <2>3. i \in Entries /\ Refreshes(i)
            BY <1>i, <2>1 DEF Refreshes
        <2>4. apart \subseteq apart' /\ apart' \subseteq Copies \cup {"page"} /\ "detail" \in apart'
            BY <1>t, <1>i, <2>1 DEF Copies
        <2>5. EndStep(s, old, i)
            BY <1>t, <2>1, <2>2, <2>3, <2>4 DEF EndStep, Finishes
        <2> QED BY <2>5
    <1> QED BY <1>1, <1>2, <1>3, <1>4, <1>5

(* ---- the steps, and the types ---- *)
LEMMA StepKinds ==
    ASSUME TypeInv, [Next]_vars
    PROVE  \/ UNCHANGED vars \/ UserWrite \/ \E t \in Tasks : OtherWrite(t)
           \/ \E q, e : CopyStep(q, e)
           \/ \E s, x : WriteStep(s, x)
           \/ \E s, d, c : EndStep(s, d, c)
    <1>1. ASSUME NEW q \in Copies,
                 ServeFetch(q) \/ LoseFetch(q) \/ Fetched(q) \/ FetchFailed(q) \/ Age(q) \/ Focus(q) \/ Open(q)
          PROVE  \E r, e : CopyStep(r, e)
        BY <1>1, CopySteps
    <1>2. ASSUME NEW s \in Slots,
                 \/ ServeWrite(s) \/ Retry(s) \/ ReactionPut(s) \/ ServeGet(s)
                 \/ \E again \in BOOLEAN : LoseWrite(s, again)
          PROVE  \E r, x : WriteStep(r, x)
        BY <1>2, WriteSteps
    <1>3. ASSUME NEW s \in Slots,
                 UpdateFailed(s) \/ Updated(s) \/ Deleted(s) \/ WriteFailed(s) \/ Reacted(s) \/ Saved(s)
          PROVE  \E r, d, c : EndStep(r, d, c)
        BY <1>3, EndSteps
    <1>4. CASE Progress
        BY <1>1, <1>2, <1>3, <1>4 DEF Progress
    <1>5. CASE Choices
        BY <1>1, <1>2, <1>5, UserWrites DEF Choices
    <1> QED BY <1>1, <1>4, <1>5 DEF Next

LEMMA OtherFields ==
    ASSUME TypeInv, NEW t \in Tasks, OtherWrite(t)
    PROVE  srv \in Memo /\ srv' \in Memo /\ blind' = TRUE /\ UNCHANGED <<kind, entry, page, write, apart>>
    <1>1. srv \in Memo
        BY DEF TypeInv, OtherWrite
    <1>2. srv' = [srv EXCEPT !.content = Toggled(srv.content, t)]
        BY DEF OtherWrite
    <1>3. Toggled(srv.content, t) \in Contents
        BY <1>1, UpdateFits DEF Memo
    <1>4. srv' \in Memo
        BY <1>1, <1>2, <1>3 DEF Memo
    <1> QED BY <1>1, <1>4 DEF OtherWrite

LEMMA TypeStep == TypeInv /\ [Next]_vars => TypeInv'
    <1> SUFFICES ASSUME TypeInv, [Next]_vars PROVE TypeInv'
        OBVIOUS
    <1>1. CASE UNCHANGED vars
        BY <1>1 DEF vars, TypeInv
    <1>2. CASE \E t \in Tasks : OtherWrite(t)
        <2>1. PICK t \in Tasks : OtherWrite(t)
            BY <1>2
        <2> QED BY <2>1, OtherFields DEF TypeInv
    <1>3. CASE UserWrite
        <2>1. PICK s, w : Mutates(s, w) \/ (Begins(s, w) /\ w.op # "update" /\ entry' = entry)
            BY <1>3 DEF UserWrite
        <2>2. Begins(s, w)
            BY <2>1 DEF Mutates
        <2>3. write' \in [Slots -> Writes] /\ \A r \in Slots : Fits(write'[r])
            BY <2>2 DEF Begins, TypeInv
        <2>4. /\ entry' \in [Copies -> Entries] /\ entry'["detail"].data # Absent /\ entry'["detail"].ans # Absent
            BY <2>1, Specials DEF Mutates, TypeInv
        <2>5. apart' \subseteq Copies \cup {"page"} /\ UNCHANGED <<kind, srv, page, blind>>
            BY <2>2 DEF Begins, TypeInv, Copies
        <2> QED BY <2>3, <2>4, <2>5 DEF TypeInv
    <1>4. CASE \E q, e : CopyStep(q, e)
        <2>1. PICK q, e : CopyStep(q, e)
            BY <1>4
        <2>2. Becomes(q, e)
            BY <2>1 DEF CopyStep
        <2>3. /\ entry' \in [Copies -> Entries] /\ entry'["detail"].data # Absent /\ entry'["detail"].ans # Absent
            BY <2>2 DEF Becomes, TypeInv, Copies
        <2> QED BY <2>2, <2>3 DEF TypeInv, Becomes
    <1>5. CASE \E s, x : WriteStep(s, x)
        <2>1. PICK s, x : WriteStep(s, x)
            BY <1>5
        <2>2. Advances(s, x)
            BY <2>1 DEF WriteStep
        <2>3. write' \in [Slots -> Writes] /\ \A r \in Slots : Fits(write'[r])
            BY <2>2 DEF Advances, TypeInv
        <2>4. srv' \in Memo \cup {None} /\ blind' \in BOOLEAN
            BY <2>1 DEF WriteStep, TypeInv
        <2> QED BY <2>2, <2>3, <2>4 DEF TypeInv, Advances
    <1>6. CASE \E s, d, c : EndStep(s, d, c)
        <2>1. PICK s, d, c : EndStep(s, d, c)
            BY <1>6
        <2>2. Finishes(s, d, c)
            BY <2>1 DEF EndStep
        <2>3. write' \in [Slots -> Writes] /\ \A r \in Slots : Fits(write'[r])
            BY <2>2, IdleFields DEF Finishes, TypeInv, Fits
        <2>4. entry'["detail"] = d /\ entry' \in [Copies -> Entries]
            BY <2>2 DEF Finishes, Copies
        <2> QED BY <2>2, <2>3, <2>4 DEF TypeInv, Finishes
    <1> QED BY <1>1, <1>2, <1>3, <1>4, <1>5, <1>6, StepKinds

LEMMA TypeStart == Init => TypeInv
    <1> SUFFICES ASSUME Init PROVE TypeInv
        OBVIOUS
    <1>1. srv \in Memo
        BY DEF Init, Memo, Contents
    <1>2. Removed \in Entries /\ Fetch(Removed) \in Entries /\ Removed.data # Absent /\ Removed.ans # Absent
        BY RemovedFields, EntryFields, Specials
    <1>3. entry \in [Copies -> Entries] /\ entry["detail"] = Removed
        BY <1>2 DEF Init, Copies
    <1>4. write \in [Slots -> Writes] /\ \A s \in Slots : Fits(write[s])
        BY IdleFields DEF Init, Fits
    <1> QED BY <1>1, <1>2, <1>3, <1>4 DEF Init, TypeInv, Copies

(* ---- the answers ---- *)
LEMMA AnswerStep == ASSUME TypeInv, AnswerInv, [Next]_vars PROVE AnswerInv'
    <1>1. CASE UNCHANGED vars
        BY <1>1 DEF vars, AnswerInv
    <1>2. CASE \E t \in Tasks : OtherWrite(t)
        <2>1. PICK t \in Tasks : OtherWrite(t)
            BY <1>2
        <2> QED BY <2>1, OtherFields, Specials DEF AnswerInv
    <1>3. CASE UserWrite
        <2>1. PICK s, w : Begins(s, w)
            BY <1>3 DEF UserWrite, Mutates
        <2> QED BY <2>1, Specials DEF Begins, AnswerInv, TypeInv
    <1>4. CASE \E q, e : CopyStep(q, e)
        BY <1>4 DEF CopyStep, Becomes, AnswerInv
    <1>5. CASE \E s, x : WriteStep(s, x)
        <2>1. PICK s, x : WriteStep(s, x)
            BY <1>5
        <2>2. /\ s \in Slots /\ write[s].pc # "idle" /\ write'[s] = x
              /\ \A r \in Slots : r # s => write'[r] = write[r]
            BY <2>1 DEF WriteStep, Advances, TypeInv
        <2>3. srv = None => srv' = None
            BY <2>1 DEF WriteStep
        <2>4. blind => blind'
            BY <2>1 DEF WriteStep
        <2>5. x.ans = Gone => srv' = None
            BY <2>1, Specials DEF WriteStep, TypeInv
        <2>6. x.pc \in {"get", "got"} /\ x.ans = Failed => blind'
            BY <2>1, Specials DEF WriteStep, TypeInv
        <2> QED BY <2>2, <2>3, <2>4, <2>5, <2>6 DEF AnswerInv
    <1>6. CASE \E s, d, c : EndStep(s, d, c)
        <2>1. PICK s, d, c : Finishes(s, d, c)
            BY <1>6 DEF EndStep
        <2> QED BY <2>1, IdleFields, Specials DEF Finishes, AnswerInv, TypeInv
    <1> QED BY <1>1, <1>2, <1>3, <1>4, <1>5, <1>6, StepKinds

(* ---- the memo's page ---- *)
LEMMA DetailView == /\ View("detail") = (IF srv = None THEN Gone ELSE srv)
    BY DEF View

\* A step of the copy of the memo's page keeps it in step with the server.
LEMMA CopyInStep ==
    ASSUME TypeInv, NEW e, CopyStep("detail", e), DetailInStep
    PROVE  DetailInStep'
    <1> DEFINE f == entry["detail"]
    <1>1. /\ entry'["detail"] = e /\ srv' = srv /\ e \in Entries /\ f \in Entries /\ f.ans # Absent
          /\ View("detail")' = View("detail")
        BY DEF CopyStep, Becomes, TypeInv, Copies, View
    <1>2. f.data \in {None, srv} /\ (f.fetch = "served" /\ f.ans \in Memo => f.ans = srv)
        BY DetailView, Specials DEF DetailInStep, InStep
    <1>3. e.data \in {None, srv} /\ (e.fetch = "served" /\ e.ans \in Memo \cup {Absent} => e.ans = View("detail"))
        BY <1>1, <1>2, DetailView, Specials DEF CopyStep, DetailInStep, InStep
    <1> QED BY <1>1, <1>3 DEF DetailInStep, InStep

LEMMA DetailStep == ASSUME TypeInv, AnswerInv, DetailInv, [Next]_vars PROVE DetailInv'
    <1> SUFFICES ASSUME ~blind', "detail" \notin apart'
                 PROVE  /\ \A s, t \in Slots : write'[s].pc # "idle" /\ write'[t].pc # "idle" => s = t
                        /\ ~Writing' => DetailInStep'
                        /\ \A s \in Slots : DetailWrite(write[s])'
        BY DEF DetailInv
    <1>w. write \in [Slots -> Writes] /\ entry \in [Copies -> Entries] /\ srv \in Memo \cup {None}
        BY DEF TypeInv
    <1>1. CASE UNCHANGED vars
        BY <1>1 DEF vars, DetailInv, DetailWrite, DetailInStep, InStep, View, Writing, Fetching, Unserved
    <1>2. CASE \E t \in Tasks : OtherWrite(t)
        BY <1>2, OtherFields
    <1>3. CASE UserWrite
        <2>1. PICK s, w : Mutates(s, w) \/ (Begins(s, w) /\ w.op # "update" /\ entry' = entry)
            BY <1>3 DEF UserWrite
        <2>2. Begins(s, w)
            BY <2>1 DEF Mutates
        <2>3. /\ s \in Slots /\ ~Writing /\ ~blind /\ "detail" \notin apart /\ srv' = srv /\ kind' = kind
              /\ write'[s] = w /\ w.pc = "sent" /\ w \in Writes
              /\ \A t \in Slots : t # s => write'[t] = write[t] /\ write[t].pc = "idle"
            BY <1>w, <2>2 DEF Begins, Writing
        <2>4. DetailInStep
            BY <2>3 DEF DetailInv
        <2>5. DetailWrite(w)'
            <3>1. CASE Mutates(s, w)
                <4>1. /\ w.op = "update" /\ entry'["detail"].fetch = "idle" /\ w.prev \in {None, srv'}
                      /\ w.prev = None => entry'["detail"].data = None
                    BY <2>3, <2>4, <3>1 DEF Mutates, DetailInStep
                <4> QED BY <2>3, <4>1 DEF DetailWrite, Fetching
            <3>2. CASE w.op # "update" /\ entry' = entry
                <4>1. DetailInStep'
                    BY <2>3, <2>4, <3>2 DEF DetailInStep, InStep, View
                <4> QED BY <2>3, <3>2, <4>1 DEF DetailWrite
            <3> QED BY <2>1, <3>1, <3>2
        <2>6. ASSUME NEW t \in Slots, t # s PROVE DetailWrite(write[t])'
            BY <2>3, <2>6 DEF DetailWrite, Unserved
        <2> QED BY <2>3, <2>5, <2>6 DEF Writing
    <1>4. CASE \E q, e : CopyStep(q, e)
        <2>1. PICK q, e : CopyStep(q, e)
            BY <1>4
        <2>2. /\ q \in Copies /\ UNCHANGED <<srv, write, blind, kind>> /\ "detail" \notin apart
              /\ entry' = [entry EXCEPT ![q] = e]
            BY <2>1 DEF CopyStep, Becomes, Copies
        <2>3. /\ \A s, t \in Slots : write[s].pc # "idle" /\ write[t].pc # "idle" => s = t
              /\ ~Writing => DetailInStep
              /\ \A s \in Slots : DetailWrite(write[s])
            BY <2>2 DEF DetailInv
        <2>4. CASE q = "card"
            <3>1. entry'["detail"] = entry["detail"]
                BY <1>w, <2>2, <2>4 DEF Copies
            <3>2. DetailInStep' <=> DetailInStep
                BY <2>2, <3>1 DEF DetailInStep, InStep, View
            <3>3. ASSUME NEW s \in Slots PROVE DetailWrite(write[s])'
                BY <2>2, <2>3, <3>1, <3>2 DEF DetailWrite, Fetching, Unserved
            <3> QED BY <2>2, <2>3, <3>2, <3>3 DEF Writing
        <2>5. CASE q = "detail"
            <3>1. entry'["detail"] = e /\ e \in Entries
                BY <1>w, <2>1, <2>2, <2>5 DEF CopyStep, Becomes
            <3>2. DetailInStep => DetailInStep'
                BY <2>1, <2>5, CopyInStep
            <3>3. Writing /\ ~Fetching("detail") => e.fetch = "idle" /\ e.data = entry["detail"].data
                BY <2>1, <2>5 DEF CopyStep, Fetching
            <3>4. ASSUME NEW s \in Slots PROVE DetailWrite(write[s])'
                BY <2>2, <2>3, <3>1, <3>2, <3>3 DEF DetailWrite, Fetching, Unserved, Writing
            <3> QED BY <2>2, <2>3, <3>2, <3>4 DEF Writing
        <2> QED BY <2>2, <2>4, <2>5 DEF Copies
    <1>5. CASE \E s, x : WriteStep(s, x)
        <2>1. PICK s, x : WriteStep(s, x)
            BY <1>5
        <2> DEFINE w == write[s]
        <2>2. /\ s \in Slots /\ w.pc # "idle" /\ write' = [write EXCEPT ![s] = x] /\ x \in Writes /\ Fits(x) /\ Fits(w)
              /\ x.op = w.op /\ x.prev = w.prev /\ UNCHANGED <<kind, entry, apart>> /\ w \in Writes
            BY <1>w, <2>1 DEF WriteStep, Advances, TypeInv
        <2>3. ~blind /\ x.pc # "idle"
            BY <2>1 DEF WriteStep
        <2>4. /\ \A t \in Slots : t # s => write[t].pc = "idle"
              /\ DetailWrite(w)
            BY <2>2, <2>3 DEF DetailInv
        <2>5. /\ write'[s] = x /\ \A t \in Slots : t # s => write'[t] = write[t]
            BY <1>w, <2>2
        <2>6. DetailWrite(x)'
            <3> HIDE DEF w
            <3>1. srv' = srv => (DetailInStep' <=> DetailInStep)
                BY <2>2 DEF DetailInStep, InStep, View
            <3>2. UNCHANGED entry /\ x.ans \in Results
                BY <2>2 DEF Writes
            <3>3. CASE w.pc = "sent" /\ x.pc = "served" /\ srv = None /\ srv' = None /\ x.ans = Gone
                BY <2>2, <2>4, <3>1, <3>2, <3>3, Specials DEF DetailWrite, Unserved, Fetching
            <3>4. CASE w.pc = "sent" /\ x.pc = "served" /\ srv # None /\ w.op = "delete" /\ srv' = None /\ x.ans = None
                BY <2>2, <3>2, <3>4, Specials DEF DetailWrite, Unserved
            <3>5. CASE w.pc = "sent" /\ x.pc = "served" /\ srv # None /\ w.op # "delete" /\ srv' \in Memo /\ x.ans = srv'
                BY <2>2, <2>4, <3>2, <3>5, Specials DEF DetailWrite, Unserved, Fetching
            <3>6. CASE /\ x.pc = (IF w.pc \in {"get", "got"} THEN "got" ELSE "served") /\ x.ans = Failed
                       /\ srv' = srv /\ w.pc = "sent"
                BY <2>2, <2>4, <3>1, <3>2, <3>6, Specials DEF DetailWrite, Unserved, Fetching
            <3>7. CASE /\ w.pc = "served" /\ x.pc = "sent" /\ w.op \in {"update", "delete"} /\ w.ans \in {Failed, Gone}
                       /\ x.ans = None /\ UNCHANGED <<srv, blind>>
                BY <2>2, <2>4, <3>1, <3>2, <3>7, Specials DEF DetailWrite, Unserved, Fetching
            <3>8. CASE /\ w.pc = "served" /\ x.pc = "get" /\ w.op = "react" /\ w.ans \in Memo
                       /\ x.ans = None /\ UNCHANGED <<srv, blind>>
                BY <2>2, <2>4, <3>1, <3>2, <3>8, Specials DEF DetailWrite, Unserved
            <3>9. CASE /\ w.pc = "get" /\ x.pc = "got" /\ w.op = "react"
                       /\ x.ans = (IF srv = None THEN Gone ELSE srv) /\ UNCHANGED <<srv, blind>>
                BY <2>2, <2>4, <3>1, <3>2, <3>9, Specials DEF DetailWrite, Unserved
            <3> QED BY <2>1, <3>3, <3>4, <3>5, <3>6, <3>7, <3>8, <3>9 DEF WriteStep, w
        <2>7. ASSUME NEW t \in Slots, t # s PROVE DetailWrite(write[t])'
            BY <2>4, <2>5, <2>7 DEF DetailWrite, Unserved
        <2> QED BY <2>2, <2>3, <2>4, <2>5, <2>6, <2>7 DEF Writing
    <1>6. CASE \E s, d, c : EndStep(s, d, c)
        <2>1. PICK s, d, c : EndStep(s, d, c)
            BY <1>6
        <2> DEFINE w == write[s]
        <2>2. /\ s \in Slots /\ write' = [write EXCEPT ![s] = NoWrite] /\ d \in Entries /\ w \in Writes /\ Fits(w)
              /\ ~blind /\ "detail" \notin apart /\ srv' = srv /\ entry'["detail"] = d /\ d.ans # Absent
            BY <1>w, <2>1 DEF EndStep, Finishes, TypeInv, Copies
        <2>3. w.pc \in {"served", "got"}
            BY <2>1 DEF EndStep
        <2>4. /\ \A t \in Slots : t # s => write[t].pc = "idle"
              /\ DetailWrite(w)
            BY <2>2, <2>3 DEF DetailInv
        <2>5. \A t \in Slots : write'[t].pc = "idle"
            BY <1>w, <2>2, <2>4, IdleFields
        <2>6. DetailInStep'
            <3> SUFFICES d.data \in {None, srv} /\ (d.fetch = "served" /\ d.ans \in Memo => d.ans = srv)
                BY <2>2, DetailView, Specials DEF DetailInStep, InStep, View
            <3> DEFINE old == entry["detail"]
            <3>1. CASE /\ w.pc = "served" /\ w.op = "update" /\ w.ans \in {Failed, Gone}
                       /\ d.fetch = old.fetch /\ d.ans = old.ans
                       /\ d.data = (IF w.prev = None THEN old.data ELSE w.prev)
                BY <2>4, <3>1 DEF DetailWrite, Unserved, Fetching
            <3>2. CASE /\ w.pc \in {"served", "got"} /\ w.op # "update" /\ w.ans \in {Failed, Gone} /\ d = old
                <4>1. w.pc # "got"
                    BY <2>4, <3>2, Specials DEF DetailWrite
                <4>2. DetailInStep
                    BY <2>4, <3>2, <4>1 DEF DetailWrite, Unserved
                <4> QED BY <3>2, <4>2, DetailView, Specials DEF DetailInStep, InStep
            <3>3. CASE /\ w.pc = "served" /\ w.op = "update" /\ w.ans \in Memo
                       /\ d.data = w.ans /\ d.fetch = old.fetch
                BY <2>4, <3>3 DEF DetailWrite, Fetching
            <3>4. CASE d = Removed
                BY <3>4, RemovedFields
            <3>5. CASE /\ w.pc = "got" /\ d.data = w.ans /\ d.fetch = old.fetch /\ ~Fetching("detail")
                BY <2>4, <3>5 DEF DetailWrite, Fetching
            <3> QED BY <2>1, <3>1, <3>2, <3>3, <3>4, <3>5 DEF EndStep
        <2>7. \A t \in Slots : DetailWrite(write[t])'
            BY <2>5 DEF DetailWrite, Unserved
        <2> QED BY <2>5, <2>6, <2>7
    <1> QED BY <1>1, <1>2, <1>3, <1>4, <1>5, <1>6, StepKinds

(* ---- the page that lists the memo ---- *)
CardInStep == InStep("card") /\ (entry["card"].stale \/ Shows("card"))

\* Writes are announced by the server's answer, so the others are not touched by a step of one.
LEMMA PendingSame ==
    ASSUME TypeInv, NEW s \in Slots, NEW x, write' = [write EXCEPT ![s] = x], srv' = srv,
           Announced(x) <=> Announced(write[s])
    PROVE  Pending' <=> Pending
    <1>1. \A r \in Slots : Announced(write'[r]) <=> Announced(write[r])
        BY DEF TypeInv
    <1>2. \A r \in Slots : Announced(write[r])' <=> Announced(write'[r])
        BY DEF Announced
    <1> QED BY <1>1, <1>2 DEF Pending

LEMMA ListInStep ==
    ASSUME TypeInv, NEW e, CopyStep("card", e), CardInStep
    PROVE  CardInStep'
    <1> DEFINE f == entry["card"]
    <1>1. /\ entry'["card"] = e /\ e \in Entries /\ f \in Entries
          /\ View("card")' = View("card")
        BY DEF CopyStep, Becomes, TypeInv, Copies, View
    <1>2. /\ f.fetch = "served" /\ f.ans \in Memo \cup {Absent} => f.ans = View("card")
          /\ f.stale \/ f.data \in {None, View("card")}
        BY DEF CardInStep, InStep, Shows
    <1>3. e.fetch = "served" /\ e.ans \in Memo \cup {Absent} => e.ans = View("card")
        BY <1>1, <1>2, Specials DEF CopyStep
    <1>4. e.stale \/ e.data \in {None, View("card")}
        BY <1>1, <1>2, Specials DEF CopyStep
    <1> QED BY <1>1, <1>3, <1>4 DEF CardInStep, InStep, Shows

LEMMA CardStep == ASSUME TypeInv, AnswerInv, CardInv, [Next]_vars PROVE CardInv'
    <1> SUFFICES ASSUME kind' = "memo", ~blind', "card" \notin apart', ~Pending'
                 PROVE  CardInStep'
        BY DEF CardInv, CardInStep
    <1>w. write \in [Slots -> Writes] /\ entry \in [Copies -> Entries] /\ srv \in Memo \cup {None}
        BY DEF TypeInv
    <1>s. entry'["card"] = entry["card"] /\ srv' = srv /\ kind' = kind /\ CardInStep => CardInStep'
        BY DEF CardInStep, InStep, Shows, View
    <1>1. CASE UNCHANGED vars
        <2>1. Pending' <=> Pending
            BY <1>1 DEF vars, Pending, Announced
        <2>2. CardInStep
            BY <1>1, <2>1 DEF vars, CardInv, CardInStep
        <2> QED BY <1>1, <1>s, <2>2 DEF vars
    <1>2. CASE \E t \in Tasks : OtherWrite(t)
        BY <1>2, OtherFields
    <1>3. CASE UserWrite
        <2>1. PICK s, w : Mutates(s, w) \/ (Begins(s, w) /\ w.op # "update" /\ entry' = entry)
            BY <1>3 DEF UserWrite
        <2>2. Begins(s, w) /\ entry'["card"] = entry["card"]
            BY <2>1 DEF Mutates
        <2>3. Pending' <=> Pending
            BY <2>2, PendingSame DEF Begins, Announced
        <2>4. ~blind /\ "card" \notin apart /\ srv' = srv /\ kind' = kind
            BY <2>2 DEF Begins
        <2>5. CardInStep
            BY <2>3, <2>4 DEF CardInv, CardInStep
        <2> QED BY <1>s, <2>2, <2>4, <2>5
    <1>4. CASE \E q, e : CopyStep(q, e)
        <2>1. PICK q, e : CopyStep(q, e)
            BY <1>4
        <2>2. /\ q \in Copies /\ UNCHANGED <<srv, write, blind, kind>> /\ "card" \notin apart
              /\ entry' = [entry EXCEPT ![q] = e]
            BY <2>1 DEF CopyStep, Becomes, Copies
        <2>3. Pending' <=> Pending
            BY <2>2 DEF Pending, Announced
        <2>4. CardInStep
            BY <2>2, <2>3 DEF CardInv, CardInStep
        <2>5. q = "detail" => entry'["card"] = entry["card"]
            BY <1>w, <2>2 DEF Copies
        <2> QED BY <1>s, <2>1, <2>2, <2>4, <2>5, ListInStep DEF Copies
    <1>5. CASE \E s, x : WriteStep(s, x)
        <2>1. PICK s, x : WriteStep(s, x)
            BY <1>5
        <2> DEFINE w == write[s]
        <2>2. /\ s \in Slots /\ write' = [write EXCEPT ![s] = x] /\ x \in Writes /\ Fits(x)
              /\ x.op = w.op /\ UNCHANGED <<kind, entry, apart>> /\ w \in Writes /\ Fits(w)
            BY <1>w, <2>1 DEF WriteStep, Advances, TypeInv
        <2>3. ~blind
            BY <2>1 DEF WriteStep
        <2>4. write'[s] = x
            BY <1>w, <2>2
        <2>5. ~Announced(x)'
            BY <2>2, <2>4 DEF Pending
        <2>6. srv' = srv
            <3> HIDE DEF w
            <3>1. CASE w.pc = "sent" /\ x.pc = "served" /\ w.op = "delete" /\ srv' = None /\ x.ans = None
                BY <2>2, <2>5, <3>1 DEF Announced
            <3>2. CASE w.pc = "sent" /\ x.pc = "served" /\ w.op # "delete" /\ srv' \in Memo /\ x.ans = srv'
                BY <2>2, <2>5, <3>2, Specials DEF Announced
            <3> QED BY <2>1, <3>1, <3>2 DEF WriteStep, w
        <2>7. ~Announced(x)
            BY <2>5, <2>6 DEF Announced
        <2>8. ~Announced(w)
            <3> HIDE DEF w
            <3>1. CASE w.pc = "sent"
                BY <3>1 DEF Announced
            <3>2. CASE w.pc = "served" /\ w.ans \in {Failed, Gone}
                BY <3>2, Specials DEF Announced
            <3>3. CASE w.op = "react" /\ x.pc \in {"get", "got"}
                BY <2>2, <2>7, <3>3, <1>w, Specials DEF Announced
            <3>4. w.pc = "sent" \/ (w.pc = "served" /\ w.ans \in {Failed, Gone}) \/ (w.op = "react" /\ x.pc \in {"get", "got"})
                BY <2>1 DEF WriteStep, w
            <3> QED BY <3>1, <3>2, <3>3, <3>4
        <2>9. Pending' <=> Pending
            BY <2>2, <2>6, <2>7, <2>8, PendingSame
        <2>10. CardInStep
            BY <2>2, <2>3, <2>9 DEF CardInv, CardInStep
        <2> QED BY <1>s, <2>2, <2>6, <2>10
    <1>6. CASE \E s, d, c : EndStep(s, d, c)
        <2>1. PICK s, d, c : EndStep(s, d, c)
            BY <1>6
        <2> DEFINE w == write[s]
        <2>2. /\ s \in Slots /\ write' = [write EXCEPT ![s] = NoWrite] /\ c \in Entries /\ w \in Writes
              /\ ~blind /\ "card" \notin apart /\ srv' = srv /\ kind' = kind /\ entry'["card"] = c
            BY <1>w, <2>1 DEF EndStep, Finishes, Copies
        <2>3. CASE Refreshes(c)
            BY <2>2, <2>3 DEF Refreshes, CardInStep, InStep
        <2>4. CASE w.ans \in {Failed, Gone} /\ c = entry["card"]
            <3>1. w.pc = "got" => w.ans # Failed /\ srv = None
                BY <2>2, <2>4 DEF AnswerInv
            <3>a. w.pc \in {"served", "got"}
                BY <2>1 DEF EndStep
            <3>2. ~Announced(w)
                BY <2>4, <3>1, <3>a, Specials DEF Announced
            <3>3. ~Announced(NoWrite)
                BY IdleFields DEF Announced
            <3>4. Pending' <=> Pending
                BY <2>2, <3>2, <3>3, PendingSame
            <3>5. CardInStep
                BY <2>2, <3>4 DEF CardInv, CardInStep
            <3> QED BY <1>s, <2>2, <2>4, <3>5
        <2> QED BY <2>1, <2>3, <2>4 DEF EndStep
    <1> QED BY <1>1, <1>2, <1>3, <1>4, <1>5, <1>6, StepKinds

(* ---- the theorems ---- *)
LEMMA QueryStart == Init => QueryInv
    <1> SUFFICES ASSUME Init PROVE QueryInv
        OBVIOUS
    <1> DEFINE f == Fetch(Removed)
    <1>1. /\ f.data = None /\ f.fetch = "sent" /\ f.stale = FALSE
        BY RemovedFields, EntryFields
    <1> HIDE DEF f
    <1>2. entry["card"] = f /\ entry["detail"] = Removed
        BY DEF Init, Copies, f
    <1>3. \A s \in Slots : write[s].pc = "idle" /\ write[s].ans = None
        BY IdleFields DEF Init
    <1>4. AnswerInv
        BY <1>3, Specials DEF AnswerInv
    <1>5. DetailInv
        BY <1>2, <1>3, RemovedFields DEF DetailInv, DetailWrite, DetailInStep, InStep, Unserved
    <1>6. CardInv
        BY <1>1, <1>2 DEF CardInv, InStep, Shows
    <1> QED BY <1>4, <1>5, <1>6, TypeStart DEF QueryInv

LEMMA QueryStep == QueryInv /\ [Next]_vars => QueryInv'
    BY TypeStep, AnswerStep, DetailStep, CardStep DEF QueryInv

\* onSuccess, onError and the refetches of React Query preserve QueryInv.
THEOREM QueriesInStep == Spec => []QueryInv
    BY QueryStart, QueryStep, PTL DEF Spec

\* The optimistic update of useUpdateMemo, whatever is refused, repeated or lost around it:
\* with one write at a time, the memo's page at rest shows what the server has.
THEOREM DetailShowsServer == Spec => []DetailTrue
    <1>1. QueryInv => DetailTrue
        BY DEF QueryInv, DetailInv, DetailTrue, AtRest, DetailInStep
    <1> QED BY <1>1, QueriesInStep, PTL

\* The invalidations of useMemoQueries, whatever writes overlap: a list at rest and fresh
\* shows the memo as the server has it.
THEOREM CardShowsServer == Spec => []CardTrue
    <1>1. QueryInv => CardTrue
        <2> SUFFICES ASSUME QueryInv, AtRest, kind = "memo", ~blind, "card" \notin apart, ~entry["card"].stale
                     PROVE  entry["card"].data \in {None, View("card")}
            BY DEF CardTrue
        <2>1. ~Pending
            BY DEF AtRest, Writing, Pending, Announced
        <2> QED BY <2>1 DEF QueryInv, CardInv, Shows
    <1> QED BY <1>1, QueriesInStep, PTL
=============================================================================
