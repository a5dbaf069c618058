------------------------------- MODULE Settings -------------------------------
(* The parts of the web client that work on a copy of their own of what the    *)
(* server has: the tables of the settings page, the shortcuts, the inbox and   *)
(* the attachments, with their confirmation and creation dialogs; and the      *)
(* forms of the settings page.  One section is on display at a time.  Several  *)
(* handlers may be waiting for an answer, requests are served in any order,    *)
(* any of them may fail or lose its answer, and other clients write too.       *)
EXTENDS Naturals, Sequences, FiniteSets

CONSTANTS None,      \* no answer, no row
          MaxRows,   \* bound: rows ever in a table
          MaxSteps   \* bound: actions of the user and of other clients, requests failed

ASSUME SettingsAssumption == MaxRows \in Nat \ {0, 1} /\ MaxSteps \in Nat

VARIABLES sect,      \* the section on display
          rows,      \* a table: what the server has, in the order it lists
          view,      \* what the client shows
          last,      \* the last row created
          page,      \* attachments: the page token, 0 when there is no next page
          stale,     \* members, inbox: the query may be fetched again
          dialog,    \* the dialog that is open
          set,       \* a form: what the server has
          ctx,       \* the copy in InstanceContext or AuthContext
          form,      \* the copy being edited
          own,       \* the copy of the profile dialog; for the preferences, the theme in effect
          job,       \* the handlers under way
          nstep,
          touched,   \* the fields edited and not saved since they were last taken from ctx
          said,      \* the rows the user was told are deleted
          raced,     \* two handlers were under way at a time
          missed,    \* members, inbox: a change joined a first fetch served before it
          blind      \* another client wrote, a request failed or an answer was lost

vars  == <<sect, rows, last, view, page, stale, dialog, set, ctx, form, own, job, nstep,
           touched, said, raced, missed, blind>>
table == <<rows, last, view, page, stale, missed, dialog, said>>
forms == <<set, ctx, form, own, touched>>

Queries  == {"members", "inbox"}            \* kept by React Query
Tables   == Queries \cup {"webhooks", "tokens", "idps", "shortcuts", "attachments"}
Whole    == {"instance", "memo", "storage"} \* written whole
Forms    == Whole \cup {"account", "preferences"}
Handlers == {"load", "confirm", "submit", "row"}
Ids      == 1..MaxRows
Rows     == [id : Ids, marked : BOOLEAN]    \* archived, edited, or attached to a memo
Fields   == {"a", "b"}                      \* a: profile, theme, ...; b: style, locale, ...
Values   == 0..2                            \* 0: the empty value of a setting not loaded
Values2  == [Fields -> Values]
Empty    == [f \in Fields |-> 0]

Idle     == [pc |-> "idle", mode |-> "none", ids |-> {}, left |-> {}, seen |-> <<>>, from |-> 0,
             value |-> Empty, mask |-> {}, ans |-> None, retried |-> FALSE]
NoDialog == [kind |-> "none", mode |-> "none", id |-> None]
Modes    == {"none", "first", "delete", "archive", "restore", "create", "edit", "more",
             "save", "silent", "menu"}

RowIds(s) == {s[i].id : i \in DOMAIN s}
IsList(s) == DOMAIN s = 1..Len(s) /\ \A i \in DOMAIN s : s[i] \in Rows

TypeOK ==
    /\ sect \in Tables \cup Forms
    /\ IsList(rows) /\ Cardinality(RowIds(rows)) = Len(rows) /\ IsList(view)
    /\ page \in 0..MaxRows /\ last \in Ids /\ stale \in BOOLEAN
    /\ dialog.kind \in {"none", "confirm", "submit"} /\ dialog.mode \in Modes
    /\ dialog.id \in Ids \cup {None}
    /\ set \in Values2 /\ ctx \in Values2 /\ form \in Values2 /\ own \in Values
    /\ \A h \in Handlers :
         /\ job[h].pc \in {"idle", "call", "done", "refused", "list", "listed", "unlisted", "await"}
         /\ job[h].mode \in Modes /\ job[h].ids \subseteq Ids /\ job[h].left \subseteq job[h].ids
         /\ IsList(job[h].seen) /\ job[h].value \in Values2 /\ job[h].mask \subseteq Fields
    /\ nstep \in 0..MaxSteps /\ touched \subseteq Fields /\ said \subseteq Ids
    /\ raced \in BOOLEAN /\ missed \in BOOLEAN /\ blind \in BOOLEAN

Free(h)     == job[h].pc = "idle"
At(h, pc)   == job[h].pc = pc
AtRest      == \A h \in Handlers : Free(h)
Step        == nstep < MaxSteps /\ nstep' = nstep + 1
Call(mode)  == [Idle EXCEPT !.pc = "call", !.mode = mode]
List(j)     == [j EXCEPT !.pc = "list"]
Goto(h, pc) == job' = [job EXCEPT ![h].pc = pc]
End(h)      == job' = [job EXCEPT ![h] = Idle]

\* Handler h begins, while others may be under way.
Begin(h, j) ==
    /\ Free(h) /\ Step
    /\ job' = [job EXCEPT ![h] = j]
    /\ raced' = (raced \/ \E i \in Handlers \ {h} : ~Free(i))

(* ---- the server ---- *)
\* A list without the row i: the rows of a list have ids of their own, so that it is one at most.
Place(s, i)   == CHOOSE n \in DOMAIN s : s[n].id = i
Without(s, i) == IF i \notin RowIds(s) THEN s
                 ELSE SubSeq(s, 1, Place(s, i) - 1) \o SubSeq(s, Place(s, i) + 1, Len(s))
Mark(s, i, m) == [n \in DOMAIN s |-> IF s[n].id = i THEN [s[n] EXCEPT !.marked = m] ELSE s[n]]

\* Deletions, one request for each row; a row that is gone is NotFound.
ServeDelete(h, i) ==
    /\ i \in job[h].left
    /\ rows' = Without(rows, i)
    /\ job' = [job EXCEPT ![h].left = @ \ {i},
                          ![h].pc = IF @ # "call" THEN @ ELSE IF i \notin RowIds(rows) THEN "refused"
                                    ELSE IF job[h].left = {i} THEN "done" ELSE "call"]
    /\ UNCHANGED <<sect, last, view, page, stale, missed, dialog, said, forms, nstep, raced, blind>>

\* A member or a notification is archived, a member restored, an identity provider updated.  The
\* update of a member names no member and is refused.
Marks(h) == job[h].mode \in {"archive", "restore"} \/ (job[h].mode = "edit" /\ sect # "shortcuts")

ServeMark(h) ==
    LET i == CHOOSE i \in Ids : i \in job[h].ids
        ok == job[h].ids \subseteq RowIds(rows) /\ ~(job[h].mode = "edit" /\ sect = "members") IN
    /\ At(h, "call") /\ Marks(h)
    /\ rows' = IF ok THEN Mark(rows, i, job[h].mode # "restore") ELSE rows
    /\ Goto(h, IF ok THEN "done" ELSE "refused")
    /\ UNCHANGED <<sect, last, view, page, stale, missed, dialog, said, forms, nstep, raced, blind>>

\* The shortcut dialog took its name when it was mounted, without a shortcut: editing creates one.
Creates(h) == job[h].mode = "create" \/ (job[h].mode = "edit" /\ sect = "shortcuts")

ServeCreate(h) ==
    /\ At(h, "call") /\ Creates(h)
    /\ last' = last + 1
    /\ rows' = Append(rows, [id |-> last', marked |-> FALSE])
    /\ Goto(h, "done")
    /\ UNCHANGED <<sect, view, page, stale, missed, dialog, said, forms, nstep, raced, blind>>

\* Whole settings are stored as sent, the others by their mask.  The user menu names a setting
\* that does not exist, and an empty mask is refused.
ServeSave(h) ==
    LET j == job[h]  ok == j.mode # "menu" /\ j.mask # {} IN
    /\ At(h, "call") /\ j.mode \in {"save", "silent", "menu"}
    /\ set' = IF ok THEN [f \in Fields |-> IF f \in j.mask THEN j.value[f] ELSE set[f]] ELSE set
    /\ Goto(h, IF ok THEN "done" ELSE "refused")
    /\ blind' = (blind \/ ~ok)
    /\ UNCHANGED <<sect, table, ctx, form, own, touched, nstep, raced>>

\* Attachments are listed by pages of one, whose token is the offset of the next.
PageFrom(n) == SubSeq(rows, n + 1, IF Len(rows) > n THEN n + 1 ELSE n)

ServeList(h) ==
    /\ At(h, "list")
    /\ job' = [job EXCEPT ![h].pc = "listed",
                          ![h].ans = IF sect \in Forms THEN set
                                     ELSE IF sect # "attachments" THEN rows
                                     ELSE PageFrom(job[h].from)]
    /\ UNCHANGED <<sect, table, forms, nstep, raced, blind>>

\* A request fails, or its answer is lost.
Lose(h) ==
    /\ job[h].pc \in {"call", "done", "list"} /\ Step
    /\ job' = [job EXCEPT ![h].pc = IF @ = "list" THEN "unlisted" ELSE "refused",
                          ![h].left = IF @ = {} THEN {} ELSE @ \ {CHOOSE i \in @ : TRUE}]
    /\ blind' = TRUE
    /\ UNCHANGED <<sect, table, forms, raced>>

\* Another client writes.
OtherDelete(i) ==
    /\ Step /\ i \in RowIds(rows) /\ rows' = Without(rows, i) /\ blind' = TRUE
    /\ UNCHANGED <<sect, last, view, page, stale, missed, dialog, said, forms, job, raced>>

OtherMark(i) ==
    /\ Step /\ i \in RowIds(rows) /\ rows' = Mark(rows, i, TRUE) /\ rows' # rows /\ blind' = TRUE
    /\ UNCHANGED <<sect, last, view, page, stale, missed, dialog, said, forms, job, raced>>

OtherSave(f, v) ==
    /\ Step /\ sect \in Forms /\ v \notin {0, set[f]} /\ set' = [set EXCEPT ![f] = v] /\ blind' = TRUE
    /\ UNCHANGED <<sect, table, ctx, form, own, touched, job, raced>>

(* ---- loading ---- *)
\* refetch and invalidateQueries fetch in place of the fetch under way; but as long as no list has
\* ever arrived they join it, although it may have been served before the change they follow.
Joins      == ~Free("load") /\ job["load"].mode = "first"
Again(j)   == [Idle EXCEPT !.mode = IF j.mode = "first" THEN "first" ELSE "none"]
Refetch(j) == IF Joins THEN j ELSE [j EXCEPT !["load"] = List(Again(@))]
Misses     == missed' = (Joins /\ (missed \/ At("load", "listed")))

\* A list is shown; a page of attachments gives the token of the next one.
\* Mutant: the next page takes the place of the pages shown.
ShownOnly(h) == job[h].ans
Shown(h)     == IF job[h].mode = "more" THEN view \o job[h].ans ELSE job[h].ans

Token(h) == IF sect = "attachments" /\ job[h].ans # <<>> THEN job[h].from + 1 ELSE 0

\* The effects at mount, the fetch of a query, refetchSettings, the next page, and the list read
\* again once an attachment, a token or a shortcut was written.
Loaded(h) ==
    /\ At(h, "listed") /\ sect \in Tables
    /\ h \in {"load", "row"} \/ sect \in {"tokens", "shortcuts"}
    /\ view' = Shown(h) /\ page' = Token(h)
    /\ stale' = FALSE
    /\ End(h)
    /\ UNCHANGED <<sect, rows, last, missed, dialog, said, forms, nstep, raced, blind>>

\* The dialog that was confirmed, or opened again since, closes once the list is there.
ReloadedClosing(h) ==
    /\ At(h, "listed") /\ h # "load"
    /\ \/ sect = "webhooks" \/ sect = "idps"
       \/ sect = "attachments" /\ h = "confirm"
    /\ view' = Shown(h) /\ page' = Token(h)
    /\ dialog' = IF dialog.kind = h THEN NoDialog ELSE dialog
    /\ End(h)
    /\ UNCHANGED <<sect, rows, last, stale, missed, said, forms, nstep, raced, blind>>

\* A list that fails leaves what is shown; handleRefetch catches the error, so that its dialog
\* closes, and a query tries again by itself once.
LoadFailed(h) ==
    /\ At(h, "unlisted") /\ sect \in Tables
    /\ stale' = (sect \in Queries)
    /\ dialog' = IF sect = "attachments" /\ h = "confirm" THEN NoDialog ELSE dialog
    /\ job' = [job EXCEPT ![h] = IF sect \in Queries /\ ~@.retried THEN [List(@) EXCEPT !.retried = TRUE] ELSE Again(@)]
    /\ UNCHANGED <<sect, rows, last, view, page, missed, said, forms, nstep, raced, blind>>

\* staleTime passes; then the user returns to the tab.
Age ==
    /\ sect \in Queries /\ AtRest /\ ~stale /\ stale' = TRUE
    /\ UNCHANGED <<sect, rows, last, view, page, missed, dialog, said, forms, job, nstep, raced, blind>>

Focus ==
    /\ sect \in Queries /\ stale /\ Free("load") /\ job' = Refetch(job)
    /\ Misses
    /\ UNCHANGED <<sect, rows, last, view, page, stale, dialog, said, forms, nstep, raced, blind>>

(* ---- the dialogs ---- *)
Visible(i, m) == \E n \in DOMAIN view : view[n] = [id |-> i, marked |-> m]

\* What the rows offer: members are archived, and deleted once archived; the others deleted.
CanAsk(mode, i) ==
    \/ mode = "delete" /\ sect \in {"webhooks", "tokens", "idps", "shortcuts"} /\ i \in RowIds(view)
    \/ mode = "delete" /\ sect = "members" /\ Visible(i, TRUE)
    \/ mode = "archive" /\ sect = "members" /\ Visible(i, FALSE)
    \/ mode = "edit" /\ sect \in {"idps", "shortcuts", "members"} /\ i \in RowIds(view)

Open(mode, i) ==
    /\ Step /\ dialog = NoDialog /\ CanAsk(mode, i)
    /\ dialog' = [kind |-> IF mode = "edit" THEN "submit" ELSE "confirm", mode |-> mode, id |-> i]
    /\ UNCHANGED <<sect, rows, last, view, page, stale, missed, said, forms, job, raced, blind>>

OpenCreate ==
    /\ Step /\ dialog = NoDialog /\ sect \in Tables \ {"inbox", "attachments"}
    /\ dialog' = [kind |-> "submit", mode |-> "create", id |-> None]
    /\ UNCHANGED <<sect, rows, last, view, page, stale, missed, said, forms, job, raced, blind>>

\* While it is loading a confirmation cannot be closed.
Background ==
    \/ sect = "members" /\ job["confirm"].mode = "delete"
    \/ sect = "shortcuts" /\ job["confirm"].pc \in {"list", "listed", "unlisted"}

Cancel ==
    /\ Step /\ dialog # NoDialog /\ (dialog.kind = "confirm" => Free("confirm") \/ Background)
    /\ dialog' = NoDialog
    /\ UNCHANGED <<sect, rows, last, view, page, stale, missed, said, forms, job, raced, blind>>

\* ConfirmDialog.handleConfirm.
Confirm ==
    /\ dialog.kind = "confirm" /\ ~(sect = "members" /\ dialog.mode = "delete")
    /\ Begin("confirm", [Call(dialog.mode) EXCEPT !.ids = {dialog.id}, !.seen = view,
                           !.left = IF dialog.mode = "delete" THEN {dialog.id} ELSE {}])
    /\ UNCHANGED <<sect, table, forms, blind>>

\* MemberSection.confirmDeleteUser: mutate does not wait, so that the dialog closes and the user is
\* told before the server is asked.
ConfirmDeleteUser ==
    /\ dialog.kind = "confirm" /\ sect = "members" /\ dialog.mode = "delete"
    /\ Begin("confirm", [Call("delete") EXCEPT !.ids = {dialog.id}, !.left = {dialog.id}])
    /\ dialog' = NoDialog /\ said' = said \cup {dialog.id}
    /\ UNCHANGED <<sect, rows, last, view, page, stale, missed, forms, blind>>

\* handleDeleteUnusedAttachments: the unused ones shown, in parallel.
Unused == {view[n].id : n \in {n \in DOMAIN view : ~view[n].marked}}

DeleteUnused ==
    /\ sect = "attachments" /\ Unused # {} /\ Free("load")
    /\ Begin("confirm", [Call("delete") EXCEPT !.ids = Unused, !.left = Unused])
    /\ dialog' = [kind |-> "confirm", mode |-> "delete", id |-> None]
    /\ UNCHANGED <<sect, rows, last, view, page, stale, missed, said, forms, blind>>

Told(h) == said' = said \cup job[h].ids

\* WebhookSection filters the list it had when the dialog was confirmed, AccessTokenSection the
\* list it has now.
Deleted ==
    /\ At("confirm", "done") /\ sect \in {"webhooks", "tokens"}
    /\ view' = Without(IF sect = "webhooks" THEN job["confirm"].seen ELSE view, dialog.id)
    /\ dialog' = NoDialog /\ Told("confirm") /\ End("confirm")
    /\ UNCHANGED <<sect, rows, last, page, stale, missed, forms, nstep, raced, blind>>

\* refetchSettings does not wait for the settings it fetches.
ShortcutDeleted ==
    /\ At("confirm", "done") /\ sect = "shortcuts"
    /\ dialog' = NoDialog /\ Told("confirm")
    /\ job' = [job EXCEPT !["confirm"] = List(@)]
    /\ UNCHANGED <<sect, rows, last, view, page, stale, missed, forms, nstep, raced, blind>>

\* An error is caught: the list is read again, and the dialog closes, all the same.
ReloadAnyway ==
    /\ sect \in {"idps", "attachments"}
    /\ At("confirm", "done") \/ At("confirm", "refused")
    /\ job' = [job EXCEPT !["confirm"] = List(@)]
    /\ IF At("confirm", "done") THEN Told("confirm") ELSE UNCHANGED said
    /\ UNCHANGED <<sect, rows, last, view, page, stale, missed, dialog, forms, nstep, raced, blind>>

\* The dialog closes, but goes on loading until the members are there, and closes again then.
MemberArchived ==
    /\ At("confirm", "done") /\ sect = "members" /\ job["confirm"].mode = "archive"
    /\ dialog' = NoDialog
    /\ job' = [Refetch(job) EXCEPT !["confirm"].pc = "await"]
    /\ Misses
    /\ UNCHANGED <<sect, rows, last, view, page, stale, said, forms, nstep, raced, blind>>

ArchiveEnds ==
    /\ At("confirm", "await") /\ Free("load")
    /\ dialog' = IF dialog.kind = "confirm" THEN NoDialog ELSE dialog
    /\ End("confirm")
    /\ UNCHANGED <<sect, rows, last, view, page, stale, missed, said, forms, nstep, raced, blind>>

\* useDeleteUser's onSuccess.
UserDeleted ==
    /\ At("confirm", "done") /\ sect = "members" /\ job["confirm"].mode = "delete"
    /\ job' = [Refetch(job) EXCEPT !["confirm"] = Idle]
    /\ Misses
    /\ UNCHANGED <<sect, rows, last, view, page, stale, dialog, said, forms, nstep, raced, blind>>

\* The error is swallowed and the dialog stays, loading no more; a mutation is tried once more.
\* Mutant: the dialog closes and says what it says on success.
ConfirmFailedClosing ==
    /\ At("confirm", "refused") /\ sect \in {"webhooks", "tokens", "shortcuts", "members"}
    /\ dialog' = NoDialog /\ Told("confirm") /\ End("confirm")
    /\ UNCHANGED <<sect, rows, last, view, page, stale, missed, forms, nstep, raced, blind>>
ConfirmFailed ==
    LET j == job["confirm"] IN
    /\ At("confirm", "refused") /\ sect \in {"webhooks", "tokens", "shortcuts", "members"}
    /\ job' = [job EXCEPT !["confirm"] =
                 IF sect = "members" /\ j.mode = "delete" /\ ~j.retried
                 THEN [j EXCEPT !.pc = "call", !.retried = TRUE, !.left = j.ids] ELSE Idle]
    /\ UNCHANGED <<sect, table, forms, nstep, raced, blind>>

\* handleSaveBtnClick of the creation dialogs.
Submit ==
    /\ dialog.kind = "submit" /\ last < MaxRows
    /\ Begin("submit", [Call(dialog.mode) EXCEPT !.ids = IF dialog.id = None THEN {} ELSE {dialog.id}])
    /\ UNCHANGED <<sect, table, forms, blind>>

\* onSuccess is not waited for; the dialog of identity providers closes after an error too.
Submitted ==
    /\ At("submit", "done") \/ (At("submit", "refused") /\ sect = "idps")
    /\ sect \in Tables
    /\ dialog' = IF dialog.kind = "submit" THEN NoDialog ELSE dialog
    /\ IF sect = "members"
       THEN job' = [Refetch(job) EXCEPT !["submit"] = Idle] /\ Misses
       ELSE job' = [job EXCEPT !["submit"] = List(@)] /\ UNCHANGED missed
    /\ UNCHANGED <<sect, rows, last, view, page, stale, said, forms, nstep, raced, blind>>

SubmitFailed ==
    /\ At("submit", "refused") /\ sect \in {"webhooks", "tokens", "shortcuts", "members"}
    /\ End("submit")
    /\ UNCHANGED <<sect, table, forms, nstep, raced, blind>>

(* ---- the buttons of a row ---- *)
\* A notification is archived or deleted, a member restored: without a confirmation.
RowButton(mode, i) ==
    /\ \/ sect = "inbox" /\ mode = "archive" /\ Visible(i, FALSE)
       \/ sect = "inbox" /\ mode = "delete" /\ i \in RowIds(view)
       \/ sect = "members" /\ mode = "restore" /\ Visible(i, TRUE)
    /\ Begin("row", [Call(mode) EXCEPT !.ids = {i}, !.left = IF mode = "delete" THEN {i} ELSE {}])
    /\ UNCHANGED <<sect, table, forms, blind>>

Restored ==
    /\ At("row", "done") /\ sect = "members"
    /\ job' = [Refetch(job) EXCEPT !["row"] = Idle]
    /\ Misses
    /\ UNCHANGED <<sect, rows, last, view, page, stale, dialog, said, forms, nstep, raced, blind>>

\* Nothing is fetched again after a change of a notification, and nothing shows an error.
RowDone ==
    /\ At("row", "refused") \/ (At("row", "done") /\ sect = "inbox")
    /\ sect \in Queries
    /\ End("row")
    /\ UNCHANGED <<sect, table, forms, nstep, raced, blind>>

\* handleLoadMore, with the token of the page shown last.
More ==
    /\ sect = "attachments" /\ page # 0 /\ dialog = NoDialog
    /\ Begin("row", [List(Idle) EXCEPT !.mode = "more", !.from = page])
    /\ UNCHANGED <<sect, table, forms, blind>>

(* ---- the forms ---- *)
\* What the effects do with a form when the context has new values c: InstanceSection takes the
\* profile, StorageSection everything, the others nothing.
\* Mutant: InstanceSection takes nothing.
SyncedNot(c) == IF sect = "storage" THEN c ELSE form
Synced(c)    == IF sect = "storage" THEN c
                ELSE IF sect = "instance" THEN [form EXCEPT !["a"] = c["a"]] ELSE form

\* useUserTheme and useUserLocale apply a setting that is not what it was.
InEffect(c) == IF sect = "preferences" /\ c["a"] # ctx["a"] THEN c["a"] ELSE own

TakeContext(c) ==
    /\ ctx' = c /\ form' = Synced(c) /\ own' = InEffect(c)

\* What the user sees of field f.
Local(f) == IF sect = "instance" /\ f = "a" THEN own ELSE form[f]

\* What is left unsaved by a save of the fields m of v.
Unsaved(v, m) == IF sect = "storage" THEN {} ELSE {f \in touched : f \notin m \/ Local(f) # v[f]}

\* A field edited in the section, or in the profile dialog.
Edit(f, v) ==
    /\ Step /\ sect \in Forms \ {"preferences"} /\ (sect = "instance" => f = "b") /\ v # form[f]
    /\ form' = [form EXCEPT ![f] = v]
    /\ touched' = touched \cup {f}
    /\ UNCHANGED <<sect, table, set, ctx, own, job, raced, blind>>

EditProfile(v) ==
    /\ Step /\ sect = "instance" /\ v # own
    /\ own' = v /\ touched' = touched \cup {"a"}
    /\ UNCHANGED <<sect, table, set, ctx, form, job, raced, blind>>

Saving(v, m) == [Call("save") EXCEPT !.value = v, !.mask = m]

\* The button is disabled while nothing differs from the context; the reactions, the upload limit
\* and the username must not be empty.
Save ==
    /\ sect \in Whole /\ form # ctx /\ (sect # "instance" => form["a"] # 0)
    /\ Begin("submit", Saving(form, Fields))
    /\ UNCHANGED <<sect, table, forms, blind>>

\* UpdateAccountDialog sends the fields that differ from the user of AuthContext, which no save
\* brings up to date: a field saved and then changed back is not sent.
Masked == {f \in Fields : form[f] # ctx[f]}

SaveAccount ==
    /\ sect = "account" /\ form["a"] # 0
    /\ Begin("submit", Saving(form, Masked))
    /\ UNCHANGED <<sect, table, forms, blind>>

\* UpdateCustomizedProfileDialog writes the settings of the context with its own profile.
SaveProfile ==
    /\ sect = "instance" /\ own # 0
    /\ Begin("row", Saving([ctx EXCEPT !["a"] = own], Fields))
    /\ UNCHANGED <<sect, table, forms, blind>>

\* A mutate() takes the observer from those before it, whose onSuccess is then not called.
Silenced == [g \in Handlers |-> IF job[g].mode = "save" THEN [job[g] EXCEPT !.mode = "silent"] ELSE job[g]]

\* PreferencesSection: the theme takes effect before it is saved.
Prefer(h, f, v) ==
    /\ sect = "preferences" /\ h \in {"submit", "row"} /\ v # 0 /\ v # ctx[f]
    /\ Free(h) /\ Step
    /\ job' = [Silenced EXCEPT ![h] = Saving([ctx EXCEPT ![f] = v], {f})]
    /\ raced' = (raced \/ \E i \in Handlers \ {h} : ~Free(i))
    /\ own' = IF f = "a" THEN v ELSE own
    /\ UNCHANGED <<sect, table, set, ctx, form, touched, blind>>

\* UserMenu offers every value, the one in effect too, and sends it under a name of its own.
PreferMenu(f, v) ==
    /\ sect = "preferences" /\ v # 0
    /\ Begin("submit", [Saving([ctx EXCEPT ![f] = v], {f}) EXCEPT !.mode = "menu"])
    /\ own' = IF f = "a" THEN v ELSE own
    /\ UNCHANGED <<sect, table, set, ctx, form, touched, blind>>

\* updateSetting puts what was sent into the context; the whole is then fetched, but for the
\* profile's.
Saved(h) ==
    LET j == job[h] IN
    /\ At(h, "done") /\ sect \in Whole
    /\ TakeContext(j.value) /\ touched' = Unsaved(j.value, Fields)
    /\ job' = [job EXCEPT ![h] = IF h = "submit" THEN List(@) ELSE Idle]
    /\ UNCHANGED <<sect, table, set, nstep, raced, blind>>

\* The user of AuthContext stays what it was; refetchSettings, in the onSuccess of the last mutate(),
\* reads the preferences again.
\* Mutant: it is forgotten.
RereadNot(h) == Idle
Reread(h)    == IF sect = "preferences" /\ job[h].mode # "silent" THEN List(job[h]) ELSE Idle

SavedFields(h) ==
    /\ At(h, "done") /\ sect \in {"account", "preferences"}
    /\ job' = [job EXCEPT ![h] = Reread(h)]
    /\ touched' = IF sect = "account" THEN Unsaved(job[h].value, job[h].mask) ELSE touched
    /\ UNCHANGED <<sect, table, set, ctx, form, own, nstep, raced, blind>>

\* fetchSetting.
Fetched(h) ==
    /\ At(h, "listed") /\ sect \in Forms
    /\ TakeContext(job[h].ans) /\ touched' = IF sect = "storage" THEN {} ELSE touched
    /\ End(h)
    /\ UNCHANGED <<sect, table, set, nstep, raced, blind>>

\* A mutation, of the account or of the preferences, is tried once more; then the error is shown,
\* and the form left as it is.
SaveFailed(h) ==
    /\ At(h, "refused") \/ At(h, "unlisted")
    /\ sect \in Forms
    /\ job' = [job EXCEPT ![h] =
                 IF At(h, "refused") /\ sect \in {"account", "preferences"} /\ @.mode # "menu" /\ ~@.retried
                 THEN [@ EXCEPT !.pc = "call", !.retried = TRUE] ELSE Idle]
    /\ UNCHANGED <<sect, table, forms, nstep, raced, blind>>

Init ==
    /\ sect \in Tables \cup Forms
    /\ rows = IF sect \in Tables THEN [i \in 1..2 |-> [id |-> i, marked |-> i = 1 /\ sect \in {"members", "attachments"}]]
              ELSE <<>>
    /\ last = 2 /\ view = <<>> /\ page = 0 /\ stale = FALSE /\ dialog = NoDialog
    /\ set = [f \in Fields |-> 1]
    /\ ctx = IF sect = "storage" THEN Empty ELSE set
    /\ form = ctx /\ own = 1
    /\ job = [h \in Handlers |->
                 IF h = "load" /\ sect \in Queries THEN List([Idle EXCEPT !.mode = "first"])
                 ELSE IF h = "load" /\ sect \in Tables \cup {"memo", "storage"} THEN List(Idle) ELSE Idle]
    /\ nstep = 0 /\ touched = {} /\ said = {} /\ raced = FALSE /\ missed = FALSE /\ blind = FALSE

\* What the server and the client do by themselves.
Progress ==
    \/ \E h \in Handlers :
         \/ ServeMark(h) \/ ServeCreate(h) \/ ServeSave(h) \/ ServeList(h)
         \/ Loaded(h) \/ LoadFailed(h) \/ ReloadedClosing(h)
         \/ Saved(h) \/ SavedFields(h) \/ Fetched(h) \/ SaveFailed(h)
         \/ \E i \in Ids : ServeDelete(h, i)
    \/ Deleted \/ ShortcutDeleted \/ ReloadAnyway \/ MemberArchived \/ ArchiveEnds \/ UserDeleted
    \/ ConfirmFailed \/ Submitted \/ SubmitFailed \/ Restored \/ RowDone

Choices ==
    \/ OpenCreate \/ Cancel \/ Confirm \/ ConfirmDeleteUser \/ DeleteUnused \/ Submit \/ More
    \/ Save \/ SaveAccount \/ SaveProfile
    \/ \E h \in Handlers : Lose(h)
    \/ \E i \in Ids : \/ OtherDelete(i) \/ OtherMark(i)
                      \/ \E mode \in Modes : Open(mode, i) \/ RowButton(mode, i)
    \/ \E v \in Values : \/ EditProfile(v)
                         \/ \E f \in Fields : \/ Edit(f, v) \/ OtherSave(f, v) \/ PreferMenu(f, v)
                                              \/ \E h \in Handlers : Prefer(h, f, v)

Next == Progress \/ Age \/ Focus \/ Choices

Spec == Init /\ [][Next]_vars

(* ---- properties ---- *)
\* With every answer received and no other client writing, a table at rest shows what the server
\* has (the attachments: the first pages of it, once each).  The members whatever handlers
\* overlapped, since a fetch takes the place of the one before, unless a change joined a first fetch
\* that had been served without it: then the list lacks the change until it is fetched again.  The
\* others when no two handlers overlapped; the inbox is not read again and is left out.
ViewTrue ==
    (AtRest /\ ~blind /\ sect \in Tables \ {"inbox"} /\ IF sect = "members" THEN ~missed ELSE ~raced)
        => IF sect # "attachments" THEN view = rows
           ELSE view = SubSeq(rows, 1, Len(view)) /\ (page = 0 => view = rows)

\* "Intentionally swallow errors so user can retry": a row that the user was told is deleted is
\* gone from the server, whatever failed; but for a member, who is told of before the server is
\* asked, when the deletion is under way or has failed.
SaidDeleted ==
    \A i \in said \cap RowIds(rows) : sect = "members" /\ (blind \/ ~Free("confirm"))

\* A handler changes what the user asked for and nothing else, with no other client and no failure:
\* whole settings are written, but a field never touched keeps its value, unless a storage setting
\* is saved before it was loaded or two saves overlap; and handleDeleteUnusedAttachments deletes
\* no attachment of a memo.
KeepsUntouched ==
    [][/\ \A f \in Fields : (sect \in Whole \cup {"account"} /\ ~blind' /\ ~raced' /\ set'[f] # set[f])
             => \E h \in Handlers : job[h].pc = "call" /\ f \in touched
       /\ \A n \in DOMAIN rows : (sect = "attachments" /\ rows[n].marked /\ ~blind')
             => rows[n].id \in RowIds(rows')]_vars

\* Once nothing is in flight, a form shows what the server has in every field without unsaved
\* changes, when no two handlers overlapped, no request failed and no other client wrote; and the
\* theme in effect ("Apply theme immediately for instant UI feedback") is the one the server keeps.
\* A field the account dialog did not send is unsaved, although the dialog says "update succeeded":
\* the one that was saved before and then changed back to what AuthContext still holds.
FormTrue ==
    (AtRest /\ ~blind /\ ~raced /\ sect \in Forms) =>
        IF sect = "preferences" THEN own = set["a"] /\ ctx = set
        ELSE \A f \in Fields : f \in touched \/ Local(f) = set[f]
=============================================================================
