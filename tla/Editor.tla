-------------------------------- MODULE Editor --------------------------------
(* The memo editors of a page of the web client: the one that writes a new     *)
(* memo or a comment ("new"), whose draft is kept in local storage, and the one *)
(* opened in place of a card to change a memo ("edit").  Both debounce their    *)
(* drafts through the same timer, both answer the same key, and a save is a     *)
(* sequence of requests during which the user goes on typing, leaves the page   *)
(* or reloads it, and other clients change the memo.                            *)
EXTENDS Naturals, FiniteSets

CONSTANTS Files,       \* local files
          Metas,       \* visibility, location and relations, each as in initialState or not
          Visibility,  \* the one of them whose change leaves the memo's update time alone
          None,        \* no draft to store, no timestamp, no memo read
          MaxTyped,    \* bound: texts typed, every one a text of its own
          MaxSteps     \* bound: changes in the editors, saves, requests failed, reloads, writes
                       \* of other clients

ASSUME EditorAssumption ==
    /\ MaxTyped \in Nat /\ MaxSteps \in Nat
    /\ None \notin {"new", "edit"} \X (0..(MaxTyped + 1))

VARIABLES kind,      \* what "new" writes: a "memo" or a "comment"
          ed,        \* the state of the editors (state/reducer.ts)
          job,       \* the save under way for each, outlived or not by its editor
          pending,   \* what the debounced cacheService.save will store
          draft,     \* local storage, under the key of "new"
          memo,      \* the memo "edit" changes, on the server
          posted,    \* the memos or comments created, by text
          linked,    \* the attachments a memo was given
          uploads,   \* the attachments created from each file
          ntyped, nstep,
          touched,   \* what the user changed in "edit" since the memo was loaded
          known,     \* the memo was loaded, and nothing the editor has not heard of has changed it since
          missed,    \* the draft of "new" was dropped by another editor or by an earlier save
          spoilt,    \* the texts whose draft a late timer, a reload or a lost answer left behind
          twice,     \* the texts brought back from a draft while or after they were posted
          fault      \* a request failed or the page was reloaded

vars == <<kind, ed, job, pending, draft, memo, posted, linked, uploads, ntyped, nstep,
          touched, known, missed, spoilt, twice, fault>>
server == <<memo, posted, linked, uploads>>
ghosts == <<touched, known, missed, spoilt, twice, fault>>

Editors     == {"new", "edit"}
Blank       == 0
Texts       == 1..MaxTyped
Loaded0     == MaxTyped + 1                   \* the text the memo has at first
AllTexts    == 0..(MaxTyped + 1)
Attachments == Files \X (0..MaxSteps)
Times       == 0..MaxSteps
Step        == nstep < MaxSteps /\ nstep' = nstep + 1
Parts       == {"content", "metas", "atts"}

Closed == [open |-> FALSE, content |-> Blank, metas |-> {}, atts |-> {}, files |-> {},
           time |-> None, loading |-> FALSE, saving |-> FALSE]
NoJob  == [pc |-> "idle", live |-> FALSE, state |-> Closed, new |-> {}, prev |-> None]
Memos  == [content : AllTexts, metas : SUBSET Metas, atts : SUBSET Attachments, time : Times]
States == [open : BOOLEAN, content : AllTexts, metas : SUBSET Metas, atts : SUBSET Attachments,
           files : SUBSET Files, time : Times \cup {None},
           loading : BOOLEAN, saving : BOOLEAN]

TypeOK ==
    /\ kind \in {"memo", "comment"}
    /\ \A e \in Editors :
         /\ ed[e] \in States /\ job[e].state \in States
         /\ job[e].pc \in {"idle", "upload", "get", "put", "answered", "settling"}
         /\ job[e].live \in BOOLEAN /\ job[e].new \subseteq Attachments
         /\ job[e].prev \in Memos \cup {None}
    /\ pending \in {None} \cup (Editors \X AllTexts)
    /\ draft \in AllTexts /\ memo \in Memos
    /\ posted \in [Texts \cup {Blank} -> 0..MaxSteps] /\ linked \subseteq Attachments
    /\ uploads \in [Files -> 0..MaxSteps]
    /\ ntyped \in 0..MaxTyped /\ nstep \in 0..MaxSteps
    /\ touched \subseteq Parts /\ spoilt \cup twice \subseteq AllTexts
    /\ known \in BOOLEAN /\ missed \in BOOLEAN /\ fault \in BOOLEAN

(* ---- drafts ---- *)
\* cacheService.save, one debounced function for every editor: a call takes the place of the
\* call that waits.  What "edit" has stored goes under a key nothing reads: its text is left out.
AutoSave(e, text) ==
    /\ pending' = <<e, IF e = "new" THEN text ELSE Blank>>
    /\ missed' = IF e = "new" THEN FALSE
                 ELSE missed \/ (pending # None /\ pending[1] = "new" /\ ed["new"].open)

\* A blank text removes the draft.
\* Mutant: it is not stored.
StoreSome(text) == IF text = Blank THEN draft ELSE text
Store(text)     == text

\* Half a second later.
Fire ==
    /\ pending # None
    /\ pending' = None
    /\ draft' = IF pending[1] = "new" THEN Store(pending[2]) ELSE draft
    /\ UNCHANGED <<kind, ed, job, server, ntyped, nstep, ghosts>>

\* cacheService.clear leaves the timer running.
Clear == Blank

(* ---- opening and closing ---- *)
\* A save outlives its editor: the answers come, and change nothing but the draft.
Abandon(e) == [job EXCEPT ![e] = IF @.pc = "idle" THEN NoJob ELSE [@ EXCEPT !.live = FALSE]]

\* useMemoInit and useAutoSave at mount.
OpenNew ==
    /\ ~ed["new"].open
    /\ ed' = [ed EXCEPT !["new"] = [Closed EXCEPT !.open = TRUE, !.content = draft]]
    /\ AutoSave("new", draft)
    /\ twice' = IF draft # Blank /\ (posted[draft] > 0 \/ (job["new"].pc # "idle" /\ job["new"].state.content = draft))
                THEN twice \cup {draft} ELSE twice
    /\ UNCHANGED <<kind, job, draft, server, ntyped, nstep, touched, known, spoilt, fault>>

OpenEdit ==
    /\ ~ed["edit"].open
    /\ ed' = [ed EXCEPT !["edit"] = [Closed EXCEPT !.open = TRUE, !.loading = TRUE]]
    /\ AutoSave("edit", Blank)
    /\ touched' = {} /\ known' = FALSE
    /\ UNCHANGED <<kind, job, draft, server, ntyped, nstep, spoilt, twice, fault>>

\* INIT_MEMO takes the place of what was typed meanwhile; files added meanwhile stay.
\* Mutant: it loads the content only.
LoadedContent(d, m) == [d EXCEPT !.loading = FALSE, !.content = m.content, !.time = m.time]
LoadedState(d, m)   == [d EXCEPT !.loading = FALSE, !.content = m.content, !.metas = m.metas,
                                 !.atts = m.atts, !.time = m.time]

Loaded ==
    /\ ed["edit"].loading
    /\ ed' = [ed EXCEPT !["edit"] = LoadedState(@, memo)]
    /\ AutoSave("edit", memo.content)
    /\ touched' = touched \ {"content", "metas"} /\ known' = (job["edit"].pc = "idle")
    /\ UNCHANGED <<kind, job, draft, server, ntyped, nstep, spoilt, twice, fault>>

\* A load that fails is logged: the editor is left empty, and may be saved.
LoadFailed ==
    /\ ed["edit"].loading /\ Step
    /\ ed' = [ed EXCEPT !["edit"].loading = FALSE]
    /\ fault' = TRUE
    /\ UNCHANGED <<kind, job, pending, draft, server, ntyped, touched, known, missed, spoilt, twice>>

\* The user cancels, or leaves the page.
Close(e) ==
    /\ ed[e].open
    /\ ed' = [ed EXCEPT ![e] = Closed]
    /\ job' = Abandon(e)
    /\ UNCHANGED <<kind, pending, draft, server, ntyped, nstep, ghosts>>

\* The page is loaded again: only local storage and the requests already at the server remain.
Reload ==
    /\ Step
    /\ ed' = [e \in Editors |-> Closed] /\ job' = [e \in Editors |-> NoJob]
    /\ pending' = None /\ fault' = TRUE
    /\ touched' = {} /\ known' = FALSE /\ missed' = FALSE
    /\ spoilt' = spoilt \cup {job["new"].state.content}
    /\ UNCHANGED <<kind, draft, server, ntyped, twice>>

(* ---- editing ---- *)
\* Every key goes to the state at once, also while a save or a load is under way.
Change(e, d, part) ==
    /\ Step
    /\ ed' = [ed EXCEPT ![e] = d]
    /\ touched' = IF e = "edit" THEN touched \cup {part} ELSE touched

Type(e, text) ==
    /\ ed[e].open /\ text # ed[e].content
    /\ text = Blank \/ (ntyped < MaxTyped /\ text = ntyped + 1)
    /\ ntyped' = IF text = Blank THEN ntyped ELSE text
    /\ Change(e, [ed[e] EXCEPT !.content = text], "content")
    /\ AutoSave(e, text)
    /\ UNCHANGED <<kind, job, draft, server, known, spoilt, twice, fault>>

\* SET_METADATA: the visibility, the location or the relations.
SetMeta(e, x) ==
    /\ ed[e].open
    /\ Change(e, [ed[e] EXCEPT !.metas = (@ \cup {x}) \ (@ \cap {x})], "metas")
    /\ UNCHANGED <<kind, job, pending, draft, server, ntyped, known, missed, spoilt, twice, fault>>

AddFile(e, f) ==
    /\ ed[e].open /\ f \notin ed[e].files
    /\ Change(e, [ed[e] EXCEPT !.files = @ \cup {f}], "atts")
    /\ UNCHANGED <<kind, job, pending, draft, server, ntyped, known, missed, spoilt, twice, fault>>

RemoveFile(e, f) ==
    /\ ed[e].open /\ f \in ed[e].files
    /\ Change(e, [ed[e] EXCEPT !.files = @ \ {f}], "atts")
    /\ UNCHANGED <<kind, job, pending, draft, server, ntyped, known, missed, spoilt, twice, fault>>

RemoveAttachment(e, a) ==
    /\ ed[e].open /\ a \in ed[e].atts
    /\ Change(e, [ed[e] EXCEPT !.atts = @ \ {a}], "atts")
    /\ UNCHANGED <<kind, job, pending, draft, server, ntyped, known, missed, spoilt, twice, fault>>

(* ---- saving ---- *)
\* validationService.canSave: it does not ask whether the memo was loaded.
CanSave(d) == (d.content # Blank \/ d.atts # {} \/ d.files # {}) /\ ~d.saving

Uploaded(e) == IF e = "edit" THEN "get" ELSE "put"

\* handleSave: a save works on the state as it is now, loaded or not.  One save of each at a time:
\* what an editor opened again saves before the answer to the save of the one before is left out.
Start(S) ==
    /\ S # {} /\ \A e \in S : job[e].pc = "idle"
    /\ nstep' = nstep + Cardinality(S) /\ nstep' <= MaxSteps
    /\ ed' = [e \in Editors |-> IF e \in S THEN [ed[e] EXCEPT !.saving = TRUE] ELSE ed[e]]
    /\ job' = [e \in Editors |->
                 IF e \in S
                 THEN [NoJob EXCEPT !.pc = IF ed[e].files = {} THEN Uploaded(e) ELSE "upload",
                                             !.live = TRUE, !.state = ed[e]]
                 ELSE job[e]]
    /\ UNCHANGED <<kind, pending, draft, server, ntyped, ghosts>>

SaveButton(e) == ed[e].open /\ CanSave(ed[e]) /\ Start({e})

\* Ctrl+Enter is listened to on the window: it saves every editor of the page.
SaveKeys ==
    /\ \A e \in Editors : ed[e].open
    /\ Start({e \in Editors : CanSave(ed[e])})

\* uploadService.uploadFiles, one file after the other.
Upload(e, f) ==
    LET new  == job[e].new \cup {<<f, uploads[f] + 1>>}
        rest == job[e].state.files \ {a[1] : a \in new} IN
    /\ job[e].pc = "upload" /\ f \in job[e].state.files \ {a[1] : a \in job[e].new}
    /\ uploads' = [uploads EXCEPT ![f] = @ + 1]
    /\ job' = [job EXCEPT ![e].new = new, ![e].pc = IF rest = {} THEN Uploaded(e) ELSE @]
    /\ UNCHANGED <<kind, ed, pending, draft, memo, posted, linked, ntyped, nstep, ghosts>>

AllAttachments(j) == j.state.atts \cup j.new

\* createMemo or createMemoComment.
Create ==
    LET j == job["new"] IN
    /\ j.pc = "put"
    /\ posted' = [posted EXCEPT ![j.state.content] = @ + 1]
    /\ linked' = linked \cup AllAttachments(j)
    /\ job' = [job EXCEPT !["new"].pc = "answered"]
    /\ UNCHANGED <<kind, ed, pending, draft, memo, uploads, ntyped, nstep, ghosts>>

\* buildUpdateMask compares with the memo as it is now, not as it was loaded.
\* Mutant: the attachments just uploaded are not compared.
ChangedBefore(j) == {p \in Parts : \/ p = "content" /\ j.state.content # j.prev.content
                                   \/ p = "metas" /\ j.state.metas # j.prev.metas
                                   \/ p = "atts" /\ j.state.atts # j.prev.atts}
Changed(j)       == {p \in Parts : \/ p = "content" /\ j.state.content # j.prev.content
                                   \/ p = "metas" /\ j.state.metas # j.prev.metas
                                   \/ p = "atts" /\ AllAttachments(j) # j.prev.atts}

\* The update time, in seconds, so that what follows at once has the same: as loaded if it is no
\* longer that, else now, unless only the visibility changes.
Clock == {memo.time, memo.time + 1}

Bumped(j)   == \/ Changed(j) \cap {"content", "atts"} # {}
                  \/ \E x \in Metas \ {Visibility} : (x \in j.state.metas) # (x \in j.prev.metas)
Outdated(j) == j.state.time \notin {None, j.prev.time}
Stamp(j, now) == IF Outdated(j) THEN j.state.time ELSE IF Bumped(j) THEN now ELSE memo.time

GetMemo ==
    /\ job["edit"].pc = "get"
    /\ job' = [job EXCEPT !["edit"].pc = "put", !["edit"].prev = memo]
    /\ UNCHANGED <<kind, ed, pending, draft, server, ntyped, nstep, ghosts>>

Unchanged(j) == Changed(j) = {} /\ ~Outdated(j)

\* The finally of handleSave.
Finally(e) == IF job[e].live THEN [ed EXCEPT ![e].saving = FALSE] ELSE ed

\* No changes detected: onCancel.
NoChanges ==
    /\ job["edit"].pc = "put" /\ Unchanged(job["edit"])
    /\ ed' = IF job["edit"].live THEN [ed EXCEPT !["edit"] = Closed] ELSE ed
    /\ job' = [job EXCEPT !["edit"] = NoJob]
    /\ IF job["edit"].live THEN touched' = {} /\ known' = FALSE ELSE UNCHANGED <<touched, known>>
    /\ UNCHANGED <<kind, pending, draft, server, ntyped, nstep, missed, spoilt, twice, fault>>

Update ==
    LET j == job["edit"]  c == Changed(j) IN
    /\ j.pc = "put" /\ ~Unchanged(j)
    /\ \E now \in Clock :
          memo' = [content |-> IF "content" \in c THEN j.state.content ELSE memo.content,
                   metas   |-> IF "metas" \in c THEN j.state.metas ELSE memo.metas,
                   atts    |-> IF "atts" \in c THEN AllAttachments(j) ELSE memo.atts,
                   time    |-> Stamp(j, now)]
    /\ linked' = linked \cup memo'.atts
    /\ job' = [job EXCEPT !["edit"].pc = "answered"]
    /\ UNCHANGED <<kind, ed, pending, draft, posted, uploads, ntyped, nstep, ghosts>>

\* The draft is cleared; the queries are invalidated and waited for.
Answered(e) ==
    LET late == e = "new" /\ pending = <<"new", job["new"].state.content>> IN
    /\ job[e].pc = "answered"
    /\ draft' = IF e = "new" THEN Clear ELSE draft
    /\ job' = [job EXCEPT ![e].pc = "settling"]
    /\ spoilt' = IF late THEN spoilt \cup {job[e].state.content} ELSE spoilt
    /\ missed' = (missed \/ (e = "new" /\ ~job[e].live /\ ed[e].open))
    /\ UNCHANGED <<kind, ed, pending, server, ntyped, nstep, touched, known, twice, fault>>

\* RESET drops what was typed during the save.
\* Mutant: it does not.
ResetNot(d) == [d EXCEPT !.saving = FALSE]
Reset(d)    == [Closed EXCEPT !.open = TRUE]

\* RESET and onConfirm, which closes "edit" and the editor of comments.
Settled(e) ==
    LET closes == e = "edit" \/ kind = "comment" IN
    /\ job[e].pc = "settling"
    /\ job' = [job EXCEPT ![e] = NoJob]
    /\ ed' = IF ~job[e].live THEN ed
             ELSE [ed EXCEPT ![e] = IF closes THEN Closed ELSE Reset(@)]
    /\ IF job[e].live /\ ~closes /\ ed[e].content # Blank
       THEN AutoSave(e, ed'[e].content)
       ELSE UNCHANGED <<pending, missed>>
    /\ IF e = "edit" /\ job[e].live THEN touched' = {} /\ known' = FALSE ELSE UNCHANGED <<touched, known>>
    /\ UNCHANGED <<kind, draft, server, ntyped, nstep, spoilt, twice, fault>>

\* A request fails, or its answer is lost after the server did what it asked for.
Fail(e) ==
    /\ job[e].pc \in {"upload", "get", "put", "answered"}
    /\ Step /\ fault' = TRUE
    /\ ed' = Finally(e)
    /\ spoilt' = IF e = "new" /\ job[e].pc = "answered" THEN spoilt \cup {job[e].state.content} ELSE spoilt
    /\ twice' = IF e = "new" /\ job[e].pc = "answered" THEN twice \cup {job[e].state.content} ELSE twice
    /\ job' = [job EXCEPT ![e] = NoJob]
    /\ known' = (known /\ ~(e = "edit" /\ job[e].pc = "answered"))
    /\ UNCHANGED <<kind, pending, draft, server, ntyped, touched, missed>>

\* Another client changes the memo.
OtherWrite(x) ==
    /\ Step
    /\ \E now \in Clock : memo' = [memo EXCEPT !.metas = (@ \cup {x}) \ (@ \cap {x}), !.time = now]
    /\ known' = FALSE
    /\ UNCHANGED <<kind, ed, job, pending, draft, posted, linked, uploads, ntyped,
                   touched, missed, spoilt, twice, fault>>

Init ==
    /\ kind \in {"memo", "comment"}
    /\ ed = [e \in Editors |-> Closed] /\ job = [e \in Editors |-> NoJob]
    /\ pending = None /\ draft = Blank
    /\ memo = [content |-> Loaded0, metas |-> Metas, atts |-> Files \X {0}, time |-> 0]
    /\ posted = [t \in Texts \cup {Blank} |-> 0] /\ linked = memo.atts
    /\ uploads = [f \in Files |-> 0]
    /\ ntyped = 0 /\ nstep = 0
    /\ touched = {} /\ known = FALSE /\ missed = FALSE /\ spoilt = {} /\ twice = {} /\ fault = FALSE

Next ==
    \/ OpenNew \/ OpenEdit \/ Loaded \/ LoadFailed \/ Fire \/ Reload \/ SaveKeys
    \/ Create \/ GetMemo \/ NoChanges \/ Update
    \/ \E e \in Editors :
         \/ Close(e) \/ SaveButton(e) \/ Answered(e) \/ Settled(e) \/ Fail(e)
         \/ \E text \in 0..MaxTyped : Type(e, text)
         \/ \E x \in Metas : SetMeta(e, x)
         \/ \E f \in Files : AddFile(e, f) \/ RemoveFile(e, f) \/ Upload(e, f)
         \/ \E a \in Attachments : RemoveAttachment(e, a)
    \/ \E x \in Metas : OtherWrite(x)

Spec == Init /\ [][Next]_vars

(* ---- properties ---- *)
\* "Auto-save content to localStorage": when no store waits for its half second, the draft is
\* what the editor shows, so a reload loses nothing; unless another editor took the timer over,
\* or a save begun before the editor was opened again has cleared it.  "Clear localStorage cache on
\* successful save": a text that was posted is not offered again as a draft, unless its save met a
\* store still waiting, a reload or a lost answer.
DraftKept ==
    /\ (ed["new"].open /\ pending = None /\ ~missed /\ job["new"].pc # "settling")
         => draft = ed["new"].content
    /\ (draft # Blank /\ draft \notin spoilt /\ job["new"].pc = "idle") => posted[draft] = 0

\* No text is posted twice, unless a draft brought it back or the answer to its first post was
\* lost, whatever button and keys the user presses while a save is under way.
PostedOnce == \A t \in Texts : posted[t] <= 1 \/ t \in twice

\* uploadService, "Upload local files first": when no request fails and no save is under way, every
\* file uploaded belongs to a memo: no attachment is left that no memo shows.
NoOrphans ==
    (~fault /\ \A e \in Editors : job[e].pc = "idle")
        => \A f \in Files : \A n \in 1..uploads[f] : <<f, n>> \in linked

\* buildUpdateMask: the update of a memo that was loaded and that no other client has changed
\* since leaves what the user did not touch as it was.  "Auto-update timestamp if content changed":
\* no such update moves its update time back.
KeepsUntouched ==
    [][(job["edit"].pc = "put" /\ memo' # memo /\ known /\ known')
         => /\ "content" \in touched \/ memo'.content = memo.content
            /\ "metas" \in touched \/ memo'.metas = memo.metas
            /\ "atts" \in touched \/ memo'.atts = memo.atts
            /\ memo'.time >= memo.time]_vars
=============================================================================
