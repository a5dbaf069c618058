# A verification project for memos

TLA+ modules that model parts of memos (`src/app/memos`: a server written in Go, deployed as
an ECS service by `src/infra`, and the web client it serves, written in TypeScript), TLC
configurations that check them on small instances, and proofs that TLAPS checks. Every action
names the function it models; `PROJECT.json` maps every definition to its lines. Paths below
are relative to `src/app/memos`, those of the web client to `src/app/memos/web/src`.

1. [The system](#1-the-system): its parts, their state, what is hard about them
2. [The modules](#2-the-modules): what models what
3. [The runs](#3-the-runs): bounds, fairness, results
4. [The proofs](#4-the-proofs)
5. [What the properties leave out, and why](#5-what-the-properties-leave-out-and-why)
6. [What is not modelled](#6-what-is-not-modelled)
7. [What could come next](#7-what-could-come-next)

## 1. The system

A single Go process serves a Connect/gRPC API, a static web client and RSS from a SQL
database (SQLite, PostgreSQL or MySQL). Every request runs in a goroutine of its own.
Nothing above the database serializes requests: handlers call the store several times and
there is no transaction around those calls (the migrator is the one exception), so the
hard behaviours are interleavings of handlers, handlers that end in the middle, and caches
that are filled with what was true a moment ago.

The client is a single-page application. A tab runs one callback at a time, so nothing in it is
preempted; what interleaves is the answers of the server, which come in any order or not at all,
the events of the user, timers, the renders and effects of React, page loads that forget
everything but the browser's stores, and other tabs and clients. It keeps copies of what the
server has nearly everywhere (React Query's cache, two contexts, the forms, the editor, the
address), and most of its hard behaviours are copies that go apart.

| Part | State | Operations | Interacts with | Hard about it | Correct when |
|---|---|---|---|---|---|
| In-memory cache `store/cache/cache.go` | a `sync.Map`, an atomic counter, two channels | SetWithTTL, Get, Delete, Close, cleanup goroutine, eviction | three instances in `store/store.go`, called by every request | no lock: a call is several accesses to map and counter; Close against the sweep | the counter is the number of entries; the limit holds; the oldest go; Close returns; expired entries go |
| User-setting lists `store/user_setting.go` | one row per user and kind, holding a list; a cache in front | add, remove, look up a refresh token or a PAT, record a PAT's last use | auth service, authenticator, a goroutine per PAT request | read-modify-write of a whole list; stale cache fill; a goroutine that outlives its request | nothing added is lost, nothing revoked comes back, cache and row agree |
| Migrator and start-up `store/migrator.go`, `internal/version`, end of `server/server.go` | schema, the BASIC row of system_setting, the process's copy of it | preMigrate, version checks, applyMigrations, the record of the version, the secret key | every server that starts; two releases run at once during a deployment | death between two transactions; two servers at once; DDL that commits by itself on MySQL | the version never claims a missing migration; a server serves on its schema only; the secret key stays |
| Memo service `server/router/api/v1/memo*_service.go` | rows of memo, memo_relation, resource, activity, inbox | create, comment, update, set attachments, set relations, delete | attachments, webhooks, notifications | handlers of up to a dozen calls; errors in the middle; nil pointers when a memo has gone | a deletion leaves nothing; an edit sets what it says; comments are a forest and are not listed as memos |
| Attachments `attachment_service.go`, `store/attachment.go` | rows of resource, files or S3 objects | upload, delete, serve | memo service, storage setting | file and row are written one after the other | a row has its file |
| Users, auth `user_service.go`, `auth_service.go`, `server/auth`, `store/user.go` | rows of user, a cache, stateless access tokens | sign-in, refresh, sign-out, sign-up, archive, delete | user-setting lists | first-user race; a cached user after archiving | one host; an archived user is refused |
| Instance settings `store/instance_setting.go` | rows of system_setting, a cache | get with defaults, upsert | migrator, start-up, instance service | whole-value overwrites | no setting undone by another's write |
| Background runners `server/runner` | none of their own | rebuild payloads, renew S3 links | memos, attachments | paging by offset while rows change | every row is visited, no newer payload overwritten |
| Cron `plugin/cron` | entries, a run loop with unbuffered channels | schedule, remove, start, stop; chain wrappers; next activation | scheduler | handover between callers and loop; calendar arithmetic | no lost entry, no overlap with SkipIfStillRunning, Next is the least match |
| Scheduler `plugin/scheduler` | jobs, a stop channel, a wait group | register, start, stop | cron parser, runners | start after stop, partial start, second stop | stop waits for all jobs |
| Filter `plugin/filter`, Markdown `plugin/markdown` | none | CEL to SQL; text to tags, snippets | memo listing | precedence, quoting, three dialects | meaning preserved |
| Mail, webhooks, link metadata, OAuth2, S3 | none | one request each | outside services | fire and forget | |
| Session `connect.ts`, `auth-state.ts`, `contexts/AuthContext.tsx`, sign-in pages | the access token in memory and in `sessionStorage`, the refresh in progress, `AuthState`, the OAuth state | sign-in, sign-up, OAuth callback, sign-out, refresh, refetch of settings, redirects, page load | every request; App, RootLayout; other tabs through the refresh cookie | answers that outlive the user they were for; several requests refused at once; effects that run at every render | one refresh at a time; nobody sees another's settings or data; a sign-out lasts; a state is used once; redirects end |
| Memo queries `hooks/useMemoQueries.ts`, `lib/query-client.ts` and the components that write memos | the copies of a memo in React Query's cache | optimistic update, deletion, reaction, tick of a task, save of the editor, fetch, invalidation | the API, the editor, the lists on display | rollback to a snapshot, a fetch that overtakes a write | pages at rest show what the server has; a deleted memo stays gone |
| Memo editor `components/MemoEditor` | the reducer's state, a debounced draft in local storage, the save under way | load, type, change, attach, save, cancel, restore a draft | uploads, memo service, memo queries | a save of several requests while the user goes on; one timer for all editors | drafts are kept until posted and gone afterwards; nothing posted twice, no orphans; untouched fields stay |
| Settings pages, inbox, attachments `components/Settings`, `pages`, the creation dialogs | the rows shown, dialogs, forms and the context they were copied from | load, delete, archive, create, edit, save, load more | the API, both contexts | handlers that overlap, lists captured before a request, forms never copied again | what is shown, said to be deleted or saved is so |
| Filters `contexts/MemoFilterContext.tsx` and their controls | the filters and the address, two references | tag, word, day, link, back, reload | React Router, RootLayout | two effects that copy each into the other, renders that lag | address and filters agree, as asked, and come to rest |
| Profile panel, link and location dialogs `layouts/MainLayout.tsx`, `hooks/useLinkMemo.ts`, `Toolbar/InsertMenu.tsx` | the answer on display, requests under way | visit, search, pick, click the map, cancel | the API, a geocoding service, the browser's position | late answers | what is shown belongs to what is looked at |
| Lists, tasks, suggestions `utils/markdown-*.ts`, `Editor/useSuggestions.ts` | the text, the popup's selection | Enter, tick, remove done tasks, arrows, Tab | the editor, the rendered memo | which line is the n-th task; an index into a list that shrinks | the list goes on or ends; one task is ticked; what is selected is inserted |
| Masonry grid `components/MasonryView` | columns, heights, a timer | list change, resize, height change, delayed redistribution | ResizeObserver | a timer that fires for an older list | every memo once, columns in balance |
| Infrastructure `src/infra`, `src/app/Dockerfile` | | | fixes prod mode and the number of tasks | | |

## 2. The modules

| Module | Models | Module of TLC instances | Proofs |
|---|---|---|---|
| `Cache` | `store/cache/cache.go` | `MCCache` | `CacheProofs` |
| `TokenSet` | abstract: a set of tokens per user that only requests change | | |
| `TokenList` | `store/user_setting.go`, its cache, its callers in `server/auth` | `MCTokenList` | `TokenListProofs` |
| `Migrator` | `store/migrator.go`, `internal/version`, `getOrUpsertInstanceBasicSetting` | `MCMigrator` | `MigratorProofs` |
| `Memos` | memo, relation and attachment handlers | `MCMemos` | `MemosProofs` |
| `Session` | the session of a tab: `connect.ts`, `auth-state.ts`, `AuthContext.tsx`, sign-in, sign-up, OAuth, redirects, page loads | `MCSession` | `SessionProofs` |
| `MemoQueries` | one memo in React Query's cache and everything that writes it | `MCMemoQueries` | `MemoQueriesProofs` |
| `Editor` | `components/MemoEditor`: drafts, loads, saves of two editors | `MCEditor` | `PageProofs` |
| `Settings` | tables and forms of the settings pages, shortcuts, inbox, attachments | `MCSettings` | `SettingsProofs` |
| `Widget` | what the parts of a page have in common: the part looked at, a bound on what is done with it, and the filter of an array | | |
| `MemoFilter` | filters and address | in `Page` | |
| `Dialogs` | profile panel, link dialog, location dialog | in `Page` | |
| `Writing` | list completion, tasks, suggestions | in `Page` | |
| `Masonry` | the grid of memos | in `Page` | |
| `Page` | a page: any one of the four modules above, whose parts share no state | `MCPage` | `PageProofs` |

**Cache.** `data` is the `sync.Map`, an entry reduced to its expiration; `count` is
`itemCount`. A call is one action per access to the map or the counter (`SetLoad`,
`SetDelete`, `SetCount`, `SetStore`, `SetCheck`, then the eviction), so two goroutines may
meet between any two of them. `Range` visits the keys in any order and sees an entry as
it is when it gets there. `Clear` has no caller and is left out, `OnEviction` is nil in
every cache the program makes. `DisjointSpec` is the behaviours in which no two operations
in flight have claimed one key. That is how the code's own concurrency test uses the
cache (`TestCacheConcurrency` gives every goroutine its own keys), and the assumption
under which a counter kept apart from the map can be exact; without it it is not
(section 5). `SeenSpec` asks besides that nothing is stored behind the `Range` of an eviction: an
eviction that has passed an entry it would have to choose evicts too little.

**TokenList.** A list is reduced to the set of its ids. `Read`, `Query`, `Fill` are
`GetUserSetting` through the cache, `Upsert` and `Publish` are `UpsertUserSetting`, with
the edit in between. `Fill` happens twice because both `ListUserSettings` and
`GetUserSetting` set the cache. `UsePAT` leaves a goroutine behind that runs `Touch` at any
later time, as `AuthenticateByPAT` does. `Append` models `append` on the slice that the
cache handed out: where its array has room, the new token lands behind it, on top of what another add
put there, be that list still in the hands of the other call (not yet marshalled, or about to be
cached) or in the cache already (`Sharing`). Whether there is room depends on how the array came to be;
any list that is long enough may share it.
`DriverFails` and `Restart` may strike at any step. The variables `issued`, `added`,
`doomed` and `revoked` are history, read by no action except that ids are fresh. Refresh
tokens and PATs have the same code and the same model: `check` stands for the former
(which are looked up through the cache), the theorem about `RevokedPATsAreRefused` for the latter (which are
looked up in the database). `TokenSet` is what clients may expect: a token is generated for one request and enters the set once, it leaves
only because a request named it (`doomed`) and never enters again, and a call that answers has had its effect. So a list written back with
a revoked token, or without another session's token, is no step of `TokenSet`. `SerialSpec`, the
behaviours in which the calls on one user's list do not overlap, implements it; with calls that overlap the code does not (section 5).

**Migrator.** A schema is the set of the migration files whose effects it has; a file
executes once, on a schema that has the earlier ones, unless it is marked `Idempotent`.
A transaction (`tx`, `work`) holds the write lock of SQLite. `view` is the BASIC setting in the
process's cache, read once and written whole: this is why a stale `view` matters.
`Transactional = FALSE` is MySQL. `Crash` may strike a server at any step, and `Start` runs any of the
releases, so an old and a new task overlap as in a rolling deployment.

**Memos.** A handler is one action per call of the store. Its locals are the request, the memo,
what its loop has still to visit (`left`) and what it is visiting (`cur`). `Abort` is the error return and the recovered
panic of a nil pointer where the code uses a row it did not find; `Fail` is an
error of the driver or the death of the process, at any step. Loops over a request's
lists are loops over sets: any order is possible, and a list with a duplicate (an error
of the `UNIQUE` constraint) is one of the failures. Attachments have storage type LOCAL: `files` are the
paths on disk and `FileOf` is the path template. Permissions are taken as granted, and a uid
is not used for a second memo. A listing of attachments returns `Limit` rows at most, 100 in the code, and any of a memo that has more
(`Listed`); `beyond` is history, what the listing of a handler left out.

**Session.** A tab has one flow (`req["flow"]`: initialisation, sign-in, sign-up or sign-out, one
after the other as the buttons are disabled) and background requests (queries, `refetchSettings`).
`Call` is the interceptor on the way out, `Unauthenticated` and `RefreshSettled` what it does to a
refusal; `Join` is `tokenRefreshManager`. A token is the user it names until it expires (`Dead`).
`due` holds the effects React still has to run after a render, and a page handles nothing else
before (`Settled`); `leaving` is a page load asked for with `window.location`. `Boot` is a page
load: the memory of the tab is new, `sessionStorage` and the cookie are not. The server's side
(`Serve...`) answers as the handlers do. A refresh may be refused, lost, or fail with the cookie still live (`LoseRefresh`). The provider may send the
browser back with an error and no state (`ReturnFromIdp(0)`). The effect of a callback page with an error stays in `due`: it sets a new
error object, which renders the page, whose `navigateTo` is a new function, which runs the effect, without end. Its runs are tasks of their own, so answers and
clicks take their turn between them (`Pending`). `exchanged`, `mixed` and `gone` are history.

**MemoQueries.** `entry` holds the two copies of one memo, that of its own page and that of the
list on display (for a comment: of its parent's page), each with its staleness and its fetch. A write
goes through `onMutate`, the server, and `onSuccess` or `onError`; one that fails is repeated once (`retry: 1`). `stale` data is
fetched again when its page is mounted or the window gets the focus, which is what `Converges` rests on.
A page that is mounted joins a fetch under way (`CardAfter`); the menu of a memo navigates after its deletion or archiving wherever the user is by then (`Leave`).
`apart` and `blind` are history: copies that something nobody cancels or invalidates may have left behind.

**Editor.** Two editors: "new" with its draft, "edit" in the place of a card. `pending` is the one debounced
call all editors share. A save is a job that outlives its editor: upload each file, read the memo, build the mask, put, attach; then
clear the draft, invalidate, reset. A second editor may be opened while the save of one that was left goes on; each of the two saves once at a time, and a save begun
while that of the editor before it is unanswered is left out. Texts are numbered as they are typed, so that no two are the same; the server's clock has seconds, so that two updates may have
one time (`Clock`). `known`, `missed`, `spoilt`, `twice` and
`fault` are history.

**Settings.** All tables of the settings pages, the shortcuts, the inbox and the attachments are the same
machine with different handlers: `rows` on the server, `view` on the page, a dialog, and jobs for the load, the confirmed
action, the submitted dialog and a row's button. Which handler reads the list again, filters the one it captured, closes its dialog on
an error, or does not wait, is what the sections differ in (`Deleted`, `ReloadAnyway`, `MemberArchived`, ...). The lists that React Query keeps are fetched
anew by whoever changes them, in the place of a fetch under way, unless that is the first one: React Query joins a first fetch, which has no data yet (`Joins`), and a change
made after the server had answered it is not in the list (`missed`). A query or a mutation that fails is repeated once, and of two overlapping saves only the last
one's own `onSuccess` runs (`Silenced`). The forms have the server's
value `set`, the context's copy `ctx` and the copy being edited. `said`, `raced`, `missed`, `blind` and `touched` are history.

**MemoFilter, Dialogs, Writing, Masonry, Page.** Parts of a page that share no state and
are looked at one at a time: `w` is a record whose field `part` says which. `MemoFilter` separates what a render has
shown from what was asked for since (`pend`), as React batches it, and models both effects and their two
references with the render that runs them. `Writing` has lines and tasks as records, ranges over every memo of four lines, and finds tasks
twice, as the page shows them and as the code looks for them. Its popup hides on Escape, the side arrows and a click; Home, End, PageUp and PageDown
take the caret to another word with the popup open (`CaretKey`, `moved`), and nothing is listed anew until something renders (`Listing`, `stale`).
`Masonry` computes the columns as `distributeItemsToColumns` does. The editor above the first column grows as the user types (`PrefixChanged`)
and is read only when the memos are dealt out (`measured`).

## 3. The runs

All are expected to pass.

| Run | Bounds | Shows |
|---|---|---|
| `cache_disjoint` | 4 keys, 2 callers and the cleaner, ttl 0 or 1, limit 2, batch of 2, clock to 1, `SeenSpec` | `SizeIsExact`, `MaxItemsRespected` |
| `cache_live` | 3 keys, 1 caller that may close, batch of 2 | `CloseReturns`, `ExpiredGoes` |
| `tokens_serial` | 2 users, 2 tokens, 2 goroutines, all operations, `SerialSpec` (as the constraint `OneAtATime` on the states of `Spec`) | `RevokedSessionsAreRefused`, `Coherent`, and the refinement `ImplementsTokenSet`: nothing leaves a list that no request named, nothing that left it returns |
| `tokens_concurrent` | 2 users, 2 tokens, 2 goroutines, all operations but `touch`, any interleaving | `OwnTokensOnly`, `CacheConverges` |
| `migrator_upgrade` | 2 servers, 2 releases, 5 ages of the database, the 8 SQLite files from 0.22 on and one before, 2 deaths | `VersionIsBacked`, `ServesOnItsSchema`, `AllOrNothing`, `EventuallyServes` |
| `memos_serial` | 2 memos, 2 attachments, a limit of 1 per listing, all requests but the deletion of an attachment, one at a time, any call may fail | `DeletedWhole`, `SetAsAsked` |
| `memos_concurrent` | 2 memos, 1 attachment, 2 handlers, any interleaving | `CommentForest`, `RowHasFile` |
| `session_tab` | 2 accounts, 1 background request beside the flow, 1 expiry of the tokens, 1 other fault, 1 OAuth state, an instance without public memos | `OneRefresh`, `OwnData`, `SignedOutStays`, `CallbackOnce`, `EventuallyReady` |
| `memo_queries` | a memo with 2 tasks or a comment, 2 writes at a time, 2 events (writes of the user or of others, lost requests) | `DetailTrue`, `CardTrue`, `Converges` |
| `editor` | 2 texts, 1 file, visibility, 4 steps (changes, saves, failures, reloads, other clients) | `DraftKept`, `PostedOnce`, `NoOrphans`, `KeepsUntouched` |
| `settings` | 12 sections, 3 rows, 5 steps | `ViewTrue`, `SaidDeleted`, `FormTrue`, `KeepsUntouched` |
| `page` | filters 3 actions, tasks 4 over every memo of up to 4 lines, grid 4 with 3 memos and 1 to 3 columns, the others 6 | `UrlTrue`, `Settles`, `AnswersTrue`, `ListsGoOn`, `TasksTrue`, `SelectedShown`, `GridTrue` |

Why these bounds are enough to be worth something. Two goroutines and the cleaner
already reach every pair of steps of two operations; four keys with a limit of two make a Set
overflow while another is half done, and a batch of two evict what the other has just stored; in `cache_live` a batch of two out of three makes the selection
of `cleanupOldest` replace a candidate. In `tokens_serial` the two goroutines serve different users at the same time, or one user's
calls in turn; its two tokens are one that is edited and one that must stay, and for more of all of them its properties are proved. `touch` writes the list it read,
as a `remove` of an absent token does, and is left out of `tokens_concurrent` for time. `migrator_upgrade`
has a release below, at and above most of the ages of the database, two servers so that
they can race, and two deaths so that the recovery from the first may die as well. In `Memos`,
two memos are a memo and its comment or its reference, and two attachments one to
keep and one to drop, and with a limit of one also one that a listing returns and one beyond it; comments on comments need a third memo and are out of the bounds.
In the client, two actors are again enough for every pair of steps: two requests that may be refused together (`session_tab`), two writes of
one memo, two editors for one timer, three handlers of one section. Four or five steps of the user and of chance
are a save that fails, is repeated and meets another client, or a dialog opened, confirmed and opened again before the
answer. Four lines hold a list, a break of it and a task after; three memos in two columns are the least that can be out of balance.

Bounds are guards named in the modules: `MaxTime`, `MaxCount` (calls start only while the counter is
in range), `MaxCrashes`, `MaxMemos`, `MaxFaults`, `MaxExpiries`, `MaxStates`, `MaxEvents`, `MaxTyped`, `MaxRows`, `MaxSteps`, `MaxActs`, `MaxLines`. Deadlock is checked except in `cache_live`,
`migrator_upgrade`, the runs of `Memos` and those of the client, where a closed cache, a bound that is used up or an idle tab leave nothing to do. Symmetry sets are used only in
runs that check no liveness property. `Cache` has `EvictDivisor` where the code has 5, so that a small cache
evicts more than one entry.

**Fairness.** `Cache`: a goroutine inside a call goes on (Go's scheduler is fair to
goroutines that can run), the ticker keeps firing, and the `select` of `cleanupLoop`, which chooses at random
among ready channels, does not miss a closed `stopChan` for ever (strong fairness of `CleanerExit`).
`TokenList`: a goroutine inside a call goes on; an entry that is not rewritten reaches its ttl.
`Migrator`: a server that runs goes on, and one that ended is started again (the ECS service keeps its
desired count). Deaths are not fair and bounded. `EventuallyServes` is conditional: that an upgrade ends is promised where the files to apply again after a
death may be repeated.
`Session`, `MemoQueries`: a request is answered, failed or lost, sooner or later, and the browser runs the callbacks of what
was answered; in `MemoQueries` time also passes and the user returns to the tab, since the code leaves the repair
of stale copies to that (`refetchOnWindowFocus`). `Page`: React renders what it was asked to. No new request, click or key is ever assumed to come, and no liveness is claimed of the editor and
the settings pages.

## 4. The proofs

All for every value of the constants that satisfies the module's assumption (`CacheAssumption`, `TokenListAssumption`,
`MigratorAssumption`, `MemosAssumption`, `SessionAssumption`, `MemoQueriesAssumption`, `EditorAssumption`, `SettingsAssumption`, and for the page `MaxActsIsBound`,
`NothingIsOutside`, `NoTimerIsOutside`, `MaxLinesIsNat`, `ItemsAreListed`, `MatchingOfQueries`, `ListsAreLists`, `SizesAreNat`), which say no more than that
bounds and sizes are naturals, lists are lists, and special values are not members of the sets they stand beside. Where a theorem needs more it says so
in its own `ASSUME`, and the reason is given below.

**CacheProofs.** `TypeCorrect`: types, for any interleaving. `LedgerBalances`: in `DisjointSpec`, `CacheInv`. The
counter is not the number of keys present while an operation is half done, so `SizeIsExact`
by itself is not inductive. `CacheInv` adds what each operation owes: a key that was removed and not yet taken off the
counter, or counted and not yet stored (`Owed`), is counted in `Counted`; a key found and
about to be removed is still there (`Held`); no two goroutines have claims on one key. A step
of an operation moves a key between these states and the counter by the same amount. `SizeCorrect` is the consequence in quiescent states.
`OverflowIsAnswered`: in `SeenSpec`, `LimitInv`. Between a Set that goes over the limit and the end of its eviction the limit
is exceeded, by an amount that depends on who is where. `LimitInv` counts: the entries over the limit are at most those that a Set has counted and not yet
checked (`Storing`) or that an eviction will still delete (`Doomed`). `LimitHolds` is the consequence in quiescent states. The attempt to prove it of `DisjointSpec` failed for a good reason,
which is the exception to it in section 5.

**TokenListProofs.** `ListsStayApart`: for any interleaving a user's list holds only that user's
tokens. The invariant `OwnInv` extends this from the row and the cache to the lists calls
hold, the token each call is about, and the goroutines not yet run, since each of them ends up
in a row. For `SerialSpec`, `SerialInv` says that a call that has a list to itself holds the stored one, and
that the cache lags behind only while its writer is about to publish: this gives `RemovedStaysRemoved`, `CacheIsCoherent`,
`RevokedSessionsStayOut` and, step by step, the refinement `ListsImplementSets` (`SerialSpec => TokenSet!Spec`).

**MigratorProofs.** `MigrationInvariant` with `VersionStaysBacked` and `ServersFindTheirSchema`: the version recorded,
the version each server has in its copy, and the schema its transaction works on are tied together by
`MigrationInv` (what is committed covers what any copy of the version claims; what is not yet executed is still in `todo`), by
cases over the steps. `SchemaStaysWhole` and `MigrationsAreAtomic`: where the DDL is transactional (not on MySQL), what is committed is always the whole of some release
(`WhollyMigrated`), since a transaction that ends has worked off the files its server selected, and nobody else could write meanwhile (`BatchInHand`). That files are also executed in the order
of their versions needs that the order of their names, which the code sorts by, is that order: it is from `0.10` on (`MinVersion >= 1000`;
the code supports databases from 0.22.0 on), and not before, `0.10` sorting before `0.9`. `SecretIsKept`: on a database that some release initialized (`0 \notin Installed`) the key is never replaced, because every copy of the BASIC setting has it.

**MemosProofs.** `CommentsFormAForest`: for any number of handlers and any interleaving. A relation is written
long after the ids of its memos were given, so `CommentInv` says that ids are given once and in order, that the memo a handler
has inserted and not yet linked belongs to that handler only, and that a parent is older than its comment: then no two
handlers link one comment, and no cycle closes. `RowsHaveFiles` is stated where no two attachments share a path
(`FileOf` injective, see section 5); `FileInv` adds that every upload under way is of an attachment of its
own, not stored yet, and has its file from the moment it is saved.
`DeletionsAreWhole` and `EditsAreExact`: while there is one handler at a time (with two, `memos_concurrent`
leaves both properties out: a memo may be given an attachment while it is deleted). `CourseInv` says of each call of the
store how far the handler has come when it is reached: which attachments, relations and comments are gone, which are
still in the list it works off, which the request asked for are there, and which a listing left out. The limit is any number, and what is left out is named exactly, so that
an edit or a deletion that missed anything within the limit would be no `EditsAreExact` and no `DeletionsAreWhole`. An error ends the handler without a report,
so the calls that failed need no case of their own.

**SessionProofs.** `TypeInv` adds to the types which fields a request carries in which state. `RefreshedOnce` and `ExchangedOnce`
rest on `RefreshInv` (the manager knows whichever refresh is under way) and `OAuthInv` (a state that is stored, or not issued yet, was not exchanged).
For `StaysSignedOut`, `GoneInv` says that after a confirmed sign-out there is no token in memory, in the store,
in a cookie or in the flow, nor an answer under way that brings one. For `ShowsOwnData`, `OwnInv`
says of a tab that is neither `mixed` nor being left that every token, answer and copy is that of the user shown or, while the
tab initializes, of the one user the initialization is for, and that nothing else is there before the first render.

**MemoQueriesProofs.** Every step of `Spec` begins a write, carries one on, ends one, or is a step of one copy
(`StepKinds`); the invariants are proved over those. `DetailShowsServer`: `DetailInv` says that with one write under way an
optimistic update has no fetch of the memo's page beside it and remembers what the server still has until the server
changes it, and that every other write leaves the copy in step until then. `CardShowsServer`: `CardInv` says that, however many
writes overlap, the list is out of step only while the answer that will invalidate it is on its way (`Pending`), or outside the
races that `CardTrue` names.

**PageProofs** holds what is proved of a page: of its parts (`Page`) first, then of the memo editors on it (`Editor`).

*The parts.* They share no state, so each has an invariant of its own (`PartsStep` says which steps it has to stand).
`PageTypes` is type correctness (`PageTypeOK`). `UrlIsTrue`, for any tags, words and days and any interleaving of clicks, steps of the
router and renders: `FilterInv` says that the list copied last is always the one the last render showed (`Copied`); that
the address is the one copied last or differs from the one rendered, so that the next render will see it (`Followed`); and where what
the user asked for is, in the updates not yet applied (`AskedList`) or in an address not yet read (`AskedAddress`). A render moves it from the
second place to the first, from there to the list, and never loses it. `AnswersAreTrue`: `ProfileInv`, `LinkInv` and `PlaceInv` say of the requests under
way what their answers will make of what is shown; for the place, that no request is left but for the position shown.
`ListsDoGoOn`: what Enter writes is detected as the same kind of list (`ListContinues`). `SelectedIsShown`: an input selects the first entry, the index moves modulo the length
of the list of the last render, and the list is that of the word until a key moves the caret or a render makes another (`stale`).

Three of the proofs are about computations over lists of any length. The models state those without recursive operators, and
where induction is needed it is done with the least element of a set of numbers (`LeastOf`, `EveryNumber`), which needs no operator
parameter. A filtered array is the array read at the places kept, in ascending order (`At`): that the places of a finite
set can be listed so is `CanBeListed`, what is read there `AtIs`. From these come the laws of the updates of the filter list (`ApplyIs`,
`ThenIs`). `TasksAreTrue`, an action property: the lines left after a removal correspond one to one to those kept, and so do the fences above each, so that a line is in a code block after it
if and only if it was before (`KeptIs`); hence the tasks to do at the margin are as many as before. `GridIsTrue`: `DealIs` shows that dealing one more memo to the lowest column
keeps every memo in one place and the columns levelled, `DistributedIs` carries this through the loop, and `GridInv` says that the grid shown was dealt out by the latest
heights, or by earlier ones while a redistribution, which has the latest, is waiting, and by the height the editor had then.

*The editors.* Most steps are steps of the editor in a card, or of the server, and mean nothing to the draft. The proof first
shows that every step of `Spec` is one of eleven kinds of steps of the editor of new memos or leaves it alone (`NewStep`), each stated by what it
does to the text, the draft, the timer and the saves. `Fresh` (texts not yet typed are nowhere), `PostedInv` (a text that may be posted is in
one place only) and `DraftInv` (what the timer, the store and the editor hold agree) are then proved over those.
`UploadsAreLinked` is by itself: each upload is linked to a memo or carried by a save (`OrphanInv`).

`UpdatesAreMasked` is about the other editor: as long as the memo is `known`, every part the user has not touched is the server's, in the editor, in the state a
save took from it and in the memo that save has read (`MaskInv`), so that the mask names none of them, and the update time is not taken for an older one: it is not moved back.

**SettingsProofs.** The twelve sections share one state, so the invariants are stated by the section on display, over what all handlers have in common (`Shape`:
which job may be where with what; `Alone`: unless two handlers overlapped, one at most is under way). Tables: `KnownInv`, the rows a client was told of were created;
`ConfirmInv`, a confirmed row is of the list, is in the hands of the confirmation alone, and what was said to be deleted is gone (`DeletedIsGone`). From there `TablesShowTheServer`
is proved for each kind of table by what is still to come: for the tables read again after each change, the list a job holds is the stored one (`SteadyInv`); for the members,
whose list is cached and fetched again by whoever changes it, either a change is not answered yet, or a fetch has still to reach the server or brings the rows as
they are, or a first fetch was joined too late (`Following`, `missed`, in `MembersInv`), so that overlapping handlers do no other harm; for the attachments, that the pages shown are the first ones, once each (`PagesInv`).
Forms: `FormsInv` has an invariant for each way of saving: the preferences, written from the context whole; the account, by a mask; the instance settings, whole and read again.
Each ties the field, the context's copy and the value in the request to the server's, up to the fields `touched`: this gives `FormsShowTheServer` and, with `MarkInv`
(nothing asks to delete the memo's attachment), the action property `UntouchedIsKept`. `Without` removes a row by its position, which is the filter of the code for rows with ids of their own (`Distinct`), and can be reasoned
about without induction.

Only model-checked: liveness (`CloseReturns`, `ExpiredGoes`, `CacheConverges`, `EventuallyServes`, `EventuallyReady`, `Converges`, `Settles`), which is
out of the prover's reach. Every invariant and every action property that a run checks is also proved.
The other way round, `CacheInv`, `OwnInv`, `SerialInv`, `RevokedPATsAreRefused`, `AddedIsKept`, `SecretStays`, `PageTypeOK` and the inductive invariants are proved and are in no run.

## 5. What the properties leave out, and why

A property that holds says as much by its precondition as by its conclusion. Each exception below is a
behaviour the code has: TLC shows it as a counterexample when the exception is dropped.

Server:

- `SizeIsExact` is about `DisjointSpec`. Under `Spec` two calls on one key settle the counter twice for one entry, and it stays wrong: a Set that loads a key
  another call is deleting takes it for a replacement, and the counter is one too low for good.
- `MaxItemsRespected` is about `SeenSpec`. Under `DisjointSpec`, while the eviction of one Set walks the map, other calls may remove the entries it has still to visit and
  store new ones where it has passed: it meets none, evicts nothing, and the cache stays over its limit until a new key comes.
- `RevokedPATsAreRefused`, `AddedIsKept` and `RevokedSessionsAreRefused` are about calls that do not overlap on one list. Otherwise
  the goroutine that records a PAT's last use writes back the list it read before the PAT was deleted; one of two sign-ins is lost, by the whole list it writes or by the array it shares; a reader fills
  the cache after a sign-out. `ImplementsTokenSet` and `Coherent` are about `SerialSpec` for the same reason.
- A death between `LATEST.sql` and the record of its version leaves a schema that every later start takes for 0.0.0; one between
  the commit of the migrations and the record of the version makes the next start execute them again, which fails for every file that
  is not idempotent, or lets the older release serve on the newer schema. `AllOrNothing` fails with `Transactional = FALSE` (MySQL), `SecretStays` with `Installed = {0}` and two servers.
- A comment on a deleted memo is created before the missing memo is noticed, and is listed as a memo from then on; so are the comments on the comments of a deleted memo.
- `DeletedWhole` and `SetAsAsked` except the attachments beyond the limit of a listing (`beyond`): the deletion of a memo with more than 100 leaves the others, and an edit neither compares nor removes them. Both are about one request at a time, and `SetAsAsked`
  about requests answered with success: `SetMemoRelations` that stops halfway has deleted the references and not made the new ones.
- `RowHasFile` needs paths of their own (two uploads of one name in one second share theirs) and no failure between file and row.

Client:

- `OwnData` leaves out page lives in which a sign-up or another tab changed the user without a sign-out (`mixed`): the earlier user's data stay in the cache.
- `SignedOutStays` leaves out a sign-out during which a refresh is under way, which sets the token again, and one the server did not confirm, whose cookie signs in again at the next page load.
- `EventuallyReady` counts a callback page with an error as one that stays: its effect runs without end and keeps the processor busy, but its message is shown and answers and clicks are still handled.
- `DetailTrue` and `CardTrue` leave out (`apart`) two updates of a memo that overlap, whose rollback may show a value never saved, and a fetch begun while a write is under way. A lost answer to a deletion is repeated and reported as an error.
- `DraftKept`: typing in a second editor drops the draft of the first that still waits (`missed`). A store still waiting when the memo is saved stores the posted text again (`spoilt`). `NoOrphans`: a save that fails after its uploads leaves attachments behind.
- `KeepsUntouched` of `Editor`: an editor whose memo could not be loaded may be saved and takes the attachments and relations off; an update reverts what another client changed since (`known`). The clock has seconds: an update may leave the update time as it was, and it never moves it back.
- `ViewTrue`: the list of members lacks a change whose fetch joined a first one the server had answered already (`missed`): a member created while the page is still loading is not shown until the list is fetched again. For tables other than the members: webhooks are filtered from the list captured at the confirmation, a page of attachments is appended to a list read again meanwhile, the inbox is not read again after a change (`raced`). The edit of a member sends no name and is refused; the edit of a shortcut creates another one.
- `SaidDeleted`: a member is said to be deleted before the server is asked. `KeepsUntouched` of `Settings`: an attachment another client has put to use since the page was loaded is deleted as unused.
- `FormTrue`: the theme chosen in the user menu is always refused and stays until the page is loaded (`blind`). `AuthContext` does not read the account again after an update, so a field that was saved and then
  changed back to what it still holds falls out of the mask: when it is saved together with another field, the dialog says that the update succeeded and the server keeps the other value. The model has this; `FormTrue` takes a field the dialog did not send for
  one with unsaved changes (`touched`), and the edit is lost when the dialog closes.
- `UrlTrue`: the page left while a change is being rendered leaves filters and address apart (`crossed`). Nor does it say what becomes of a tag clicked twice before a render (`overlap`).
- `AnswersTrue`: a late answer shows the statistics of the profile visited before (`late`), an earlier search may be answered last (`good`), and the browser's position fills a dialog that was cancelled (`told`).
- `SelectedShown`: the index is kept when a render makes another list (`stale`): the tags are read again under an open popup, or Home has taken the caret to another word and an arrow renders. The index may then be beyond the list, and Enter takes an entry that is not there. Between Home and
  that render (`moved`) the popup shows the list of the word before, and Enter would replace the word at the caret by one of its entries.
- `GridTrue`: a redistribution of the list before hides memos (`late`). The balance is by the height the editor had when the memos were dealt out (`measured`): what is typed since may make the first column any amount higher until the next redistribution.
- `TasksTrue`: a numbered task is shown with a box and never changes.

## 6. What is not modelled

`PROJECT.json` lists every component with its status and the reason, and under `hazards` what can go wrong in each.
Left out: the cache of users and its staleness after an archiving, the background runners, cron and scheduler (used by nothing
but their tests), the filter language, reactions and activities on the server; in the client, rendering and layout, the calendar and statistics, image previews,
translations, and the paging of memo lists. Also generated protobuf code, static files and RSS, single requests to outside services, text transformation
(Markdown), the Terraform files. A call of a database driver is one atomic step everywhere; the SQL text itself is not modelled.

## 7. What could come next

In order of importance:

1. Users: the user cache, archiving, deletion, the first-user race, with `TokenSet` as the specification of the lists it uses.
2. The two background runners: paging by offset over rows that change; payloads rewritten from stale content.
3. Activities and reactions in `Memos`: that every activity can be shown, that reactions go with their memo.
4. Several tabs: two copies of `Session` over one cookie, in place of `OtherSignIn` and `OtherSignOut`; paging of the lists in `MemoQueries`.
5. Deeper nesting in `Writing`: lists in lists, and quotes, as the Markdown parser sees them.
