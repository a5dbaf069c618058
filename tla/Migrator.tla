------------------------------ MODULE Migrator ------------------------------
(***************************************************************************)
(* store/migrator.go and the end of server/server.go: what a server does   *)
(* to the database when it starts in prod mode.  Several servers (tasks of *)
(* the ECS service) may start on one database, of different releases, and  *)
(* each may die at any step and be started again.                          *)
(*                                                                         *)
(* A schema is the set of the migration files whose effects it has.  The   *)
(* version "0.m.p" is the number 100 * m + p, and 0 is the empty version;  *)
(* a release is named by the version of the last file it could embed.      *)
(***************************************************************************)
EXTENDS Naturals, FiniteSets

CONSTANTS
    Procs,          \* the servers
    Files,          \* migration files, as records [minor, patch]
    Idempotent,     \* files that can be executed again without an error
    Releases,       \* the releases that are started
    Installed,      \* versions the database may have at first; 0: no database
    MinVersion,     \* 0.22.0
    Transactional,  \* FALSE for MySQL, which commits each DDL statement
    Secrets,        \* UUIDs for the secret key
    NoSecret, NoView, NoProc,
    MaxCrashes      \* bound on the times a server dies

V(f) == 100 * f.minor + f.patch + 1

ASSUME MigratorAssumption ==
    /\ Files \subseteq [minor : 0..99, patch : 0..98]  \* two digits each
    /\ Idempotent \subseteq Files
    /\ Releases \subseteq Nat /\ Installed \subseteq Nat
    /\ MinVersion \in Nat
    /\ Transactional \in BOOLEAN
    /\ NoSecret \notin Secrets
    /\ NoView \notin [version : Nat, secret : Secrets \cup {NoSecret}]
    /\ NoProc \notin Procs
    /\ MaxCrashes \in Nat

VARIABLES
    inited,   \* the memo table exists (IsInitialized)
    schema,   \* the files whose effects are committed
    row,      \* the BASIC row of system_setting: schema version, secret key
    tx,       \* the server whose transaction holds the write lock
    pc,       \* where each server is
    rel,      \* its release
    view,     \* the BASIC setting in its instanceSettingCache
    todo,     \* the files it has still to execute
    work,     \* the schema its open transaction sees
    minted,   \* secret keys generated so far
    crashes

vars == <<inited, schema, row, tx, pc, rel, view, todo, work, minted, crashes>>

Settings == [version : Nat, secret : Secrets \cup {NoSecret}]
PCs == {"down", "init", "latest", "latest_commit", "stamp", "check", "apply",
        "record", "secret", "up"}

TypeOK ==
    /\ inited \in BOOLEAN
    /\ schema \subseteq Files
    /\ row \in Settings
    /\ tx \in Procs \cup {NoProc}
    /\ pc \in [Procs -> PCs]
    /\ rel \in [Procs -> Releases \cup {0}]
    /\ DOMAIN view = Procs /\ \A p \in Procs : view[p] = NoView \/ view[p] \in Settings
    /\ \A p \in Procs : pc[p] \in {"apply", "record", "secret", "up"} => view[p] # NoView
    /\ todo \in [Procs -> SUBSET Files]
    /\ work \in [Procs -> SUBSET Files]
    /\ minted \subseteq Secrets
    /\ crashes \in 0..MaxCrashes

-----------------------------------------------------------------------------
Upto(v) == {f \in Files : V(f) <= v}
Embedded(r) == Upto(r)

\* GetCurrentSchemaVersion: the version of the last file of the release's
\* minor version, or patch 0 of that minor when it has no file.
Minor(r) == r \div 100
OfMinor(r) == {f \in Embedded(r) : f.minor = Minor(r)}
Current(r) ==
    IF OfMinor(r) = {} THEN 100 * Minor(r)
    ELSE V(CHOOSE f \in OfMinor(r) : \A g \in OfMinor(r) : g.patch <= f.patch)

\* Mutant: the file of the current version is applied again, that of the
\* target version is not.
PendingShifted(r, v) == {f \in Embedded(r) : V(f) >= v /\ V(f) < Current(r)}

\* shouldApplyMigration, for every file of the release.
Pending(r, v) == {f \in Embedded(r) : V(f) > v /\ V(f) <= Current(r)}

\* sort.Strings on the paths: directories "0.m/" compare digit by digit, the
\* files of one directory by their two-digit patch number.
DirRank(m) == IF m < 10 THEN 11 * m ELSE 11 * (m \div 10) + 1 + (m % 10)

Sorted(f, g) ==
    \/ DirRank(f.minor) < DirRank(g.minor)
    \/ f.minor = g.minor /\ f.patch <= g.patch

IsFirst(f, S) == f \in S /\ \A g \in S : Sorted(f, g)

\* A file can be executed once, on a schema that has all earlier files (or
\* again, if its statements do not mind).
Executes(f, s) == IF f \in s THEN f \in Idempotent ELSE \A g \in Files : V(g) < V(f) => g \in s

Init ==
    \E v \in Installed :
        /\ inited = (v > 0)
        /\ schema = Upto(v)
        /\ row \in {[version |-> v, secret |-> s] :
                       s \in IF v > 0 THEN Secrets ELSE {NoSecret}}
        /\ tx = NoProc
        /\ pc = [p \in Procs |-> "down"]
        /\ rel = [p \in Procs |-> 0]
        /\ view = [p \in Procs |-> NoView]
        /\ todo = [p \in Procs |-> {}]
        /\ work = [p \in Procs |-> {}]
        /\ minted = {row.secret} \ {NoSecret}
        /\ crashes = 0

-----------------------------------------------------------------------------
Goto(p, label) == pc' = [pc EXCEPT ![p] = label]

\* Mutant: the transaction of a process that ends is never rolled back.
ExitHolding(p) ==
    /\ Goto(p, "down")
    /\ view' = [view EXCEPT ![p] = NoView]
    /\ todo' = [todo EXCEPT ![p] = {}]
    /\ work' = [work EXCEPT ![p] = {}]
    /\ UNCHANGED tx

\* The process is gone: its memory is lost and its transaction rolled back.
Exit(p) ==
    /\ Goto(p, "down")
    /\ view' = [view EXCEPT ![p] = NoView]
    /\ todo' = [todo EXCEPT ![p] = {}]
    /\ work' = [work EXCEPT ![p] = {}]
    /\ tx' = IF tx = p THEN NoProc ELSE tx

Start(p, r) ==
    /\ pc[p] = "down"
    /\ rel' = [rel EXCEPT ![p] = r]
    /\ Goto(p, "init")
    /\ UNCHANGED <<inited, schema, row, tx, view, todo, work, minted, crashes>>

\* preMigrate: IsInitialized.
CheckInit(p) ==
    /\ pc[p] = "init"
    /\ Goto(p, IF inited THEN "check" ELSE "latest")
    /\ UNCHANGED <<inited, schema, row, tx, rel, view, todo, work, minted, crashes>>

\* LATEST.sql in a transaction: it fails if its tables exist by now.  Without
\* transactional DDL the memo table exists as soon as it has been created.
Latest(p) ==
    /\ pc[p] = "latest"
    /\ tx = NoProc
    /\ IF inited
       THEN Exit(p) /\ UNCHANGED inited
       ELSE /\ Goto(p, "latest_commit")
            /\ tx' = IF Transactional THEN p ELSE tx
            /\ inited' = ~Transactional
            /\ UNCHANGED <<view, todo, work>>
    /\ UNCHANGED <<schema, row, rel, minted, crashes>>

LatestCommit(p) ==
    /\ pc[p] = "latest_commit"
    /\ inited' = TRUE
    /\ schema' = schema \cup Embedded(rel[p])
    /\ tx' = IF tx = p THEN NoProc ELSE tx
    /\ Goto(p, "stamp")
    /\ UNCHANGED <<row, rel, view, todo, work, minted, crashes>>

\* GetInstanceBasicSetting: the first call reads the row, later ones the cache.
ReadSetting(p) ==
    /\ pc[p] \in {"stamp", "check"}
    /\ view[p] = NoView
    /\ view' = [view EXCEPT ![p] = row]
    /\ UNCHANGED <<inited, schema, row, tx, pc, rel, todo, work, minted, crashes>>

\* updateCurrentSchemaVersion: the setting it has, with the new version.
RecordVersion(p) ==
    /\ pc[p] \in {"stamp", "record"}
    /\ view[p] # NoView
    /\ row' = [view[p] EXCEPT !.version = Current(rel[p])]
    /\ view' = [view EXCEPT ![p] = row']
    /\ Goto(p, IF pc[p] = "stamp" THEN "check" ELSE "secret")
    /\ UNCHANGED <<inited, schema, tx, rel, todo, work, minted, crashes>>

TooOld(v) == v # 0 /\ v < MinVersion
Newer(v, r) == v # 0 /\ v > Current(r)
Older(v, r) == v = 0 \/ v < Current(r)

\* checkMinimumUpgradeVersion and the downgrade check refuse the database.
Refuse(p) ==
    /\ pc[p] = "check" /\ view[p] # NoView
    /\ TooOld(view[p].version) \/ Newer(view[p].version, rel[p])
    /\ Exit(p)
    /\ UNCHANGED <<inited, schema, row, rel, minted, crashes>>

Accept(p) ==
    /\ pc[p] = "check" /\ view[p] # NoView
    /\ LET v == view[p].version
           r == rel[p]
       IN  /\ ~TooOld(v) /\ ~Newer(v, r)
           /\ IF Older(v, r)
              THEN Goto(p, "apply") /\ todo' = [todo EXCEPT ![p] = Pending(r, v)]
              ELSE Goto(p, "secret") /\ UNCHANGED todo
    /\ UNCHANGED <<inited, schema, row, tx, rel, view, work, minted, crashes>>

\* The schema that the next statement of p sees.
Seen(p) == IF tx = p THEN work[p] ELSE schema

\* Mutant: each file is committed by itself.
ApplyFileAlone(p, f) ==
    /\ pc[p] = "apply"
    /\ IsFirst(f, todo[p])
    /\ Executes(f, schema)
    /\ todo' = [todo EXCEPT ![p] = @ \ {f}]
    /\ schema' = schema \cup {f}
    /\ UNCHANGED <<inited, row, tx, pc, rel, view, work, minted, crashes>>

\* applyMigrations executes the next file; an error rolls everything back.
ApplyFile(p, f) ==
    /\ pc[p] = "apply"
    /\ IsFirst(f, todo[p])
    /\ tx \in {p, NoProc}
    /\ IF ~Executes(f, Seen(p))
       THEN Exit(p) /\ UNCHANGED schema
       ELSE /\ todo' = [todo EXCEPT ![p] = @ \ {f}]
            /\ IF Transactional
               THEN /\ tx' = p
                    /\ work' = [work EXCEPT ![p] = Seen(p) \cup {f}]
                    /\ UNCHANGED schema
               ELSE /\ schema' = schema \cup {f}
                    /\ UNCHANGED <<tx, work>>
            /\ UNCHANGED <<pc, view>>
    /\ UNCHANGED <<inited, row, rel, minted, crashes>>

\* Mutant: the transaction is left to the deferred Rollback.
CommitForgotten(p) ==
    /\ pc[p] = "apply"
    /\ todo[p] = {}
    /\ tx' = IF tx = p THEN NoProc ELSE tx
    /\ work' = [work EXCEPT ![p] = {}]
    /\ Goto(p, "record")
    /\ UNCHANGED <<inited, schema, row, rel, view, todo, minted, crashes>>

\* The transaction of all the files is committed.
Commit(p) ==
    /\ pc[p] = "apply"
    /\ todo[p] = {}
    /\ schema' = Seen(p)
    /\ tx' = IF tx = p THEN NoProc ELSE tx
    /\ work' = [work EXCEPT ![p] = {}]
    /\ Goto(p, "record")
    /\ UNCHANGED <<inited, row, rel, view, todo, minted, crashes>>

\* getOrUpsertInstanceBasicSetting: a missing secret key is generated and the
\* whole setting is written; then the server serves.
Serve(p) ==
    /\ pc[p] = "secret"
    /\ IF view[p].secret = NoSecret
       THEN \E s \in Secrets \ minted :
              /\ row' = [view[p] EXCEPT !.secret = s]
              /\ view' = [view EXCEPT ![p] = row']
              /\ minted' = minted \cup {s}
       ELSE UNCHANGED <<row, view, minted>>
    /\ Goto(p, "up")
    /\ UNCHANGED <<inited, schema, tx, rel, todo, work, crashes>>

\* Killed, stopped by a deployment, or ended by an error of the database.
Crash(p) ==
    /\ pc[p] # "down"
    /\ crashes < MaxCrashes
    /\ crashes' = crashes + 1
    /\ Exit(p)
    /\ UNCHANGED <<inited, schema, row, rel, minted>>

Run(p) ==
    \/ \E r \in Releases : Start(p, r)
    \/ CheckInit(p) \/ Latest(p) \/ LatestCommit(p)
    \/ ReadSetting(p) \/ RecordVersion(p)
    \/ Refuse(p) \/ Accept(p)
    \/ \E f \in Files : ApplyFile(p, f)
    \/ Commit(p) \/ Serve(p)

Next == \E p \in Procs : Run(p) \/ Crash(p)

Spec == Init /\ [][Next]_vars

\* A server keeps running, and one that ended is started again (the service
\* keeps its desired count of tasks).
FairSpec == Spec /\ \A p \in Procs : WF_vars(Run(p))

-----------------------------------------------------------------------------
(* Properties.                                                              *)

\* The recorded version never claims a migration that the schema lacks,
\* whatever servers died or raced in between.
VersionIsBacked == Upto(row.version) \subseteq schema

\* A server serves only on a schema that has all its migrations.
ServesOnItsSchema == \A p \in Procs : pc[p] = "up" => Embedded(rel[p]) \subseteq schema

\* "It runs all migrations in a single transaction for atomicity": no server
\* leaves a schema between that of the recorded version and that of a release.
\* "Files sorted lexicographically and applied in order": inside the batch, on
\* a supported database, no file is executed before one of an earlier version.
AllOrNothing ==
    /\ (\A p \in Procs : pc[p] # "apply") =>
           schema \in {Upto(row.version)} \cup {Upto(Current(r)) : r \in Releases}
    /\ \A p \in Procs :
           pc[p] = "apply" /\ view[p].version >= MinVersion =>
               \A f \in todo[p] : IsFirst(f, todo[p]) => \A g \in todo[p] : V(f) <= V(g)

\* Once there is a secret key it stays: tokens signed with it remain valid.
SecretStays == [][row.secret # NoSecret => row'.secret = row.secret]_vars

\* When the newest release alone is started, on a database whose pending files
\* may all be executed again, one server comes to serve and keeps serving once
\* servers stop dying, wherever they died before (migrator.go:175-215: a death
\* between the commit of the files and the record of the version included).
Newest == CHOOSE r \in Releases : \A s \in Releases : s <= r
EventuallyServes ==
    /\ inited /\ row.version >= MinVersion /\ Pending(Newest, row.version) \subseteq Idempotent
    /\ [](\A p \in Procs : rel[p] \in {0, Newest})
    => <>[](\E p \in Procs : pc[p] = "up")
=============================================================================
