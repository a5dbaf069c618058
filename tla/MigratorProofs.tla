--------------------------- MODULE MigratorProofs ---------------------------
(* Theorems about Migrator, for any servers, files, releases and secrets,  *)
(* with and without transactional DDL, and any number of deaths.           *)
EXTENDS Migrator, WellFoundedInduction, TLAPS

\* A non-empty set of naturals below a bound has a largest member.
LEMMA LargestOfBounded ==
    ASSUME NEW S \in SUBSET (0..98), S # {}
    PROVE  \E m \in S : \A n \in S : n <= m
    <1> DEFINE R == {p \in Nat \X Nat : p[1] < p[2]}
               T == {98 - n : n \in S}
    <1>1. IsWellFoundedOn(R, Nat)
        BY NatLessThanWellFounded DEF OpToRel
    <1>2. T \subseteq Nat /\ T # {}
        <2>1. \A n \in S : n \in 0..98
            OBVIOUS
        <2>2. \A n \in 0..98 : 98 - n \in Nat
            OBVIOUS
        <2>3. \A n \in S : 98 - n \in Nat
            BY <2>1, <2>2
        <2>4. PICK n \in S : TRUE
            OBVIOUS
        <2>5. 98 - n \in T
            BY <2>4
        <2> QED BY <2>3, <2>5
    <1> HIDE DEF R, T
    <1>3. PICK x \in T : \A y \in T : <<y, x>> \notin R
        BY <1>1, <1>2, WFMin
    <1>4. PICK m \in S : x = 98 - m
        BY DEF T
    <1>5. ASSUME NEW n \in S PROVE n <= m
        <2>1. 98 - n \in T /\ 98 - n \in Nat /\ x \in Nat
            BY <1>2 DEF T
        <2>2. ~(98 - n < x)
            BY <1>3, <2>1 DEF R
        <2> QED BY <1>4, <2>1, <2>2
    <1> QED BY <1>5

\* The version of a file orders files by minor, then by patch.
LEMMA FileVersions ==
    \A f \in Files : /\ f.minor \in Nat /\ f.minor <= 99 /\ f.patch \in Nat /\ f.patch <= 98
                     /\ V(f) \in Nat /\ V(f) = 100 * f.minor + f.patch + 1
    <1>1. \A m \in 0..99, n \in 0..98 : m \in Nat /\ m <= 99 /\ n \in Nat /\ n <= 98
        OBVIOUS
    <1>2. \A f \in Files : f.minor \in 0..99 /\ f.patch \in 0..98
        BY MigratorAssumption
    <1>3. \A f \in Files : f.minor \in Nat /\ f.minor <= 99 /\ f.patch \in Nat /\ f.patch <= 98
        BY <1>1, <1>2
    <1> QED BY <1>3 DEF V

\* The version a release records is that of the last file it embeds: every
\* file it has, and no other, is of that version or an earlier one.
LEMMA CurrentIsLast ==
    ASSUME NEW r \in Nat
    PROVE  /\ Current(r) \in Nat
           /\ Upto(Current(r)) = Embedded(r)
    <1> USE MigratorAssumption
    <1>1. \A f \in Files : /\ f.minor \in Nat /\ f.patch \in Nat /\ V(f) \in Nat
                           /\ V(f) = 100 * f.minor + f.patch + 1
        BY FileVersions
    <1>2. Minor(r) \in Nat /\ 100 * Minor(r) <= r /\ r < 100 * Minor(r) + 100
        BY DEF Minor
    <1>3. \A f \in Embedded(r) : f \in Files /\ V(f) <= r /\ f.minor <= Minor(r)
        BY <1>1, <1>2 DEF Embedded, Upto
    <1>4. CASE OfMinor(r) = {}
        <2>1. Current(r) = 100 * Minor(r)
            BY <1>4 DEF Current
        <2>2. ASSUME NEW f \in Embedded(r) PROVE V(f) <= Current(r)
            <3>1. f.minor < Minor(r)
                BY <1>1, <1>2, <1>3, <1>4 DEF OfMinor
            <3> QED BY <1>1, <1>2, <1>3, <2>1, <3>1
        <2> QED BY <1>1, <1>2, <2>1, <2>2 DEF Upto, Embedded
    <1>5. CASE OfMinor(r) # {}
        <2> DEFINE P == {f.patch : f \in OfMinor(r)}
        <2>1. OfMinor(r) \subseteq Embedded(r) /\ \A f \in OfMinor(r) : f.minor = Minor(r)
            BY DEF OfMinor
        <2>2. P \in SUBSET (0..98) /\ P # {}
            <3>1. \A f \in OfMinor(r) : f.patch \in 0..98
                BY <1>3, <2>1, MigratorAssumption
            <3> QED BY <3>1, <1>5
        <2>3. PICK m \in P : \A n \in P : n <= m
            BY <2>2, LargestOfBounded
        <2>4. \E f \in OfMinor(r) : \A g \in OfMinor(r) : g.patch <= f.patch
            BY <2>3
        <2> DEFINE top == CHOOSE f \in OfMinor(r) : \A g \in OfMinor(r) : g.patch <= f.patch
        <2>5. top \in OfMinor(r) /\ \A g \in OfMinor(r) : g.patch <= top.patch
            BY <2>4
        <2>6. Current(r) = V(top)
            BY <1>5 DEF Current
        <2> HIDE DEF top
        <2>7. Current(r) \in Nat /\ Current(r) <= r
            BY <1>1, <1>3, <2>1, <2>5, <2>6
        <2>8. ASSUME NEW f \in Embedded(r) PROVE V(f) <= Current(r)
            <3>1. f.minor = Minor(r) => f \in OfMinor(r)
                BY DEF OfMinor
            <3> QED BY <1>1, <1>2, <1>3, <2>1, <2>5, <2>6, <3>1
        <2> QED BY <1>1, <2>7, <2>8 DEF Upto, Embedded
    <1> QED BY <1>4, <1>5

-----------------------------------------------------------------------------
\* What keeps the recorded version honest while servers race and die: the
\* files of the recorded version, and of the version each server has in its
\* cache, are committed; a server past its migrations has all of its files,
\* and one that applies them has, or has still to execute, each of them; the
\* open transaction, if any, started from the schema that is still committed.
TransactionIsCurrent ==
    /\ ~Transactional => tx = NoProc
    /\ \A p \in Procs :
        /\ tx = p => pc[p] \in {"latest_commit", "apply"}
        /\ Transactional /\ pc[p] = "latest_commit" => tx = p
        /\ tx = p /\ pc[p] = "apply" => schema \subseteq work[p]

MigrationsInHand ==
    \A p \in Procs :
        /\ pc[p] # "down" => rel[p] \in Releases
        /\ view[p] # NoView => Upto(view[p].version) \subseteq schema
        /\ pc[p] \in {"stamp", "record", "secret", "up"} => Embedded(rel[p]) \subseteq schema
        /\ pc[p] = "apply" => Embedded(rel[p]) \subseteq Seen(p) \cup todo[p]

MigrationInv ==
    /\ TypeOK
    /\ VersionIsBacked
    /\ TransactionIsCurrent
    /\ MigrationsInHand

\* The first schema is that of the version its row records.
LEMMA InitInv == Init => MigrationInv
    <1> SUFFICES ASSUME Init PROVE MigrationInv
        OBVIOUS
    <1> USE MigratorAssumption
    <1>1. PICK v \in Installed :
              /\ inited = (v > 0)
              /\ schema = Upto(v)
              /\ row \in {[version |-> v, secret |-> s] :
                               s \in IF v > 0 THEN Secrets ELSE {NoSecret}}
        BY DEF Init
    <1>2. /\ tx = NoProc
          /\ pc = [p \in Procs |-> "down"]
          /\ rel = [p \in Procs |-> 0]
          /\ view = [p \in Procs |-> NoView]
          /\ todo = [p \in Procs |-> {}]
          /\ work = [p \in Procs |-> {}]
          /\ minted = {row.secret} \ {NoSecret}
          /\ crashes = 0
        BY DEF Init
    <1>3. row \in Settings /\ row.version = v /\ v \in Nat
        BY <1>1 DEF Settings
    <1>4. schema \subseteq Files /\ inited \in BOOLEAN
        BY <1>1, <1>3 DEF Upto
    <1>5. minted \subseteq Secrets
        BY <1>2, <1>3 DEF Settings
    <1>6. TypeOK
        BY <1>2, <1>3, <1>4, <1>5 DEF TypeOK, PCs
    <1>7. VersionIsBacked
        BY <1>1, <1>3 DEF VersionIsBacked
    <1>8. TransactionIsCurrent
        BY <1>2 DEF TransactionIsCurrent
    <1>9. MigrationsInHand
        BY <1>2 DEF MigrationsInHand
    <1> QED BY <1>6, <1>7, <1>8, <1>9 DEF MigrationInv
-----------------------------------------------------------------------------
\* A server that ends leaves the database as it was: its open transaction is
\* rolled back, so nothing that is committed or recorded changes.
LEMMA ExitKeepsInv ==
    ASSUME MigrationInv, NEW p \in Procs, Exit(p),
           UNCHANGED <<inited, schema, row, rel, minted>>, crashes' \in 0..MaxCrashes
    PROVE  MigrationInv'
    <1> USE MigratorAssumption
    <1>1. /\ TypeOK /\ VersionIsBacked /\ TransactionIsCurrent /\ MigrationsInHand
        BY DEF MigrationInv
    <1>2. TypeOK'
        BY <1>1 DEF TypeOK, Exit, Goto, PCs
    <1>3. VersionIsBacked'
        BY <1>1 DEF VersionIsBacked, Upto
    <1>4. TransactionIsCurrent'
        BY <1>1 DEF TransactionIsCurrent, TypeOK, Exit, Goto
    <1>5. MigrationsInHand'
        BY <1>1 DEF MigrationsInHand, TypeOK, Exit, Goto, Seen, Upto, Embedded
    <1> QED BY <1>2, <1>3, <1>4, <1>5 DEF MigrationInv

\* Starting, looking for the memo table and reading the setting.
LEMMA BeginKeepsInv ==
    ASSUME MigrationInv, NEW p \in Procs,
           (\E r \in Releases : Start(p, r)) \/ CheckInit(p) \/ ReadSetting(p)
    PROVE  MigrationInv'
    <1> USE MigratorAssumption
    <1>1. /\ TypeOK /\ VersionIsBacked /\ TransactionIsCurrent /\ MigrationsInHand
        BY DEF MigrationInv
    <1>2. CASE \E r \in Releases : Start(p, r)
        <2>1. PICK r \in Releases : Start(p, r)
            BY <1>2
        <2>2. TypeOK'
            BY <1>1, <2>1 DEF TypeOK, Start, Goto, PCs
        <2>3. VersionIsBacked' /\ TransactionIsCurrent'
            BY <1>1, <2>1 DEF VersionIsBacked, Upto, TransactionIsCurrent, TypeOK, Start, Goto
        <2>4. MigrationsInHand'
            BY <1>1, <2>1 DEF MigrationsInHand, TypeOK, Start, Goto, Seen, Upto, Embedded
        <2> QED BY <2>2, <2>3, <2>4 DEF MigrationInv
    <1>3. CASE CheckInit(p)
        <2>1. TypeOK'
            BY <1>1, <1>3 DEF TypeOK, CheckInit, Goto, PCs
        <2>2. VersionIsBacked' /\ TransactionIsCurrent'
            BY <1>1, <1>3 DEF VersionIsBacked, Upto, TransactionIsCurrent, TypeOK, CheckInit, Goto
        <2>3. MigrationsInHand'
            BY <1>1, <1>3 DEF MigrationsInHand, TypeOK, CheckInit, Goto, Seen, Upto, Embedded
        <2> QED BY <2>1, <2>2, <2>3 DEF MigrationInv
    <1>4. CASE ReadSetting(p)
        <2>1. TypeOK'
            BY <1>1, <1>4 DEF TypeOK, ReadSetting
        <2>2. VersionIsBacked' /\ TransactionIsCurrent'
            BY <1>1, <1>4 DEF VersionIsBacked, Upto, TransactionIsCurrent, TypeOK, ReadSetting
        <2>3. MigrationsInHand'
            BY <1>1, <1>4 DEF MigrationsInHand, VersionIsBacked, TypeOK, ReadSetting, Seen, Upto,
                Embedded
        <2> QED BY <2>1, <2>2, <2>3 DEF MigrationInv
    <1> QED BY <1>2, <1>3, <1>4

\* Creating the schema of a fresh database.
LEMMA FreshKeepsInv ==
    ASSUME MigrationInv, NEW p \in Procs, Latest(p) \/ LatestCommit(p)
    PROVE  MigrationInv'
    <1> USE MigratorAssumption
    <1>1. /\ TypeOK /\ VersionIsBacked /\ TransactionIsCurrent /\ MigrationsInHand
        BY DEF MigrationInv
    <1>2. CASE Latest(p) /\ inited
        <2>1. Exit(p) /\ UNCHANGED <<inited, schema, row, rel, minted, crashes>>
            BY <1>2 DEF Latest
        <2>2. crashes' \in 0..MaxCrashes
            BY <1>1, <2>1 DEF TypeOK
        <2> QED BY <2>1, <2>2, ExitKeepsInv
    <1>3. CASE Latest(p) /\ ~inited
        <2>1. TypeOK'
            BY <1>1, <1>3 DEF TypeOK, Latest, Goto, PCs
        <2>2. VersionIsBacked'
            BY <1>1, <1>3 DEF VersionIsBacked, Latest, Upto
        <2>3. TransactionIsCurrent'
            BY <1>1, <1>3 DEF TransactionIsCurrent, TypeOK, Latest, Goto
        <2>4. MigrationsInHand'
            BY <1>1, <1>3 DEF MigrationsInHand, TypeOK, Latest, Goto, Seen, Upto, Embedded
        <2> QED BY <2>1, <2>2, <2>3, <2>4 DEF MigrationInv
    <1>4. CASE LatestCommit(p)
        <2>1. rel[p] \in Nat /\ rel[p] \in Releases
            BY <1>1, <1>4 DEF MigrationsInHand, LatestCommit
        <2>2. Embedded(rel[p]) \subseteq Files
            BY DEF Embedded, Upto
        <2>3. TypeOK'
            BY <1>1, <1>4, <2>2 DEF TypeOK, LatestCommit, Goto, PCs
        <2>4. schema \subseteq schema' /\ Embedded(rel[p]) \subseteq schema'
            BY <1>4 DEF LatestCommit
        <2>5. VersionIsBacked'
            BY <1>1, <1>4, <2>4 DEF VersionIsBacked, LatestCommit, Upto
        <2>6. \A q \in Procs : q # p => ~(tx = q)
            BY <1>1, <1>4 DEF TransactionIsCurrent, LatestCommit
        <2>7. TransactionIsCurrent'
            BY <1>1, <1>4, <2>6 DEF TransactionIsCurrent, TypeOK, LatestCommit, Goto
        <2>8. \A q \in Procs : pc[q] = "apply" => Seen(q) \subseteq Seen(q)'
            BY <1>1, <1>4, <2>4, <2>6 DEF Seen, LatestCommit
        <2>9. MigrationsInHand'
            <3> SUFFICES ASSUME NEW q \in Procs
                PROVE /\ pc'[q] # "down" => rel'[q] \in Releases
                      /\ view'[q] # NoView => Upto(view'[q].version) \subseteq schema'
                      /\ pc'[q] \in {"stamp", "record", "secret", "up"} =>
                            Embedded(rel'[q]) \subseteq schema'
                      /\ pc'[q] = "apply" => Embedded(rel'[q]) \subseteq Seen(q)' \cup todo'[q]
                BY DEF MigrationsInHand, Upto, Embedded
            <3>1. rel' = rel /\ view' = view /\ todo' = todo /\ pc \in [Procs -> PCs]
                  /\ pc' = [pc EXCEPT ![p] = "stamp"]
                BY <1>1, <1>4 DEF LatestCommit, Goto, TypeOK
            <3>2. CASE q = p
                BY <1>1, <2>1, <2>4, <3>1, <3>2 DEF MigrationsInHand
            <3>3. CASE q # p
                BY <1>1, <2>4, <2>8, <3>1, <3>3 DEF MigrationsInHand
            <3> QED BY <3>2, <3>3
        <2> QED BY <2>3, <2>5, <2>7, <2>9 DEF MigrationInv
    <1> QED BY <1>2, <1>3, <1>4
\* The recorded version is that of a release whose files are all committed.
LEMMA RecordKeepsInv ==
    ASSUME MigrationInv, NEW p \in Procs, RecordVersion(p)
    PROVE  MigrationInv'
    <1> USE MigratorAssumption
    <1>1. /\ TypeOK /\ VersionIsBacked /\ TransactionIsCurrent /\ MigrationsInHand
        BY DEF MigrationInv
    <1>2. /\ pc[p] \in {"stamp", "record"} /\ view[p] # NoView /\ view[p] \in Settings
          /\ row' = [view[p] EXCEPT !.version = Current(rel[p])]
          /\ view' = [view EXCEPT ![p] = row']
          /\ pc' = [pc EXCEPT ![p] = IF pc[p] = "stamp" THEN "check" ELSE "secret"]
          /\ UNCHANGED <<inited, schema, tx, rel, todo, work, minted, crashes>>
        BY <1>1 DEF RecordVersion, Goto, TypeOK
    <1>3. rel[p] \in Nat /\ Embedded(rel[p]) \subseteq schema
        BY <1>1, <1>2 DEF MigrationsInHand
    <1>4. Current(rel[p]) \in Nat /\ Upto(Current(rel[p])) \subseteq schema
        BY <1>3, CurrentIsLast
    <1> DEFINE v == Current(rel[p])
    <1> HIDE DEF v
    <1>5. row' \in Settings /\ row'.version = v /\ v \in Nat /\ Upto(v) \subseteq schema
        BY <1>2, <1>4 DEF Settings, v
    <1>10. \A x \in Settings : x # NoView
        BY DEF Settings
    <1>6. TypeOK'
        BY <1>1, <1>2, <1>5, <1>10 DEF TypeOK, PCs
    <1>7. VersionIsBacked'
        BY <1>2, <1>5 DEF VersionIsBacked, Upto
    <1>8. TransactionIsCurrent'
        BY <1>1, <1>2 DEF TransactionIsCurrent, TypeOK
    <1>9. MigrationsInHand'
        BY <1>1, <1>2, <1>5 DEF MigrationsInHand, TypeOK, Seen, Upto, Embedded
    <1> QED BY <1>6, <1>7, <1>8, <1>9 DEF MigrationInv

\* The version checks: a database that is accepted without migrations has all
\* files of the release, and otherwise the missing ones are on the list.
LEMMA CheckKeepsInv ==
    ASSUME MigrationInv, NEW p \in Procs, Refuse(p) \/ Accept(p)
    PROVE  MigrationInv'
    <1> USE MigratorAssumption
    <1>1. /\ TypeOK /\ VersionIsBacked /\ TransactionIsCurrent /\ MigrationsInHand
        BY DEF MigrationInv
    <1>2. CASE Refuse(p)
        <2>1. Exit(p) /\ UNCHANGED <<inited, schema, row, rel, minted, crashes>>
            BY <1>2 DEF Refuse
        <2>2. crashes' \in 0..MaxCrashes
            BY <1>1, <2>1 DEF TypeOK
        <2> QED BY <2>1, <2>2, ExitKeepsInv
    <1>3. CASE Accept(p)
        <2> DEFINE v == view[p].version
                   r == rel[p]
        <2>1. /\ pc[p] = "check" /\ view[p] \in Settings /\ v \in Nat /\ r \in Nat
              /\ Upto(v) \subseteq schema
            BY <1>1, <1>3 DEF Accept, TypeOK, Settings, MigrationsInHand
        <2>2. Current(r) \in Nat /\ Upto(Current(r)) = Embedded(r)
            BY <2>1, CurrentIsLast
        <2>3. \A f \in Files : V(f) \in Nat
            BY FileVersions
        <2>4. /\ Pending(r, v) \subseteq Files
              /\ Embedded(r) \subseteq Upto(v) \cup Pending(r, v)
            BY <2>1, <2>2, <2>3 DEF Pending, Upto, Embedded
        <2>5. /\ UNCHANGED <<inited, schema, row, tx, rel, view, work, minted, crashes>>
              /\ \/ /\ pc' = [pc EXCEPT ![p] = "apply"]
                    /\ todo' = [todo EXCEPT ![p] = Pending(r, v)]
                 \/ /\ ~Older(v, r)
                    /\ pc' = [pc EXCEPT ![p] = "secret"]
                    /\ todo' = todo
            BY <1>3 DEF Accept, Goto
        <2>6. ~Older(v, r) => Embedded(r) \subseteq schema
            BY <2>1, <2>2, <2>3 DEF Older, Upto, Embedded
        <2> HIDE DEF v, r
        <2>7. view[p] # NoView
            BY <1>3 DEF Accept
        <2>8. TypeOK'
            BY <1>1, <2>4, <2>5, <2>7 DEF TypeOK, PCs
        <2>9. VersionIsBacked' /\ TransactionIsCurrent'
            <3>1. tx # p
                BY <1>1, <2>1 DEF TransactionIsCurrent
            <3> QED BY <1>1, <2>5, <3>1 DEF VersionIsBacked, Upto, TransactionIsCurrent, TypeOK
        <2>10. MigrationsInHand'
            <3> SUFFICES ASSUME NEW q \in Procs
                PROVE /\ pc'[q] # "down" => rel'[q] \in Releases
                      /\ view'[q] # NoView => Upto(view'[q].version) \subseteq schema'
                      /\ pc'[q] \in {"stamp", "record", "secret", "up"} =>
                            Embedded(rel'[q]) \subseteq schema'
                      /\ pc'[q] = "apply" => Embedded(rel'[q]) \subseteq Seen(q)' \cup todo'[q]
                BY DEF MigrationsInHand, Upto, Embedded
            <3>1. pc \in [Procs -> PCs] /\ todo \in [Procs -> SUBSET Files] /\ Seen(q)' = Seen(q)
                BY <1>1, <2>5 DEF TypeOK, Seen
            <3>2. CASE q = p
                <4>1. tx # p /\ Seen(p) = schema
                    BY <1>1, <2>1 DEF TransactionIsCurrent, Seen
                <4>2. rel[p] \in Releases
                    BY <1>1, <2>1 DEF MigrationsInHand
                <4>3. pc'[p] = "apply" => Embedded(rel[p]) \subseteq Seen(p) \cup todo'[p]
                    BY <2>1, <2>4, <2>5, <3>1, <4>1 DEF r
                <4>4. pc'[p] # "apply" => Embedded(rel[p]) \subseteq schema
                    BY <2>1, <2>5, <2>6, <3>1 DEF r
                <4> QED BY <2>1, <2>5, <3>1, <3>2, <4>2, <4>3, <4>4 DEF r, v
            <3>3. CASE q # p
                BY <1>1, <2>5, <3>1, <3>3 DEF MigrationsInHand
            <3> QED BY <3>2, <3>3
        <2> QED BY <2>8, <2>9, <2>10 DEF MigrationInv
    <1> QED BY <1>2, <1>3
\* The files of one transaction add up to the schema it commits.
LEMMA ApplyKeepsInv ==
    ASSUME MigrationInv, NEW p \in Procs, NEW f \in Files, ApplyFile(p, f)
    PROVE  MigrationInv'
    <1> USE MigratorAssumption
    <1>1. /\ TypeOK /\ VersionIsBacked /\ TransactionIsCurrent /\ MigrationsInHand
        BY DEF MigrationInv
    <1>2. /\ pc[p] = "apply" /\ f \in todo[p] /\ tx \in {p, NoProc}
          /\ UNCHANGED <<inited, row, rel, minted, crashes>>
        BY DEF ApplyFile, IsFirst
    <1>3. CASE ~Executes(f, Seen(p))
        <2>1. Exit(p) /\ UNCHANGED <<inited, schema, row, rel, minted>>
            BY <1>2, <1>3 DEF ApplyFile
        <2>2. crashes' \in 0..MaxCrashes
            BY <1>1, <1>2 DEF TypeOK
        <2> QED BY <2>1, <2>2, ExitKeepsInv
    <1>4. CASE Executes(f, Seen(p))
        <2>1. /\ todo' = [todo EXCEPT ![p] = @ \ {f}]
              /\ UNCHANGED <<pc, view>>
              /\ Transactional => /\ tx' = p /\ UNCHANGED schema
                                 /\ work' = [work EXCEPT ![p] = Seen(p) \cup {f}]
              /\ ~Transactional => UNCHANGED <<tx, work>> /\ schema' = schema \cup {f}
            BY <1>4 DEF ApplyFile
        <2>2. schema \subseteq Seen(p) /\ Seen(p) \subseteq Files
            BY <1>1, <1>2 DEF TransactionIsCurrent, Seen, TypeOK
        <2>3. TypeOK'
            BY <1>1, <1>2, <2>1, <2>2 DEF TypeOK
        <2>4. schema \subseteq schema'
            BY <1>1, <2>1 DEF TypeOK
        <2>5. VersionIsBacked'
            BY <1>1, <1>2, <2>4 DEF VersionIsBacked, Upto
        <2>6. TransactionIsCurrent'
            BY <1>1, <1>2, <2>1, <2>2 DEF TransactionIsCurrent, TypeOK
        <2>7. Seen(p)' = Seen(p) \cup {f}
            <3>1. CASE Transactional
                BY <1>1, <2>1, <3>1 DEF Seen, TypeOK
            <3>2. CASE ~Transactional
                BY <1>1, <2>1, <3>2 DEF Seen, TransactionIsCurrent
            <3> QED BY <3>1, <3>2
        <2>8. \A q \in Procs \ {p} : Seen(q) \subseteq Seen(q)'
            BY <1>1, <1>2, <2>1, <2>4 DEF Seen, TypeOK
        <2>9. MigrationsInHand'
            BY <1>1, <1>2, <2>1, <2>4, <2>7, <2>8 DEF MigrationsInHand, TypeOK, Upto, Embedded
        <2> QED BY <2>3, <2>5, <2>6, <2>9 DEF MigrationInv
    <1> QED BY <1>3, <1>4

\* The commit publishes what the transaction saw, which includes everything
\* that was committed before.
LEMMA CommitKeepsInv ==
    ASSUME MigrationInv, NEW p \in Procs, Commit(p)
    PROVE  MigrationInv'
    <1> USE MigratorAssumption
    <1>1. /\ TypeOK /\ VersionIsBacked /\ TransactionIsCurrent /\ MigrationsInHand
        BY DEF MigrationInv
    <1>2. /\ pc[p] = "apply" /\ todo[p] = {} /\ schema' = Seen(p)
          /\ tx' = IF tx = p THEN NoProc ELSE tx
          /\ work' = [work EXCEPT ![p] = {}]
          /\ pc' = [pc EXCEPT ![p] = "record"]
          /\ UNCHANGED <<inited, row, rel, view, todo, minted, crashes>>
        BY DEF Commit, Goto
    <1>3. schema \subseteq schema' /\ schema' \subseteq Files
        BY <1>1, <1>2 DEF TransactionIsCurrent, Seen, TypeOK
    <1>4. Embedded(rel[p]) \subseteq schema'
        BY <1>1, <1>2 DEF MigrationsInHand
    <1>5. TypeOK'
        BY <1>1, <1>2, <1>3 DEF TypeOK, PCs
    <1>6. VersionIsBacked'
        BY <1>1, <1>2, <1>3 DEF VersionIsBacked, Upto
    <1>7. TransactionIsCurrent'
        <2>1. ASSUME NEW q \in Procs, tx' = q PROVE tx = q /\ q # p /\ schema' = schema
            BY <1>2, <2>1 DEF Seen
        <2> QED BY <1>1, <1>2, <2>1 DEF TransactionIsCurrent, TypeOK
    <1>8. \A q \in Procs \ {p} : Seen(q) \subseteq Seen(q)'
        BY <1>1, <1>2, <1>3 DEF Seen, TypeOK
    <1>9. MigrationsInHand'
        BY <1>1, <1>2, <1>3, <1>4, <1>8 DEF MigrationsInHand, TypeOK, Upto, Embedded
    <1> QED BY <1>5, <1>6, <1>7, <1>9 DEF MigrationInv

\* A secret key is added to the setting the server has; the version stays.
LEMMA ServeKeepsInv ==
    ASSUME MigrationInv, NEW p \in Procs, Serve(p)
    PROVE  MigrationInv'
    <1> USE MigratorAssumption
    <1>1. /\ TypeOK /\ VersionIsBacked /\ TransactionIsCurrent /\ MigrationsInHand
        BY DEF MigrationInv
    <1>2. /\ pc[p] = "secret" /\ pc' = [pc EXCEPT ![p] = "up"]
          /\ UNCHANGED <<inited, schema, tx, rel, todo, work, crashes>>
        BY DEF Serve, Goto
    <1>3. view[p] \in Settings /\ view[p] # NoView
        BY <1>1, <1>2 DEF TypeOK
    <1>4. \/ UNCHANGED <<row, view, minted>>
          \/ \E s \in Secrets \ minted :
                /\ row' = [view[p] EXCEPT !.secret = s]
                /\ view' = [view EXCEPT ![p] = row']
                /\ minted' = minted \cup {s}
        BY DEF Serve
    <1>5. row' \in Settings /\ minted' \subseteq Secrets
        BY <1>1, <1>3, <1>4 DEF TypeOK, Settings
    <1>6. \/ view' = view /\ row' = row
          \/ view' = [view EXCEPT ![p] = row'] /\ row'.version = view[p].version
        BY <1>3, <1>4 DEF Settings
    <1>7. TypeOK'
        BY <1>1, <1>2, <1>5, <1>6 DEF TypeOK, PCs, Settings
    <1>8. VersionIsBacked'
        BY <1>1, <1>2, <1>3, <1>6 DEF VersionIsBacked, MigrationsInHand, Upto
    <1>9. TransactionIsCurrent'
        BY <1>1, <1>2 DEF TransactionIsCurrent, TypeOK
    <1>10. MigrationsInHand'
        BY <1>1, <1>2, <1>3, <1>6 DEF MigrationsInHand, TypeOK, Seen, Upto, Embedded
    <1> QED BY <1>7, <1>8, <1>9, <1>10 DEF MigrationInv

-----------------------------------------------------------------------------
\* Every step of every server keeps the invariant.
LEMMA StepKeepsInv == MigrationInv /\ [Next]_vars => MigrationInv'
    <1> SUFFICES ASSUME MigrationInv, [Next]_vars PROVE MigrationInv'
        OBVIOUS
    <1>1. ASSUME NEW p \in Procs, Crash(p) PROVE MigrationInv'
        <2>1. crashes' \in 0..MaxCrashes
            BY <1>1, MigratorAssumption DEF Crash, MigrationInv, TypeOK
        <2>2. Exit(p) /\ UNCHANGED <<inited, schema, row, rel, minted>>
            BY <1>1 DEF Crash
        <2> QED BY <2>1, <2>2, ExitKeepsInv
    <1>2. ASSUME NEW p \in Procs, Run(p) PROVE MigrationInv'
        BY <1>2, BeginKeepsInv, FreshKeepsInv, RecordKeepsInv, CheckKeepsInv, ApplyKeepsInv,
            CommitKeepsInv, ServeKeepsInv DEF Run
    <1>3. CASE UNCHANGED vars
        BY <1>3 DEF MigrationInv, TypeOK, VersionIsBacked, TransactionIsCurrent,
            MigrationsInHand, Seen, Upto, Embedded, vars
    <1> QED BY <1>1, <1>2, <1>3 DEF Next

\* The types, and the truth of the recorded version, in every behaviour.
THEOREM MigrationInvariant == Spec => []MigrationInv
    BY InitInv, StepKeepsInv, PTL DEF Spec

\* The recorded version never claims a migration that the schema lacks,
\* however many servers of whatever releases race and die.
THEOREM VersionStaysBacked == Spec => []VersionIsBacked
    <1>1. MigrationInv => VersionIsBacked
        BY DEF MigrationInv
    <1> QED BY <1>1, MigrationInvariant, PTL

\* No server serves on a schema that lacks one of its migrations.
THEOREM ServersFindTheirSchema == Spec => []ServesOnItsSchema
    <1>1. MigrationInv => ServesOnItsSchema
        BY DEF MigrationInv, MigrationsInHand, ServesOnItsSchema
    <1> QED BY <1>1, MigrationInvariant, PTL
-----------------------------------------------------------------------------
\* A database that was installed before has a secret key, and every server
\* that has read or cached the setting has that key.
SecretInv ==
    /\ inited = TRUE
    /\ row.secret # NoSecret
    /\ \A p \in Procs :
        /\ view[p] # NoView => view[p].secret = row.secret
        /\ pc[p] # "latest_commit"

\* What SecretInv says of the next state.
SecretKept ==
    /\ inited' = TRUE
    /\ row' \in Settings /\ row'.secret = row.secret
    /\ \A q \in Procs :
        /\ view'[q] # NoView => view'[q].secret = row.secret
        /\ pc'[q] # "latest_commit"

\* No step of a server touches the key.
LEMMA SecretStep ==
    ASSUME TypeOK, SecretInv, [Next]_vars
    PROVE  SecretInv' /\ row'.secret = row.secret
    <1> USE MigratorAssumption
    <1>1. /\ inited = TRUE /\ row.secret # NoSecret /\ row \in Settings
          /\ DOMAIN view = Procs /\ pc \in [Procs -> PCs]
          /\ \A q \in Procs :
                /\ view[q] = NoView \/ view[q] \in Settings
                /\ view[q] # NoView => view[q].secret = row.secret
                /\ pc[q] # "latest_commit"
        BY DEF TypeOK, SecretInv
    <1>7. \A q \in Procs : rel[q] \in Nat
        <2>1. rel \in [Procs -> Releases \cup {0}]
            BY DEF TypeOK
        <2>2. Releases \cup {0} \subseteq Nat
            OBVIOUS
        <2> QED BY <2>1, <2>2
    <1>2. ASSUME NEW p \in Procs, Exit(p), UNCHANGED <<inited, row>> PROVE SecretKept
        BY <1>1, <1>2 DEF Exit, Goto, SecretKept
    <1>3. ASSUME NEW p \in Procs, Run(p) PROVE SecretKept
        <2>1. CASE \E r \in Releases : Start(p, r)
            BY <1>1, <2>1 DEF Start, Goto, SecretKept
        <2>2. CASE CheckInit(p)
            BY <1>1, <2>2 DEF CheckInit, Goto, SecretKept
        <2>3. CASE Latest(p)
            BY <1>1, <1>2, <2>3 DEF Latest
        <2>4. CASE LatestCommit(p)
            BY <1>1, <2>4 DEF LatestCommit, SecretKept
        <2>5. CASE ReadSetting(p)
            BY <1>1, <2>5 DEF ReadSetting, SecretKept
        <2>6. CASE RecordVersion(p)
            <3>2. Current(rel[p]) \in Nat
                BY <1>7, CurrentIsLast
            <3> DEFINE v == Current(rel[p])
            <3> HIDE DEF v
            <3>3. /\ row' = [view[p] EXCEPT !.version = v] /\ view[p] \in Settings
                  /\ view[p].secret = row.secret
                  /\ view' = [view EXCEPT ![p] = row']
                  /\ inited' = inited
                BY <1>1, <2>6 DEF RecordVersion, v
            <3>4. row' \in Settings /\ row'.secret = row.secret
                BY <3>2, <3>3 DEF Settings, v
            <3>5. \A q \in Procs : pc'[q] # "latest_commit"
                BY <1>1, <2>6 DEF RecordVersion, Goto
            <3> QED BY <1>1, <3>3, <3>4, <3>5 DEF SecretKept
        <2>7. CASE Refuse(p)
            BY <1>2, <2>7 DEF Refuse
        <2>8. CASE Accept(p)
            BY <1>1, <2>8 DEF Accept, Goto, SecretKept
        <2>9. CASE \E f \in Files : ApplyFile(p, f)
            BY <1>1, <1>2, <2>9 DEF ApplyFile, SecretKept
        <2>10. CASE Commit(p)
            BY <1>1, <2>10 DEF Commit, Goto, SecretKept
        <2>11. CASE Serve(p)
            <3>1. view[p] # NoView /\ view[p].secret # NoSecret
                BY <1>1, <2>11 DEF TypeOK, Serve
            <3> QED BY <1>1, <2>11, <3>1 DEF Serve, Goto, SecretKept
        <2> QED BY <1>3, <2>1, <2>2, <2>3, <2>4, <2>5, <2>6, <2>7, <2>8, <2>9, <2>10, <2>11
            DEF Run
    <1>4. ASSUME NEW p \in Procs, Crash(p) PROVE SecretKept
        BY <1>2, <1>4 DEF Crash
    <1>5. ASSUME UNCHANGED vars PROVE SecretKept
        <2>1. inited' = inited /\ row' = row /\ view' = view /\ pc' = pc
            BY <1>5 DEF vars
        <2> QED BY <1>1, <2>1 DEF SecretKept
    <1>6. SecretKept
        BY <1>3, <1>4, <1>5 DEF Next
    <1> QED BY <1>1, <1>6 DEF SecretInv, SecretKept

\* A secret key that exists is never replaced on a database that some release
\* has initialized: deaths, upgrades and racing servers keep tokens valid.
THEOREM SecretIsKept ==
    ASSUME 0 \notin Installed
    PROVE  Spec => SecretStays
    <1>1. Init => SecretInv
        <2> SUFFICES ASSUME Init PROVE SecretInv
            OBVIOUS
        <2>1. PICK v \in Installed :
                  /\ inited = (v > 0)
                  /\ row \in {[version |-> v, secret |-> s] :
                                   s \in IF v > 0 THEN Secrets ELSE {NoSecret}}
            BY DEF Init
        <2>2. v \in Nat /\ v # 0
            BY MigratorAssumption
        <2>3. v > 0
            BY <2>2
        <2>5. row \in {[version |-> v, secret |-> s] : s \in Secrets}
            BY <2>1, <2>3
        <2>6. inited = TRUE
            BY <2>1, <2>3
        <2>7. row.secret # NoSecret
            BY <2>5, MigratorAssumption
        <2>4. \A p \in Procs : view[p] = NoView /\ pc[p] = "down"
            BY DEF Init
        <2> QED BY <2>4, <2>6, <2>7 DEF SecretInv
    <1>2. MigrationInv => TypeOK
        BY DEF MigrationInv
    <1>3. TypeOK /\ SecretInv /\ [Next]_vars =>
              SecretInv' /\ [row.secret # NoSecret => row'.secret = row.secret]_vars
        BY SecretStep
    <1> QED BY <1>1, <1>2, <1>3, MigrationInvariant, PTL DEF Spec, SecretStays
-----------------------------------------------------------------------------
(* The batch: all of it or nothing, in the order of the versions.           *)

\* In paths of two digits, from 0.10 on, the order of the names is that of
\* the versions.
LEMMA RankIsMonotone ==
    ASSUME NEW m \in 10..99, NEW n \in 10..99, DirRank(m) < DirRank(n)
    PROVE  m < n
    <1>a. \A i \in Nat : i = 10 * (i \div 10) + (i % 10)
        OBVIOUS
    <1>b. \A i \in Nat : i % 10 \in 0..9
        OBVIOUS
    <1>c. \A i \in Nat : i \div 10 \in Nat
        OBVIOUS
    <1>1. \A i \in Nat : /\ i = 10 * (i \div 10) + (i % 10)
                         /\ i % 10 \in 0..9 /\ i \div 10 \in Nat
        BY <1>a, <1>b, <1>c
    <1>2. \A i \in 10..99 : DirRank(i) = i + i \div 10 + 1
        <2> SUFFICES ASSUME NEW i \in 10..99 PROVE DirRank(i) = i + i \div 10 + 1
            OBVIOUS
        <2>1. DirRank(i) = 11 * (i \div 10) + 1 + (i % 10)
            BY DEF DirRank
        <2> QED BY <1>1, <2>1
    <1>3. ASSUME n <= m PROVE n \div 10 <= m \div 10
        BY <1>1, <1>3
    <1> QED BY <1>1, <1>2, <1>3

\* The first file of a batch by name is the first by version.
LEMMA FirstIsOldest ==
    ASSUME NEW S \in SUBSET Files, NEW f \in S, IsFirst(f, S), NEW g \in S,
           V(f) > 1000, V(g) > 1000
    PROVE  V(f) <= V(g)
    <1>1. f \in Files /\ g \in Files
        OBVIOUS
    <1>2. \A h \in Files : V(h) > 1000 =>
              /\ h.minor \in Nat /\ h.minor <= 99 /\ h.minor >= 10
              /\ h.patch \in Nat /\ h.patch <= 98
              /\ V(h) = 100 * h.minor + h.patch + 1
        BY FileVersions
    <1>3. Sorted(f, g)
        BY DEF IsFirst
    <1>4. f.minor < g.minor \/ (f.minor = g.minor /\ f.patch <= g.patch)
        <2>1. f.minor \in 10..99 /\ g.minor \in 10..99
            BY <1>1, <1>2
        <2>2. DirRank(f.minor) < DirRank(g.minor) => f.minor < g.minor
            BY <2>1, RankIsMonotone
        <2>3. \/ DirRank(f.minor) < DirRank(g.minor)
              \/ f.minor = g.minor /\ f.patch <= g.patch
            BY <1>3 DEF Sorted
        <2> QED BY <2>2, <2>3
    <1> QED BY <1>1, <1>2, <1>4

\* The schemas of versions are ordered by inclusion.
LEMMA UptoIsChain ==
    ASSUME NEW v \in Nat, NEW w \in Nat
    PROVE  /\ v <= w => Upto(v) \subseteq Upto(w)
           /\ Upto(v) \cup Upto(w) \in {Upto(v), Upto(w)}
    <1>1. \A x, y \in Nat : x <= y => Upto(x) \subseteq Upto(y)
        BY FileVersions DEF Upto
    <1>2. CASE v <= w
        BY <1>1, <1>2
    <1>3. CASE w <= v
        BY <1>1, <1>3
    <1> QED BY <1>2, <1>3

\* What a release leaves when it has migrated a database.
Complete == {Upto(Current(r)) : r \in Releases}

\* Adding the files of one release to the schema of another.
LEMMA CompleteIsClosed ==
    ASSUME NEW s \in Complete, NEW r \in Releases
    PROVE  s \cup Upto(Current(r)) \in Complete
    <1>1. PICK q \in Releases : s = Upto(Current(q))
        BY DEF Complete
    <1>2. Current(q) \in Nat /\ Current(r) \in Nat
        BY CurrentIsLast, MigratorAssumption
    <1>3. s \cup Upto(Current(r)) \in {s, Upto(Current(r))}
        BY <1>1, <1>2, UptoIsChain
    <1> QED BY <1>3 DEF Complete

\* The schema is that of a release, or still the one it was at first: then no
\* server has recorded anything, so that all have read the version it has.
WhollyMigrated ==
    \/ schema \in Complete
    \/ /\ schema = Upto(row.version)
       /\ \A q \in Procs : /\ view[q] # NoView => view[q].version = row.version
                           /\ pc[q] \notin {"stamp", "record"}

\* The files a server has to execute, and those its transaction has executed,
\* are of its release and beyond the version it read; and LATEST.sql finds an
\* empty database.
BatchInHand ==
    /\ ~inited => schema = {}
    /\ \A p \in Procs :
        /\ pc[p] \notin {"down", "init", "latest", "latest_commit"} => inited
        /\ pc[p] = "latest_commit" => ~inited
        /\ pc[p] = "apply" =>
            /\ view[p].version <= Current(rel[p])
            /\ todo[p] \subseteq Pending(rel[p], view[p].version)
            /\ tx = p => work[p] \subseteq schema \cup Upto(Current(rel[p]))

BatchInv == WhollyMigrated /\ BatchInHand

LEMMA BatchInit == Init => BatchInv
    <1> SUFFICES ASSUME Init PROVE BatchInv
        OBVIOUS
    <1>1. PICK v \in Installed :
              /\ inited = (v > 0)
              /\ schema = Upto(v)
              /\ row \in {[version |-> v, secret |-> s] :
                               s \in IF v > 0 THEN Secrets ELSE {NoSecret}}
        BY DEF Init
    <1>2. /\ pc = [p \in Procs |-> "down"]
          /\ view = [p \in Procs |-> NoView]
        BY DEF Init
    <1>3. row.version = v /\ v \in Nat
        BY <1>1, MigratorAssumption
    <1>4. ~inited => schema = {}
        <2>1. v > 0 => inited
            BY <1>1
        <2>2. Upto(0) = {}
            <3>1. \A f \in Files : ~(V(f) <= 0)
                BY FileVersions
            <3> QED BY <3>1 DEF Upto
        <2>3. v = 0 \/ v > 0
            BY <1>3
        <2> QED BY <1>1, <2>1, <2>2, <2>3
    <1> QED BY <1>1, <1>2, <1>3, <1>4 DEF BatchInv, WhollyMigrated, BatchInHand

\* Every step keeps the schema whole: the files of a batch become visible in
\* one commit, and a version is recorded only of a schema that is a release's.
LEMMA BatchStep ==
    ASSUME Transactional, MigrationInv, BatchInv, [Next]_vars
    PROVE  BatchInv'
    <1> USE MigratorAssumption
    <1>t. /\ TypeOK /\ TransactionIsCurrent /\ MigrationsInHand
          /\ WhollyMigrated /\ BatchInHand
          /\ inited \in BOOLEAN /\ row \in Settings
          /\ pc \in [Procs -> PCs] /\ DOMAIN view = Procs
          /\ todo \in [Procs -> SUBSET Files] /\ work \in [Procs -> SUBSET Files]
          /\ \A q \in Procs : rel[q] \in Nat
        <2>1. rel \in [Procs -> Releases \cup {0}] /\ Releases \cup {0} \subseteq Nat
            BY DEF MigrationInv, TypeOK
        <2>2. \A q \in Procs : rel[q] \in Nat
            BY <2>1
        <2> QED BY <2>2 DEF MigrationInv, TypeOK, BatchInv
    <1>1. ASSUME NEW p \in Procs, Exit(p), UNCHANGED <<inited, schema, row, rel>>
          PROVE  BatchInv'
        BY <1>t, <1>1
           DEF Exit, Goto, BatchInv, WhollyMigrated, BatchInHand, Complete, Upto
    <1>2. ASSUME NEW p \in Procs, Crash(p) PROVE BatchInv'
        BY <1>1, <1>2 DEF Crash
    <1>3. ASSUME NEW p \in Procs, NEW r \in Releases, Start(p, r) PROVE BatchInv'
        BY <1>t, <1>3
           DEF Start, Goto, BatchInv, WhollyMigrated, BatchInHand, Complete, Upto
    <1>4. ASSUME NEW p \in Procs, CheckInit(p) PROVE BatchInv'
        BY <1>t, <1>4
           DEF CheckInit, Goto, BatchInv, WhollyMigrated, BatchInHand, Complete, Upto
    <1>5. ASSUME NEW p \in Procs, Latest(p) PROVE BatchInv'
        <2>1. CASE inited
            BY <1>1, <1>5, <2>1 DEF Latest
        <2>2. CASE ~inited
            BY <1>t, <1>5, <2>2
               DEF Latest, Goto, BatchInv, WhollyMigrated, BatchInHand, Complete, Upto
        <2> QED BY <2>1, <2>2
    <1>6. ASSUME NEW p \in Procs, LatestCommit(p) PROVE BatchInv'
        <2>1. /\ ~inited /\ schema = {} /\ tx = p
              /\ rel[p] \in Releases /\ pc[p] = "latest_commit"
            BY <1>t, <1>6 DEF LatestCommit, TransactionIsCurrent, MigrationsInHand, BatchInHand
        <2>2. schema' = Upto(Current(rel[p]))
            BY <1>t, <1>6, <2>1, CurrentIsLast DEF LatestCommit
        <2>3. WhollyMigrated'
            BY <1>6, <2>1, <2>2 DEF WhollyMigrated, Complete, LatestCommit, Upto, Current, OfMinor, Embedded
        <2>4. \A q \in Procs \ {p} : pc'[q] = pc[q] /\ pc[q] \in {"down", "init", "latest"}
            BY <1>t, <1>6, <2>1 DEF LatestCommit, Goto, TransactionIsCurrent, BatchInHand
        <2>5. inited' = TRUE /\ pc'[p] = "stamp"
            BY <1>t, <1>6 DEF LatestCommit, Goto
        <2>6. BatchInHand'
            BY <2>4, <2>5 DEF BatchInHand
        <2> QED BY <2>3, <2>6 DEF BatchInv
    <1>7. ASSUME NEW p \in Procs, ReadSetting(p) PROVE BatchInv'
        BY <1>t, <1>7
           DEF ReadSetting, BatchInv, WhollyMigrated, BatchInHand, Complete, Upto
    <1>8. ASSUME NEW p \in Procs, RecordVersion(p) PROVE BatchInv'
        <2>1. schema \in Complete /\ schema' = schema
            BY <1>t, <1>8 DEF RecordVersion, WhollyMigrated
        <2>2. WhollyMigrated'
            BY <2>1 DEF WhollyMigrated, Complete, Upto, Current, OfMinor, Embedded
        <2>3. /\ \A q \in Procs \ {p} : pc'[q] = pc[q] /\ view'[q] = view[q]
              /\ pc'[p] \in {"check", "secret"} /\ inited
              /\ UNCHANGED <<inited, tx, rel, todo, work>>
            BY <1>t, <1>8 DEF RecordVersion, Goto, BatchInHand
        <2>4. BatchInHand'
            BY <1>t, <2>1, <2>3 DEF BatchInHand
        <2> QED BY <2>2, <2>4 DEF BatchInv
    <1>9. ASSUME NEW p \in Procs, Refuse(p) PROVE BatchInv'
        BY <1>1, <1>9 DEF Refuse
    <1>10. ASSUME NEW p \in Procs, Accept(p) PROVE BatchInv'
        <2> DEFINE v == view[p].version
                   r == rel[p]
        <2>1. /\ pc[p] = "check" /\ v \in Nat /\ r \in Nat /\ view[p] # NoView
              /\ ~Newer(v, r)
            BY <1>t, <1>10 DEF Accept, MigrationInv, TypeOK, Settings
        <2>2. Current(r) \in Nat /\ v <= Current(r)
            BY <2>1, CurrentIsLast DEF Newer
        <2>3. /\ UNCHANGED <<inited, schema, row, tx, rel, view, work>>
              /\ \/ /\ pc' = [pc EXCEPT ![p] = "apply"]
                    /\ todo' = [todo EXCEPT ![p] = Pending(r, v)]
                 \/ /\ pc' = [pc EXCEPT ![p] = "secret"]
                    /\ todo' = todo
            BY <1>10 DEF Accept, Goto
        <2> HIDE DEF v, r
        <2>4. WhollyMigrated'
            BY <1>t, <2>1, <2>3 DEF WhollyMigrated, Complete, Upto
        <2>5. tx # p /\ inited
            BY <1>t, <2>1 DEF TransactionIsCurrent, BatchInHand
        <2>6. \A q \in Procs \ {p} : pc'[q] = pc[q] /\ todo'[q] = todo[q]
            BY <1>t, <2>3
        <2>7. \/ pc'[p] = "apply" /\ todo'[p] = Pending(r, v)
              \/ pc'[p] = "secret"
            BY <1>t, <2>3
        <2>8. BatchInHand'
            BY <1>t, <2>2, <2>3, <2>5, <2>6, <2>7 DEF BatchInHand, v, r
        <2> QED BY <2>4, <2>8 DEF BatchInv
    <1>11. ASSUME NEW p \in Procs, NEW f \in Files, ApplyFile(p, f) PROVE BatchInv'
        <2>1. /\ pc[p] = "apply" /\ f \in todo[p] /\ tx \in {p, NoProc}
              /\ UNCHANGED <<inited, schema, row, rel>>
            BY <1>11 DEF ApplyFile, IsFirst, Exit
        <2>2. CASE ~Executes(f, Seen(p))
            BY <1>1, <1>11, <2>1, <2>2 DEF ApplyFile
        <2>3. CASE Executes(f, Seen(p))
            <3>1. /\ todo' = [todo EXCEPT ![p] = @ \ {f}]
                  /\ tx' = p /\ UNCHANGED <<pc, view>>
                  /\ work' = [work EXCEPT ![p] = Seen(p) \cup {f}]
                BY <1>11, <2>3 DEF ApplyFile
            <3>2. WhollyMigrated'
                BY <1>t, <2>1, <3>1 DEF WhollyMigrated, Complete, Upto
            <3>3. f \in Upto(Current(rel[p]))
                BY <1>t, <2>1 DEF BatchInHand, Pending, Upto
            <3>4. work'[p] \subseteq schema \cup Upto(Current(rel[p]))
                BY <1>t, <2>1, <3>1, <3>3 DEF BatchInHand, Seen
            <3>5. /\ \A q \in Procs \ {p} : todo'[q] = todo[q]
                  /\ todo'[p] \subseteq todo[p]
                BY <1>t, <3>1
            <3>6. BatchInHand'
                BY <1>t, <2>1, <3>1, <3>4, <3>5 DEF BatchInHand, Upto
            <3> QED BY <3>2, <3>6 DEF BatchInv
        <2> QED BY <2>2, <2>3
    <1>12. ASSUME NEW p \in Procs, Commit(p) PROVE BatchInv'
        <2> DEFINE C == Upto(Current(rel[p]))
        <2>1. /\ pc[p] = "apply" /\ todo[p] = {} /\ schema' = Seen(p)
              /\ tx' = IF tx = p THEN NoProc ELSE tx
              /\ pc' = [pc EXCEPT ![p] = "record"]
              /\ work' = [work EXCEPT ![p] = {}]
              /\ UNCHANGED <<inited, row, rel, view, todo>>
            BY <1>12 DEF Commit, Goto
        <2>2. rel[p] \in Releases /\ Current(rel[p]) \in Nat /\ C = Embedded(rel[p])
            BY <1>t, <2>1, CurrentIsLast DEF MigrationsInHand
        <2>3. C \in Complete
            BY <2>2 DEF Complete
        <2> HIDE DEF C
        <2>4. schema' = schema \cup C
            <3>1. C \subseteq Seen(p) /\ schema \subseteq Seen(p)
                BY <1>t, <2>1, <2>2 DEF MigrationsInHand, TransactionIsCurrent, Seen
            <3>2. Seen(p) \subseteq schema \cup C
                BY <1>t, <2>1 DEF BatchInHand, Seen, C
            <3> QED BY <2>1, <3>1, <3>2
        <2>5. schema' \in Complete
            <3>1. CASE schema \in Complete
                BY <2>2, <2>4, <3>1, CompleteIsClosed DEF C
            <3>2. CASE schema \notin Complete
                <4>1. /\ schema = Upto(row.version) /\ view[p] # NoView
                      /\ view[p].version = row.version
                    BY <1>t, <2>1, <3>2 DEF WhollyMigrated, MigrationInv, TypeOK
                <4>2. row.version <= Current(rel[p]) /\ row.version \in Nat
                    BY <1>t, <2>1, <4>1 DEF BatchInHand, Settings
                <4>3. schema \subseteq C
                    BY <2>2, <4>1, <4>2, UptoIsChain DEF C
                <4> QED BY <2>3, <2>4, <4>3
            <3> QED BY <3>1, <3>2
        <2>6. WhollyMigrated'
            BY <2>5 DEF WhollyMigrated, Complete, Upto, Current, OfMinor, Embedded
        <2>7. inited
            BY <1>t, <2>1 DEF BatchInHand
        <2>8. BatchInHand'
            <3> SUFFICES ASSUME NEW q \in Procs
                PROVE /\ pc'[q] \notin {"down", "init", "latest", "latest_commit"} => inited
                      /\ pc'[q] = "latest_commit" => ~inited
                      /\ pc'[q] = "apply" =>
                            /\ view[q].version <= Current(rel[q])
                            /\ todo[q] \subseteq Pending(rel[q], view[q].version)
                            /\ tx' = q => work'[q] \subseteq schema' \cup Upto(Current(rel[q]))
                BY <2>1, <2>7 DEF BatchInHand
            <3>1. CASE q = p
                BY <1>t, <2>1, <2>7, <3>1
            <3>2. CASE q # p
                <4>1. pc'[q] = pc[q] /\ work'[q] = work[q]
                    BY <1>t, <2>1, <3>2
                <4>2. tx' = q => tx = q
                    BY <2>1, <3>2
                <4> QED BY <1>t, <2>4, <3>2, <4>1, <4>2 DEF BatchInHand
            <3> QED BY <3>1, <3>2
        <2> QED BY <2>6, <2>8 DEF BatchInv
    <1>13. ASSUME NEW p \in Procs, Serve(p) PROVE BatchInv'
        <2>1. /\ pc[p] = "secret" /\ pc' = [pc EXCEPT ![p] = "up"]
              /\ UNCHANGED <<inited, schema, tx, rel, todo, work>>
            BY <1>13 DEF Serve, Goto
        <2>2. view[p] \in Settings /\ view[p] # NoView
            BY <1>t, <2>1 DEF MigrationInv, TypeOK
        <2>3. \/ view' = view /\ row' = row
              \/ view' = [view EXCEPT ![p] = row'] /\ row'.version = view[p].version
            BY <1>13, <2>2 DEF Serve, Settings
        <2>4. WhollyMigrated'
            BY <1>t, <2>1, <2>2, <2>3
               DEF WhollyMigrated, Complete, Upto, Current, OfMinor, Embedded
        <2>5. \A q \in Procs \ {p} : view'[q] = view[q] /\ pc'[q] = pc[q]
            BY <1>t, <2>1, <2>3
        <2>6. BatchInHand'
            BY <1>t, <2>1, <2>5 DEF BatchInHand
        <2> QED BY <2>4, <2>6 DEF BatchInv
    <1>14. CASE UNCHANGED vars
        BY <1>14 DEF vars, BatchInv, WhollyMigrated, BatchInHand, Complete, Upto
    <1> QED
        BY <1>2, <1>3, <1>4, <1>5, <1>6, <1>7, <1>8, <1>9, <1>10, <1>11, <1>12, <1>13, <1>14
        DEF Next, Run

\* Where the DDL is transactional, the database is always wholly migrated.
THEOREM SchemaStaysWhole ==
    ASSUME Transactional
    PROVE  Spec => []BatchInv
    <1>1. MigrationInv /\ BatchInv /\ [Next]_vars => BatchInv'
        BY BatchStep
    <1> QED BY <1>1, BatchInit, MigrationInvariant, PTL DEF Spec

\* Migrations are all applied or none, and in order, for any servers, files
\* and releases, where the DDL is transactional and no supported database is
\* older than 0.10 (the code supports 0.22.0 and later).
THEOREM MigrationsAreAtomic ==
    ASSUME Transactional, MinVersion >= 1000
    PROVE  Spec => []AllOrNothing
    <1> USE MigratorAssumption
    <1>1. MigrationInv /\ BatchInv => AllOrNothing
        <2> SUFFICES ASSUME MigrationInv, BatchInv PROVE AllOrNothing
            OBVIOUS
        <2>1. schema \in {Upto(row.version)} \cup {Upto(Current(r)) : r \in Releases}
            BY DEF BatchInv, WhollyMigrated, Complete
        <2>2. ASSUME NEW p \in Procs, pc[p] = "apply", view[p].version >= MinVersion,
                     NEW f \in todo[p], IsFirst(f, todo[p]), NEW g \in todo[p]
              PROVE  V(f) <= V(g)
            <3>1. view[p] \in Settings /\ todo[p] \in SUBSET Files
                BY <2>2 DEF MigrationInv, TypeOK
            <3>2. view[p].version \in Nat
                BY <3>1 DEF Settings
            <3>3. \A h \in todo[p] : V(h) > view[p].version /\ V(h) \in Nat
                BY <2>2, <3>1, FileVersions DEF BatchInv, BatchInHand, Pending
            <3>4. V(f) > 1000 /\ V(g) > 1000
                BY <2>2, <3>2, <3>3
            <3> QED BY <2>2, <3>1, <3>4, FirstIsOldest
        <2> QED BY <2>1, <2>2 DEF AllOrNothing
    <1> QED BY <1>1, SchemaStaysWhole, MigrationInvariant, PTL
=============================================================================
