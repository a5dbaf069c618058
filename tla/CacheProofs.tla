---------------------------- MODULE CacheProofs ----------------------------
(* Theorems about Cache, for any keys, clients, ttls and limits.            *)
EXTENDS Cache, FiniteSetTheorems, TLAPS

\* Removing a key from a map of expirations removes exactly that key.
LEMMA EntriesWithout ==
    ASSUME NEW f, NEW k, IsEntries(f)
    PROVE  /\ IsEntries(Without(f, k))
           /\ DOMAIN Without(f, k) = DOMAIN f \ {k}
    BY DEF IsEntries, Without, Restrict

\* Storing a key in a map of expirations adds at most that key.
LEMMA EntriesWith ==
    ASSUME NEW f, NEW k \in Keys, NEW e \in Nat, IsEntries(f)
    PROVE  /\ IsEntries(With(f, k, e))
           /\ DOMAIN With(f, k, e) = DOMAIN f \cup {k}
    BY DEF IsEntries, With

\* Whatever Consider returns is a map from candidates to expirations, and a
\* new candidate can only be the key under consideration.
LEMMA EntriesConsider ==
    ASSUME NEW f, NEW k \in Keys, NEW e \in Nat, IsEntries(f),
           NEW c \in Consider(f, k, e)
    PROVE  IsEntries(c) /\ DOMAIN c \subseteq DOMAIN f \cup {k}
    <1> DEFINE Newest == {n \in DOMAIN f : \A m \in DOMAIN f : f[m] <= f[n]}
    <1>1. CASE c = With(f, k, e)
        BY <1>1, EntriesWith
    <1>2. ASSUME NEW n \in Newest, c = With(Without(f, n), k, e)
          PROVE  IsEntries(c) /\ DOMAIN c \subseteq DOMAIN f \cup {k}
        <2> DEFINE g == Without(f, n)
        <2>1. IsEntries(g) /\ DOMAIN g = DOMAIN f \ {n}
            BY EntriesWithout
        <2>2. IsEntries(With(g, k, e)) /\ DOMAIN With(g, k, e) = DOMAIN g \cup {k}
            BY <2>1, EntriesWith
        <2> QED BY <1>2, <2>1, <2>2
    <1>3. CASE c = f
        BY <1>3
    <1>4. \/ c = With(f, k, e)
          \/ \E n \in Newest : c = With(Without(f, n), k, e)
          \/ c = f
        BY DEF Consider
    <1> QED BY <1>1, <1>2, <1>3, <1>4

\* Type correctness, of every behaviour of the cache.
LEMMA TypeInit == Init => TypeOK
    <1> SUFFICES ASSUME Init PROVE TypeOK
        OBVIOUS
    <1>1. IsEntries(Empty)
        BY DEF IsEntries, Empty
    <1>2. \A p \in Clients : p # Cleaner
        BY CacheAssumption
    <1>3. DOMAIN cand = Clients /\ \A p \in Clients : IsEntries(cand[p])
        BY <1>1 DEF Init
    <1>4. /\ IsEntries(data) /\ count \in Int /\ now \in 0..MaxTime
        BY <1>1, CacheAssumption DEF Init
    <1>7. stopped \in BOOLEAN
        BY DEF Init
    <1>5. /\ pc \in [Procs -> ClientPCs \cup CleanerPCs]
          /\ \A p \in Clients : pc[p] \in ClientPCs
          /\ pc[Cleaner] \in CleanerPCs
          /\ \A p \in Procs : pc[p] \notin OnKeyPCs
        BY <1>2 DEF Init, Procs, ClientPCs, CleanerPCs, OnKeyPCs
    <1>6. /\ key \in [Procs -> Keys \cup {NoKey}]
          /\ ttl \in [Clients -> TTLs \cup {0}]
          /\ todo \in [Procs -> SUBSET Keys]
          /\ gone \in [Procs -> SUBSET Keys]
        BY DEF Init
    <1> QED BY <1>3, <1>4, <1>5, <1>6, <1>7 DEF TypeOK

\* The expiration time a Set stores is a natural number.
LEMMA SetStoreTime ==
    ASSUME TypeOK, NEW p \in Clients
    PROVE  now + ttl[p] \in Nat
    <1>1. ttl[p] \in TTLs \/ ttl[p] = 0
        BY DEF TypeOK
    <1>2. ttl[p] \in Nat
        <2>1. \A t \in TTLs : t \in Nat
            BY CacheAssumption
        <2> QED BY ONLY <1>1, <2>1
    <1>3. now \in Nat
        BY CacheAssumption DEF TypeOK
    <1> QED BY <1>2, <1>3

\* Every step of every client and of the cleaner keeps the types.
LEMMA TypeStep == TypeOK /\ [Next]_vars => TypeOK'
    <1> SUFFICES ASSUME TypeOK, [Next]_vars PROVE TypeOK'
        OBVIOUS
    <1>0. \A p \in Clients : p # Cleaner
        BY CacheAssumption
    <1> USE <1>0, CacheAssumption
        DEF TypeOK, Procs, ClientPCs, CleanerPCs, OnKeyPCs, Goto, Return
    <1>1. CASE Tick
        BY <1>1 DEF Tick, IsEntries
    <1>2. ASSUME NEW p \in Clients, NEW k \in Keys, NEW t \in TTLs, SetLoad(p, k, t)
          PROVE  TypeOK'
        BY <1>2 DEF SetLoad
    <1>3. ASSUME NEW p \in Clients, SetDelete(p) PROVE TypeOK'
        BY <1>3, EntriesWithout DEF SetDelete
    <1>4. ASSUME NEW p \in Clients, SetCount(p) PROVE TypeOK'
        BY <1>4 DEF SetCount
    <1>5. ASSUME NEW p \in Clients, SetStore(p) PROVE TypeOK'
        <2>5. now + ttl[p] \in Nat /\ key[p] \in Keys
            BY <1>5, SetStoreTime DEF SetStore
        <2>3. IsEntries(data')
            BY <1>5, <2>5, EntriesWith DEF SetStore
        <2> QED BY <1>5, <2>3 DEF SetStore
    <1>6. ASSUME NEW p \in Clients, SetCheck(p) PROVE TypeOK'
        BY <1>6 DEF SetCheck
    <1>7. ASSUME NEW p \in Clients, EvictCheck(p) PROVE TypeOK'
        BY <1>7 DEF EvictCheck
    <1>8. ASSUME NEW p \in Clients, NEW k \in Keys, EvictVisit(p, k) PROVE TypeOK'
        <2>1. DOMAIN cand' = Clients /\ \A q \in Clients : IsEntries(cand'[q])
            <3>1. CASE k \in Present
                <4>1. data[k] \in Nat
                    BY <3>1 DEF Present, IsEntries
                <4>2. PICK c \in Consider(cand[p], k, data[k]) :
                        cand' = [cand EXCEPT ![p] = c]
                    BY <3>1, <1>8 DEF EvictVisit
                <4>3. IsEntries(c)
                    BY <4>1, EntriesConsider
                <4> QED BY <4>2, <4>3
            <3> QED BY <3>1, <1>8 DEF EvictVisit
        <2>2. DOMAIN cand'[p] \subseteq Keys
            BY <2>1 DEF IsEntries
        <2> HIDE DEF IsEntries
        <2> QED BY <1>8, <2>1, <2>2 DEF EvictVisit
    <1>9. ASSUME NEW p \in Clients, NEW k \in Keys, EvictDelete(p, k) PROVE TypeOK'
        <2>1. IsEntries(data')
            BY <1>9, EntriesWithout DEF EvictDelete
        <2> QED BY <1>9, <2>1 DEF EvictDelete
    <1>10. ASSUME NEW p \in Clients, EvictCount(p) PROVE TypeOK'
        <2>1. Cardinality(gone[p]) \in Int
            BY FS_Subset, FS_CardinalityType
        <2>2. IsEntries(Empty)
            BY DEF IsEntries, Empty
        <2> QED BY <1>10, <2>1, <2>2 DEF EvictCount
    <1>11. ASSUME NEW p \in Clients, NEW k \in Keys, GetLoad(p, k) PROVE TypeOK'
        BY <1>11 DEF GetLoad
    <1>12. ASSUME NEW p \in Clients, GetDelete(p) PROVE TypeOK'
        BY <1>12, EntriesWithout DEF GetDelete
    <1>13. ASSUME NEW p \in Clients, GetCount(p) \/ DeleteCount(p) PROVE TypeOK'
        BY <1>13 DEF GetCount, DeleteCount
    <1>14. ASSUME NEW p \in Clients, NEW k \in Keys, DeleteLoad(p, k) PROVE TypeOK'
        BY <1>14, EntriesWithout DEF DeleteLoad
    <1>15. ASSUME NEW p \in Clients, CloseCheck(p) \/ CloseStop(p) \/ CloseWait(p)
           PROVE  TypeOK'
        <2>1. CASE CloseCheck(p) \/ CloseWait(p)
            BY <2>1 DEF CloseCheck, CloseWait
        <2>2. CASE CloseStop(p)
            <3>1. stopped' \in BOOLEAN
                BY <2>2 DEF CloseStop
            <3>2. pc' = [pc EXCEPT ![p] = "panicked"] \/ pc' = [pc EXCEPT ![p] = "close_wait"]
                BY <2>2 DEF CloseStop
            <3> QED BY <2>2, <3>1, <3>2 DEF CloseStop
        <2> QED BY <1>15, <2>1, <2>2
    <1>16. CASE SweepStart \/ CleanerExit
        BY <1>16 DEF SweepStart, CleanerExit
    <1>17. ASSUME NEW k \in Keys, SweepVisit(k) PROVE TypeOK'
        BY <1>17 DEF SweepVisit
    <1>18. CASE SweepDelete
        <2>1. IsEntries(data')
            BY <1>18, EntriesWithout DEF SweepDelete
        <2> QED BY <1>18, <2>1 DEF SweepDelete
    <1>19. CASE SweepCount
        <2>1. Cardinality(gone[Cleaner]) \in Int
            BY FS_Subset, FS_CardinalityType
        <2> QED BY <1>19, <2>1 DEF SweepCount
    <1>20. CASE UNCHANGED vars
        BY <1>20 DEF vars, IsEntries
    <1> QED
        BY <1>1, <1>2, <1>3, <1>4, <1>5, <1>6, <1>7, <1>8, <1>9, <1>10, <1>11,
           <1>12, <1>13, <1>14, <1>15, <1>16, <1>17, <1>18, <1>19, <1>20
        DEF Next, Call, Continue, Sweep

\* The types of the cache's state, of every behaviour whatever the callers do.
THEOREM TypeCorrect == Spec => []TypeOK
    BY TypeInit, TypeStep, PTL DEF Spec

-----------------------------------------------------------------------------
(* The counter is exact while no two operations work on the same key.       *)

\* A goroutine that does not move keeps what it claims, and what it knows of
\* its keys if the step leaves those keys alone.
LEMMA Bystander ==
    ASSUME NEW q \in Procs, UndisturbedAt(q),
           pc'[q] = pc[q], key'[q] = key[q], todo'[q] = todo[q], gone'[q] = gone[q],
           q \in Clients => cand'[q] = cand[q],
           pc[q] = "evict_visit" => q \in Clients,
           \A k \in Claims(q) : k \in Present' <=> k \in Present
    PROVE  UndisturbedAt(q)' /\ Owed(q)' = Owed(q)
    <1>1. Held(q)' = Held(q) /\ Owed(q)' = Owed(q)
        BY DEF Held, Owed
    <1>2. \A k \in Held(q) \cup Owed(q) : k \in Claims(q)
        BY DEF Claims
    <1>3. pc[q] = "set_count" => key[q] \in Claims(q)
        BY DEF Claims
    <1> QED BY <1>1, <1>2, <1>3 DEF UndisturbedAt, EvictPCs

\* A key that p puts in or takes out of its own account leaves the ledger.
LEMMA Settled ==
    ASSUME NEW p \in Procs,
           \A q \in Procs \ {p} : Owed(q)' = Owed(q),
           \A k \in Keys : (k \in Present' \/ k \in Owed(p)')
                                <=> (k \in Present \/ k \in Owed(p))
    PROVE  Counted' = Counted
    BY DEF Counted

\* Taking off the counter the keys that p owes.
LEMMA Paid ==
    ASSUME NEW p \in Procs, Disjoint, Undisturbed, Owed(p) \subseteq Keys,
           \A q \in Procs \ {p} : Owed(q)' = Owed(q),
           Present' = Present, Owed(p)' = {}
    PROVE  /\ Counted' = Counted \ Owed(p)
           /\ Cardinality(Counted') = Cardinality(Counted) - Cardinality(Owed(p))
    <1>1. \A q \in Procs \ {p} : Owed(q) \cap Owed(p) = {}
        BY DEF Disjoint, Claims
    <1>2. Owed(p) \cap Present = {}
        BY DEF Undisturbed, UndisturbedAt
    <1>3. Counted' = Counted \ Owed(p)
        BY <1>1, <1>2 DEF Counted
    <1>4. Counted \cap Owed(p) = Owed(p)
        BY DEF Counted
    <1>5. IsFiniteSet(Counted)
        BY CacheAssumption, FS_Subset DEF Counted
    <1>6. Cardinality(Counted \ Owed(p))
              = Cardinality(Counted) - Cardinality(Counted \cap Owed(p))
        BY <1>5, FS_Difference
    <1> QED BY <1>3, <1>4, <1>6

\* Goroutines look at, delete and owe keys of the cache only.
LEMMA ClaimsAreKeys ==
    ASSUME TypeOK, NEW p \in Procs
    PROVE  Held(p) \subseteq Keys /\ Owed(p) \subseteq Keys /\ Claims(p) \subseteq Keys
    <1>1. pc[p] = "evict_visit" => DOMAIN cand[p] \subseteq Keys
        BY DEF TypeOK, Procs, CleanerPCs, IsEntries
    <1>2. todo[p] \subseteq Keys /\ gone[p] \subseteq Keys
        BY DEF TypeOK
    <1>3. pc[p] \in OnKeyPCs => key[p] \in Keys
        BY DEF TypeOK
    <1>4. Held(p) \subseteq Keys /\ Owed(p) \subseteq Keys
        BY <1>1, <1>2, <1>3 DEF Held, Owed, OnKeyPCs
    <1> QED BY <1>3, <1>4 DEF Claims, OnKeyPCs

\* A step after which the calls are still on different keys keeps the ledger
\* balanced: the heart of the argument, one case per step of the operations.
LEMMA DisjointStep ==
    ASSUME CacheInv, [Next]_vars, Disjoint'
    PROVE  Undisturbed' /\ CountIsExact'
    <1> USE DEF CacheInv, Goto, Return
    <1>0. \A p \in Clients : p # Cleaner
        BY CacheAssumption
    <1>a. TypeOK /\ TypeOK'
        BY TypeStep
    <1>t. /\ pc \in [Procs -> ClientPCs \cup CleanerPCs]
          /\ key \in [Procs -> Keys \cup {NoKey}]
          /\ todo \in [Procs -> SUBSET Keys]
          /\ gone \in [Procs -> SUBSET Keys]
          /\ DOMAIN cand = Clients
          /\ Clients \subseteq Procs /\ Cleaner \in Procs
          /\ \A p \in Clients : pc[p] \in ClientPCs
          /\ pc[Cleaner] \in CleanerPCs
          /\ \A p \in Procs : pc[p] \in OnKeyPCs => key[p] \in Keys
        BY <1>a DEF TypeOK, Procs
    \* Enough for a step of p: p's own account is in order, and everybody
    \* else is a bystander.
    <1>b. ASSUME NEW p \in Procs,
                 \A q \in Procs \ {p} :
                     /\ pc'[q] = pc[q] /\ key'[q] = key[q]
                     /\ todo'[q] = todo[q] /\ gone'[q] = gone[q]
                     /\ q \in Clients => cand'[q] = cand[q],
                 \A k \in Keys :
                     \/ k \in Present' <=> k \in Present
                     \/ k \in Claims(p) \cup Claims(p)'
          PROVE  \A q \in Procs \ {p} : UndisturbedAt(q)' /\ Owed(q)' = Owed(q)
        <2> SUFFICES ASSUME NEW q \in Procs \ {p}
                     PROVE  UndisturbedAt(q)' /\ Owed(q)' = Owed(q)
            OBVIOUS
        <2>0. pc[q] = "evict_visit" => q \in Clients
            BY <1>t DEF Procs, CleanerPCs
        <2>1. Claims(q)' = Claims(q)
            BY <1>b, <2>0 DEF Claims, Held, Owed
        <2>2. Claims(q) \cap Claims(p) = {} /\ Claims(q)' \cap Claims(p)' = {}
            BY DEF Disjoint
        <2>3. Claims(q) \subseteq Keys
            BY <1>a, ClaimsAreKeys
        <2>4. \A k \in Claims(q) : k \in Present' <=> k \in Present
            BY <1>b, <2>1, <2>2, <2>3
        <2> QED BY <1>b, <2>0, <2>4, Bystander DEF Undisturbed
    \* A step of p that moves no key in or out of the ledger.
    <1>c. ASSUME NEW p \in Procs, count' = count, UndisturbedAt(p)',
                 \A q \in Procs \ {p} : UndisturbedAt(q)' /\ Owed(q)' = Owed(q),
                 \A k \in Keys : (k \in Present' \/ k \in Owed(p)')
                                      <=> (k \in Present \/ k \in Owed(p))
          PROVE  Undisturbed' /\ CountIsExact'
        <2>1. Counted' = Counted
            BY <1>c, Settled
        <2> QED BY <1>c, <2>1 DEF Undisturbed, CountIsExact
    <1>1. CASE Tick \/ CleanerExit \/ UNCHANGED vars
        <2>1. \A q \in Procs : /\ UndisturbedAt(q)'
                              /\ Owed(q)' = Owed(q)
            <3>1. CASE Tick \/ UNCHANGED vars
                BY <3>1 DEF Tick, vars, Undisturbed, UndisturbedAt, EvictPCs, Held, Owed, Present
            <3>2. CASE CleanerExit
                BY <3>2, <1>t DEF CleanerExit, Undisturbed, UndisturbedAt, EvictPCs, Held, Owed, Present
            <3> QED BY <1>1, <3>1, <3>2
        <2>2. count' = count /\ Present' = Present
            BY <1>1 DEF Tick, CleanerExit, vars, Present
        <2> QED BY <2>1, <2>2, <1>c, <1>t
    <1>2. ASSUME NEW p \in Clients, NEW k \in Keys, NEW t \in TTLs, SetLoad(p, k, t)
          PROVE  Undisturbed' /\ CountIsExact'
        <2>1. Present' = Present /\ count' = count /\ p \in Procs
            BY <1>2, <1>t DEF SetLoad, Present
        <2>2. UndisturbedAt(p)' /\ Owed(p)' = Owed(p)
            BY <1>2, <1>t DEF SetLoad, Undisturbed, UndisturbedAt, EvictPCs, Held, Owed, Present
        <2>3. \A q \in Procs \ {p} : UndisturbedAt(q)' /\ Owed(q)' = Owed(q)
            BY <1>2, <1>t, <2>1, <1>b DEF SetLoad
        <2> QED BY <2>1, <2>2, <2>3, <1>c
    <1>3. ASSUME NEW p \in Clients, SetDelete(p)
          PROVE  Undisturbed' /\ CountIsExact'
        <2>1. Present' = Present \ {key[p]} /\ count' = count /\ p \in Procs
            BY <1>3, <1>t, <1>a, EntriesWithout DEF SetDelete, Present, TypeOK
        <2>2. UndisturbedAt(p)' /\ Owed(p)' = {key[p]} /\ Owed(p) = {} /\ Held(p) = {key[p]}
            BY <1>3, <1>t, <2>1 DEF SetDelete, Undisturbed, UndisturbedAt, EvictPCs, Held, Owed
        <2>3. \A q \in Procs \ {p} : UndisturbedAt(q)' /\ Owed(q)' = Owed(q)
            BY <1>3, <1>t, <2>1, <2>2, <1>b DEF SetDelete, Claims
        <2> QED BY <2>1, <2>2, <2>3, <1>c DEF Undisturbed, UndisturbedAt
    <1>4. ASSUME NEW p \in Clients, SetCount(p)
          PROVE  Undisturbed' /\ CountIsExact'
        <2>1. Present' = Present /\ count' = count + 1 /\ p \in Procs
            BY <1>4, <1>t DEF SetCount, Present
        <2>2. /\ UndisturbedAt(p)' /\ Owed(p)' = {key[p]} /\ Owed(p) = {}
              /\ key[p] \in Keys \ Present /\ key[p] \in Claims(p)
            BY <1>4, <1>t DEF SetCount, Undisturbed, UndisturbedAt, EvictPCs, Held, Owed,
                              Claims, OnKeyPCs, Present
        <2>3. \A q \in Procs \ {p} : UndisturbedAt(q)' /\ Owed(q)' = Owed(q)
            BY <1>4, <1>t, <2>1, <1>b DEF SetCount
        <2>4. key[p] \notin Counted
            <3>1. ASSUME NEW q \in Procs \ {p} PROVE key[p] \notin Owed(q)
                <4>1. Claims(q) \cap Claims(p) = {}
                    BY <2>1 DEF Disjoint
                <4>2. Owed(q) \subseteq Claims(q)
                    BY DEF Claims
                <4> QED BY <2>2, <4>1, <4>2
            <3> QED BY <2>2, <3>1 DEF Counted
        <2>5. Counted' = Counted \cup {key[p]}
            BY <2>1, <2>2, <2>3 DEF Counted
        <2>6. Cardinality(Counted \cup {key[p]}) = Cardinality(Counted) + 1
            BY <2>4, CacheAssumption, FS_Subset, FS_AddElement DEF Counted
        <2> QED BY <2>1, <2>2, <2>3, <2>5, <2>6 DEF Undisturbed, CountIsExact
    <1>5. ASSUME NEW p \in Clients, SetStore(p)
          PROVE  Undisturbed' /\ CountIsExact'
        <2>0. now + ttl[p] \in Nat
            BY <1>5, <1>a, SetStoreTime
        <2>1. Present' = Present \cup {key[p]} /\ count' = count /\ p \in Procs
            BY <1>5, <1>t, <1>a, <2>0, EntriesWith DEF SetStore, Present, TypeOK, OnKeyPCs
        <2>2. UndisturbedAt(p)' /\ Owed(p)' = {} /\ Owed(p) = {key[p]}
            BY <1>5, <1>t, <2>1 DEF SetStore, Undisturbed, UndisturbedAt, EvictPCs, Held, Owed
        <2>3. \A q \in Procs \ {p} : UndisturbedAt(q)' /\ Owed(q)' = Owed(q)
            BY <1>5, <1>t, <2>1, <2>2, <1>b DEF SetStore, Claims
        <2> QED BY <2>1, <2>2, <2>3, <1>c
    <1>6. ASSUME NEW p \in Clients, SetCheck(p) \/ EvictCheck(p)
          PROVE  Undisturbed' /\ CountIsExact'
        <2>1. Present' = Present /\ count' = count /\ p \in Procs
            BY <1>6, <1>t DEF SetCheck, EvictCheck, Present
        <2>2. UndisturbedAt(p)' /\ Owed(p)' = Owed(p)
            <3>1. CASE SetCheck(p)
                BY <3>1, <1>t DEF SetCheck, Undisturbed, UndisturbedAt, EvictPCs, Held, Owed, Present
            <3>2. CASE EvictCheck(p)
                BY <3>2, <1>t DEF EvictCheck, Undisturbed, UndisturbedAt, EvictPCs, Held, Owed, Present
            <3> QED BY <1>6, <3>1, <3>2
        <2>3. \A q \in Procs \ {p} : UndisturbedAt(q)' /\ Owed(q)' = Owed(q)
            BY <1>6, <1>t, <2>1, <1>b DEF SetCheck, EvictCheck
        <2> QED BY <2>1, <2>2, <2>3, <1>c
    <1>7. ASSUME NEW p \in Clients, NEW k \in Keys, EvictVisit(p, k)
          PROVE  Undisturbed' /\ CountIsExact'
        <2>1. Present' = Present /\ count' = count /\ p \in Procs
            BY <1>7, <1>t DEF EvictVisit, Present
        <2>2. DOMAIN cand'[p] \subseteq Present
            <3>1. DOMAIN cand[p] \subseteq Present /\ IsEntries(cand[p])
                BY <1>7, <1>t, <1>a DEF EvictVisit, Undisturbed, UndisturbedAt, Held, TypeOK
            <3>2. CASE k \in Present
                <4>1. data[k] \in Nat
                    BY <3>2, <1>a DEF Present, TypeOK, IsEntries
                <4>2. PICK c \in Consider(cand[p], k, data[k]) :
                        cand' = [cand EXCEPT ![p] = c]
                    BY <3>2, <1>7 DEF EvictVisit
                <4>3. DOMAIN c \subseteq DOMAIN cand[p] \cup {k}
                    BY <3>1, <4>1, EntriesConsider
                <4> QED BY <3>1, <3>2, <4>2, <4>3, <1>t
            <3> QED BY <3>1, <3>2, <1>7 DEF EvictVisit
        <2>3. UndisturbedAt(p)' /\ Owed(p)' = Owed(p)
            <3>1. CASE todo[p] = {k}
                BY <3>1, <1>7, <1>t, <2>1, <2>2 DEF EvictVisit, Undisturbed, UndisturbedAt, EvictPCs, Held, Owed
            <3>2. CASE todo[p] # {k}
                BY <3>2, <1>7, <1>t, <2>1, <2>2 DEF EvictVisit, Undisturbed, UndisturbedAt, EvictPCs, Held, Owed
            <3> QED BY <3>1, <3>2
        <2>4. \A q \in Procs \ {p} : UndisturbedAt(q)' /\ Owed(q)' = Owed(q)
            <3>1. \A q \in Clients \ {p} : cand'[q] = cand[q]
                <4>1. CASE k \in Present
                    BY <4>1, <1>7, <1>t DEF EvictVisit
                <4>2. CASE k \notin Present
                    BY <4>2, <1>7 DEF EvictVisit
                <4> QED BY <4>1, <4>2
            <3> QED BY <1>7, <1>t, <2>1, <3>1, <1>b DEF EvictVisit
        <2> QED BY <2>1, <2>3, <2>4, <1>c
    <1>8. ASSUME NEW p \in Clients, NEW k \in Keys, EvictDelete(p, k)
          PROVE  Undisturbed' /\ CountIsExact'
        <2>1. Present' = Present \ {k} /\ count' = count /\ p \in Procs
            BY <1>8, <1>t, <1>a, EntriesWithout DEF EvictDelete, Present, TypeOK
        <2>2. /\ UndisturbedAt(p)' /\ Owed(p)' = Owed(p) \cup {k}
              /\ k \in Present
            BY <1>8, <1>t, <1>0, <2>1 DEF EvictDelete, Undisturbed, UndisturbedAt, EvictPCs, Held, Owed, CleanerPCs
        <2>3. k \in Claims(p) \cup Claims(p)'
            BY <2>2 DEF Claims
        <2>4. \A q \in Procs \ {p} : UndisturbedAt(q)' /\ Owed(q)' = Owed(q)
            BY <1>8, <1>t, <1>0, <2>1, <2>3, <1>b DEF EvictDelete
        <2> QED BY <2>1, <2>2, <2>4, <1>c
    <1>9. ASSUME NEW p \in Clients, EvictCount(p)
          PROVE  Undisturbed' /\ CountIsExact'
        <2>1. /\ Present' = Present /\ p \in Procs
              /\ count' = count - Cardinality(gone[p])
            BY <1>9, <1>t, FS_Singleton DEF EvictCount, Present
        <2>2. UndisturbedAt(p)' /\ Owed(p)' = {} /\ Owed(p) = gone[p]
            BY <1>9, <1>t, <1>0 DEF EvictCount, Undisturbed, UndisturbedAt, EvictPCs, Held, Owed, CleanerPCs, Empty, Present
        <2>3. \A q \in Procs \ {p} : UndisturbedAt(q)' /\ Owed(q)' = Owed(q)
            BY <1>9, <1>t, <1>0, <2>1, <1>b DEF EvictCount
        <2>4. Owed(p) \subseteq Keys
            BY <1>a, <2>1, ClaimsAreKeys
        <2>5. Cardinality(Counted') = Cardinality(Counted) - Cardinality(Owed(p))
            BY <2>1, <2>2, <2>3, <2>4, Paid
        <2> QED BY <2>1, <2>2, <2>3, <2>5 DEF Undisturbed, CountIsExact
    <1>10. ASSUME NEW p \in Clients, NEW k \in Keys, GetLoad(p, k)
          PROVE  Undisturbed' /\ CountIsExact'
        <2>1. Present' = Present /\ count' = count /\ p \in Procs
            BY <1>10, <1>t DEF GetLoad, Present
        <2>2. UndisturbedAt(p)' /\ Owed(p)' = Owed(p)
            BY <1>10, <1>t, <1>0 DEF GetLoad, Undisturbed, UndisturbedAt, EvictPCs, Held, Owed, CleanerPCs, Present
        <2>3. \A q \in Procs \ {p} : UndisturbedAt(q)' /\ Owed(q)' = Owed(q)
            BY <1>10, <1>t, <1>0, <2>1, <1>b DEF GetLoad
        <2> QED BY <2>1, <2>2, <2>3, <1>c
    <1>11. ASSUME NEW p \in Clients, GetDelete(p)
          PROVE  Undisturbed' /\ CountIsExact'
        <2>1. Present' = Present \ {key[p]} /\ count' = count /\ p \in Procs
            BY <1>11, <1>t, <1>a, EntriesWithout DEF GetDelete, Present, TypeOK
        <2>2. /\ UndisturbedAt(p)' /\ Owed(p)' = Owed(p) \cup {key[p]}
              /\ key[p] \in Present
            BY <1>11, <1>t, <1>0, <2>1 DEF GetDelete, Undisturbed, UndisturbedAt, EvictPCs, Held, Owed, CleanerPCs
        <2>3. key[p] \in Claims(p) \cup Claims(p)'
            BY <2>2 DEF Claims
        <2>4. \A q \in Procs \ {p} : UndisturbedAt(q)' /\ Owed(q)' = Owed(q)
            BY <1>11, <1>t, <1>0, <2>1, <2>3, <1>b DEF GetDelete
        <2> QED BY <2>1, <2>2, <2>4, <1>c
    <1>12. ASSUME NEW p \in Clients, GetCount(p) \/ DeleteCount(p)
          PROVE  Undisturbed' /\ CountIsExact'
        <2>1. /\ Present' = Present /\ p \in Procs
              /\ count' = count - Cardinality({key[p]})
            BY <1>12, <1>t, FS_Singleton DEF GetCount, DeleteCount, Present
        <2>2. UndisturbedAt(p)' /\ Owed(p)' = {} /\ Owed(p) = {key[p]}
            BY <1>12, <1>t, <1>0 DEF GetCount, DeleteCount, Undisturbed, UndisturbedAt, EvictPCs, Held, Owed, CleanerPCs, Empty, Present
        <2>3. \A q \in Procs \ {p} : UndisturbedAt(q)' /\ Owed(q)' = Owed(q)
            BY <1>12, <1>t, <1>0, <2>1, <1>b DEF GetCount, DeleteCount
        <2>4. Owed(p) \subseteq Keys
            BY <1>a, <2>1, ClaimsAreKeys
        <2>5. Cardinality(Counted') = Cardinality(Counted) - Cardinality(Owed(p))
            BY <2>1, <2>2, <2>3, <2>4, Paid
        <2> QED BY <2>1, <2>2, <2>3, <2>5 DEF Undisturbed, CountIsExact
    <1>13. ASSUME NEW p \in Clients, NEW k \in Keys, DeleteLoad(p, k)
          PROVE  Undisturbed' /\ CountIsExact'
        <2>1. Present' = Present \ {k} /\ count' = count /\ p \in Procs
            BY <1>13, <1>t, <1>a, EntriesWithout DEF DeleteLoad, Present, TypeOK
        <2>2. /\ UndisturbedAt(p)' /\ Owed(p)' = Owed(p) \cup {k}
              /\ k \in Present
            BY <1>13, <1>t, <1>0, <2>1 DEF DeleteLoad, Undisturbed, UndisturbedAt, EvictPCs, Held, Owed, CleanerPCs
        <2>3. k \in Claims(p) \cup Claims(p)'
            BY <2>2 DEF Claims
        <2>4. \A q \in Procs \ {p} : UndisturbedAt(q)' /\ Owed(q)' = Owed(q)
            BY <1>13, <1>t, <1>0, <2>1, <2>3, <1>b DEF DeleteLoad
        <2> QED BY <2>1, <2>2, <2>4, <1>c
    <1>14. ASSUME NEW p \in Clients, CloseCheck(p) \/ CloseStop(p) \/ CloseWait(p)
          PROVE  Undisturbed' /\ CountIsExact'
        <2>1. Present' = Present /\ count' = count /\ p \in Procs
            BY <1>14, <1>t DEF CloseCheck, CloseStop, CloseWait, Present
        <2>2. UndisturbedAt(p)' /\ Owed(p)' = Owed(p)
            BY <1>14, <1>t, <1>0 DEF CloseCheck, CloseStop, CloseWait, Undisturbed, UndisturbedAt, EvictPCs, Held, Owed, CleanerPCs, Present
        <2>3. \A q \in Procs \ {p} : UndisturbedAt(q)' /\ Owed(q)' = Owed(q)
            BY <1>14, <1>t, <1>0, <2>1, <1>b DEF CloseCheck, CloseStop, CloseWait
        <2> QED BY <2>1, <2>2, <2>3, <1>c
    <1>15. CASE SweepStart
        <2>1. Present' = Present /\ count' = count /\ Cleaner \in Procs
            BY <1>15, <1>t DEF SweepStart, Present
        <2>2. UndisturbedAt(Cleaner)' /\ Owed(Cleaner)' = Owed(Cleaner)
            BY <1>15, <1>t, <1>0 DEF SweepStart, Undisturbed, UndisturbedAt, EvictPCs, Held, Owed, CleanerPCs, Present
        <2>3. \A q \in Procs \ {Cleaner} : UndisturbedAt(q)' /\ Owed(q)' = Owed(q)
            BY <1>15, <1>t, <1>0, <2>1, <1>b DEF SweepStart
        <2> QED BY <2>1, <2>2, <2>3, <1>c
    <1>16. ASSUME NEW k \in Keys, SweepVisit(k)
          PROVE  Undisturbed' /\ CountIsExact'
        <2>1. Present' = Present /\ count' = count /\ Cleaner \in Procs
            BY <1>16, <1>t DEF SweepVisit, Present
        <2>2. UndisturbedAt(Cleaner)' /\ Owed(Cleaner)' = Owed(Cleaner)
            BY <1>16, <1>t, <1>0 DEF SweepVisit, Undisturbed, UndisturbedAt, EvictPCs, Held, Owed, CleanerPCs, Present
        <2>3. \A q \in Procs \ {Cleaner} : UndisturbedAt(q)' /\ Owed(q)' = Owed(q)
            BY <1>16, <1>t, <1>0, <2>1, <1>b DEF SweepVisit
        <2> QED BY <2>1, <2>2, <2>3, <1>c
    <1>17. CASE SweepDelete
        <2>1. Present' = Present \ {key[Cleaner]} /\ count' = count /\ Cleaner \in Procs
            BY <1>17, <1>t, <1>a, EntriesWithout DEF SweepDelete, Present, TypeOK
        <2>2. /\ UndisturbedAt(Cleaner)' /\ Owed(Cleaner)' = Owed(Cleaner) \cup {key[Cleaner]}
              /\ key[Cleaner] \in Present
            BY <1>17, <1>t, <1>0, <2>1 DEF SweepDelete, Undisturbed, UndisturbedAt, EvictPCs, Held, Owed, CleanerPCs
        <2>3. key[Cleaner] \in Claims(Cleaner) \cup Claims(Cleaner)'
            BY <2>2 DEF Claims
        <2>4. \A q \in Procs \ {Cleaner} : UndisturbedAt(q)' /\ Owed(q)' = Owed(q)
            BY <1>17, <1>t, <1>0, <2>1, <2>3, <1>b DEF SweepDelete
        <2> QED BY <2>1, <2>2, <2>4, <1>c
    <1>18. CASE SweepCount
        <2>1. /\ Present' = Present /\ Cleaner \in Procs
              /\ count' = count - Cardinality(gone[Cleaner])
            BY <1>18, <1>t, FS_Singleton DEF SweepCount, Present
        <2>2. UndisturbedAt(Cleaner)' /\ Owed(Cleaner)' = {} /\ Owed(Cleaner) = gone[Cleaner]
            BY <1>18, <1>t, <1>0 DEF SweepCount, Undisturbed, UndisturbedAt, EvictPCs, Held, Owed, CleanerPCs, Empty, Present
        <2>3. \A q \in Procs \ {Cleaner} : UndisturbedAt(q)' /\ Owed(q)' = Owed(q)
            BY <1>18, <1>t, <1>0, <2>1, <1>b DEF SweepCount
        <2>4. Owed(Cleaner) \subseteq Keys
            BY <1>a, <2>1, ClaimsAreKeys
        <2>5. Cardinality(Counted') = Cardinality(Counted) - Cardinality(Owed(Cleaner))
            BY <2>1, <2>2, <2>3, <2>4, Paid
        <2> QED BY <2>1, <2>2, <2>3, <2>5 DEF Undisturbed, CountIsExact
    <1> QED
        BY <1>1, <1>2, <1>3, <1>4, <1>5, <1>6, <1>7, <1>8, <1>9, <1>10, <1>11,
           <1>12, <1>13, <1>14, <1>15, <1>16, <1>17, <1>18
        DEF Next, Call, Continue, Sweep

\* An empty, unused cache has a balanced ledger.
LEMMA DisjointInit == Init => CacheInv
    <1> SUFFICES ASSUME Init PROVE CacheInv
        OBVIOUS
    <1>1. /\ \A p \in Procs : pc[p] \in {"idle", "wait"} /\ gone[p] = {}
          /\ \A p \in Clients : DOMAIN cand[p] = {}
          /\ Present = {} /\ count = 0
        BY DEF Init, Present, Empty, Procs
    <1>2. \A p \in Procs : Claims(p) = {} /\ Held(p) = {} /\ Owed(p) = {}
        BY <1>1 DEF Claims, Held, Owed
    <1>3. Counted = {}
        BY <1>1, <1>2 DEF Counted
    <1>4. CountIsExact
        BY <1>1, <1>3, FS_EmptySet DEF CountIsExact
    <1>5. Undisturbed
        BY <1>1, <1>2 DEF Undisturbed, UndisturbedAt
    <1>6. Disjoint
        BY <1>2 DEF Disjoint
    <1> QED BY <1>4, <1>5, <1>6, TypeInit DEF CacheInv

\* The ledger balances in every state of every behaviour in which no two
\* operations in flight, eviction and cleanup included, work on one key.
THEOREM LedgerBalances == DisjointSpec => []CacheInv
    <1>1. CacheInv /\ [Next /\ Disjoint']_vars => CacheInv'
        <2> SUFFICES ASSUME CacheInv, [Next /\ Disjoint']_vars PROVE CacheInv'
            OBVIOUS
        <2>1. [Next]_vars /\ Disjoint'
            <3>1. UNCHANGED vars => Disjoint'
                BY DEF vars, Disjoint, Claims, Held, Owed, CacheInv
            <3> QED BY <3>1
        <2> QED BY <2>1, TypeStep, DisjointStep DEF CacheInv
    <1> QED BY <1>1, DisjointInit, PTL DEF DisjointSpec

\* So Size is right whenever no operation is under way (Cache.Size).
THEOREM SizeCorrect == DisjointSpec => []SizeIsExact
    <1>1. CacheInv => SizeIsExact
        <2> SUFFICES ASSUME CacheInv, Quiescent PROVE count = Cardinality(Present)
            BY DEF SizeIsExact
        <2>1. \A p \in Procs : Owed(p) = {}
            BY DEF CacheInv, Quiescent, Undisturbed, UndisturbedAt, Owed, Procs
        <2>2. Present \subseteq Keys
            BY DEF CacheInv, TypeOK, IsEntries, Present
        <2>3. Counted = Present
            BY <2>1, <2>2 DEF Counted
        <2> QED BY <2>3 DEF CacheInv, CountIsExact
    <1> QED BY <1>1, LedgerBalances, PTL

-----------------------------------------------------------------------------
(* The limit, while nothing is stored behind the Range of an eviction.      *)

\* A batch has room for one entry at least.
LEMMA ThresholdPositive == Threshold \in Int /\ Threshold > 0
    BY CacheAssumption DEF Threshold

\* An eviction that is shown an entry has a candidate.
LEMMA ConsiderTakes ==
    ASSUME NEW f, NEW k \in Keys, NEW e \in Nat, IsEntries(f),
           NEW c \in Consider(f, k, e)
    PROVE  DOMAIN c # {}
    <1> DEFINE Newest == {n \in DOMAIN f : \A m \in DOMAIN f : f[m] <= f[n]}
    <1>1. k \in DOMAIN With(f, k, e)
        BY DEF With
    <1>2. ASSUME NEW n \in Newest PROVE k \in DOMAIN With(Without(f, n), k, e)
        BY DEF With
    <1>3. CASE DOMAIN f = {}
        <2>1. Cardinality(DOMAIN f) < Threshold
            BY <1>3, FS_EmptySet, ThresholdPositive
        <2>2. c = With(f, k, e)
            BY <2>1 DEF Consider
        <2> QED BY <1>1, <2>2
    <1>4. CASE DOMAIN f # {}
        <2>1. \/ c = With(f, k, e)
              \/ \E n \in Newest : c = With(Without(f, n), k, e)
              \/ c = f
            BY DEF Consider
        <2> QED BY <1>1, <1>2, <1>4, <2>1
    <1> QED BY <1>3, <1>4

\* One more element makes a set larger by one at most.
LEMMA OneMore ==
    ASSUME NEW S, IsFiniteSet(S), NEW x
    PROVE  /\ IsFiniteSet(S \cup {x})
           /\ Cardinality(S \cup {x}) <= Cardinality(S) + 1
    <1>1. Cardinality(S) \in Nat
        BY FS_CardinalityType
    <1>2. CASE x \in S
        <2>1. S \cup {x} = S
            BY <1>2
        <2>2. Cardinality(S) <= Cardinality(S) + 1
            BY <1>1
        <2> QED BY <2>1, <2>2
    <1>3. CASE x \notin S
        <2>1. /\ IsFiniteSet(S \cup {x})
              /\ Cardinality(S \cup {x}) = Cardinality(S) + 1
            BY <1>3, FS_AddElement
        <2> QED BY <1>1, <2>1
    <1> QED BY <1>2, <1>3

\* Where a Set is at work in the sense of Storing.
StoringPCs == {"set_check", "evict_check", "evict_visit"}

\* The set of Sets at work, when one goroutine moves.
LEMMA StoringMoves ==
    ASSUME TypeOK, IsFiniteSet(Storing), NEW p \in Clients,
           \A q \in Clients \ {p} : pc'[q] = pc[q]
    PROVE  /\ IsFiniteSet(Storing')
           /\ Cardinality(Storing) \in Nat
           /\ (pc'[p] \in StoringPCs <=> pc[p] \in StoringPCs)
                => Cardinality(Storing') = Cardinality(Storing)
           /\ pc'[p] \in StoringPCs /\ pc[p] \notin StoringPCs
                => Cardinality(Storing') = Cardinality(Storing) + 1
           /\ pc'[p] \notin StoringPCs /\ pc[p] \in StoringPCs
                => Cardinality(Storing') = Cardinality(Storing) - 1
    <1>1. Cardinality(Storing) \in Nat
        BY FS_CardinalityType
    <1>2. CASE pc'[p] \in StoringPCs <=> pc[p] \in StoringPCs
        <2>1. Storing' = Storing
            BY <1>2 DEF Storing, StoringPCs
        <2> QED BY <1>1, <1>2, <2>1
    <1>3. CASE pc'[p] \in StoringPCs /\ pc[p] \notin StoringPCs
        <2>1. Storing' = Storing \cup {p} /\ p \notin Storing
            BY <1>3 DEF Storing, StoringPCs
        <2> QED BY <1>1, <1>3, <2>1, FS_AddElement
    <1>4. CASE pc'[p] \notin StoringPCs /\ pc[p] \in StoringPCs
        <2>1. Storing' = Storing \ {p} /\ p \in Storing
            BY <1>4 DEF Storing, StoringPCs
        <2> QED BY <1>1, <1>4, <2>1, FS_RemoveElement
    <1> QED BY <1>2, <1>3, <1>4

\* A step that stores nothing, evicts nothing and ends no eviction.
LEMMA NoNews ==
    ASSUME TypeOK, LimitInv, Present' \subseteq Present,
           \A q \in Clients :
               /\ pc'[q] \in StoringPCs <=> pc[q] \in StoringPCs
               /\ pc[q] = "evict_delete" => pc'[q] = pc[q] /\ todo'[q] = todo[q]
               /\ pc'[q] = "evict_visit"
                    => pc[q] = "evict_visit" /\ cand'[q] = cand[q] /\ todo'[q] = todo[q]
    PROVE  LimitInv'
    <1>1. Storing' = Storing
        BY DEF Storing, StoringPCs
    <1>2. Present' \ Doomed' \subseteq Present \ Doomed
        BY DEF Doomed
    <1>3. IsFiniteSet(Present \ Doomed)
        BY CacheAssumption, FS_Subset DEF TypeOK, IsEntries, Present
    <1>4. /\ IsFiniteSet(Present' \ Doomed')
          /\ Cardinality(Present' \ Doomed') <= Cardinality(Present \ Doomed)
          /\ Cardinality(Present \ Doomed) \in Nat
          /\ Cardinality(Present' \ Doomed') \in Nat
        BY <1>2, <1>3, FS_Subset, FS_CardinalityType
    <1>5. Cardinality(Storing) \in Nat /\ MaxItems \in Nat
        BY FS_CardinalityType, CacheAssumption DEF LimitInv
    <1> QED BY <1>1, <1>4, <1>5 DEF LimitInv

\* A Set may return when the counter says that the limit holds: with the
\* ledger balanced, it does.
LEMMA EnoughRoom ==
    ASSUME CacheInv, count <= MaxItems
    PROVE  /\ Cardinality(Present) \in Nat /\ Cardinality(Present) <= MaxItems
           /\ Cardinality(Present \ Doomed) \in Nat
           /\ Cardinality(Present \ Doomed) <= MaxItems
    <1>1. Present \subseteq Counted /\ IsFiniteSet(Counted)
        BY CacheAssumption, FS_Subset DEF CacheInv, TypeOK, IsEntries, Present, Counted
    <1>2. Cardinality(Counted) = count /\ Cardinality(Counted) \in Nat
        BY <1>1, FS_CardinalityType DEF CacheInv, CountIsExact
    <1>3. /\ IsFiniteSet(Present) /\ Cardinality(Present) <= Cardinality(Counted)
          /\ Cardinality(Present) \in Nat
        BY <1>1, FS_Subset, FS_CardinalityType
    <1>4. /\ Cardinality(Present \ Doomed) <= Cardinality(Present)
          /\ Cardinality(Present \ Doomed) \in Nat
        BY <1>3, FS_Subset, FS_CardinalityType
    <1> QED BY <1>2, <1>3, <1>4, CacheAssumption

\* The heart of the argument: a Set that stores adds itself to the Sets at
\* work, and leaves them when the counter, hence the cache, is within the
\* limit, when it has chosen a key to evict, or when it has met none at all.
LEMMA LimitStep ==
    ASSUME CacheInv, CacheInv', LimitInv, SeenByRange, [Next]_vars
    PROVE  LimitInv'
    <1> USE DEF Goto, Return
    <1>0. \A p \in Clients : p # Cleaner
        BY CacheAssumption
    <1>t. /\ TypeOK /\ IsEntries(data)
          /\ pc \in [Procs -> ClientPCs \cup CleanerPCs]
          /\ key \in [Procs -> Keys \cup {NoKey}]
          /\ todo \in [Procs -> SUBSET Keys]
          /\ DOMAIN cand = Clients
          /\ Clients \subseteq Procs /\ Cleaner \in Procs
          /\ IsFiniteSet(Storing)
        BY DEF CacheInv, TypeOK, Procs, LimitInv
    <1>m. MaxItems \in Nat
        BY CacheAssumption
    <1>f. /\ IsFiniteSet(Present \ Doomed) /\ IsFiniteSet(Present)
          /\ Cardinality(Present \ Doomed) \in Nat
        BY CacheAssumption, FS_Subset, FS_CardinalityType
           DEF CacheInv, TypeOK, IsEntries, Present
    <1>1. CASE Tick \/ UNCHANGED vars
        <2>1. /\ Present' = Present
              /\ pc' = pc /\ cand' = cand /\ todo' = todo
            BY <1>1 DEF Tick, vars, Present
        <2> QED BY <2>1, <1>t, NoNews
    <1>2. ASSUME NEW p \in Clients, NEW k \in Keys,
                 \/ \E t \in TTLs : SetLoad(p, k, t)
                 \/ GetLoad(p, k)
          PROVE  LimitInv'
        <2>1. Present' = Present
            BY <1>2 DEF SetLoad, GetLoad, Present
        <2> QED BY <1>2, <2>1, <1>t, NoNews DEF SetLoad, GetLoad, StoringPCs
    <1>3. ASSUME NEW p \in Clients, SetDelete(p) \/ GetDelete(p) PROVE LimitInv'
        <2>1. Present' = Present \ {key[p]}
            BY <1>3, <1>t, EntriesWithout DEF SetDelete, GetDelete, Present
        <2> QED BY <1>3, <2>1, <1>t, NoNews DEF SetDelete, GetDelete, StoringPCs
    <1>4. ASSUME NEW p \in Clients, NEW k \in Keys, DeleteLoad(p, k) PROVE LimitInv'
        <2>1. Present' = Present \ {k}
            BY <1>4, <1>t, EntriesWithout DEF DeleteLoad, Present
        <2> QED BY <1>4, <2>1, <1>t, NoNews DEF DeleteLoad, StoringPCs
    <1>5. ASSUME NEW p \in Clients, SetCount(p) \/ GetCount(p) \/ DeleteCount(p)
          PROVE  LimitInv'
        <2>1. Present' = Present
            BY <1>5 DEF SetCount, GetCount, DeleteCount, Present
        <2> QED BY <1>5, <2>1, <1>t, NoNews DEF SetCount, GetCount, DeleteCount, StoringPCs
    <1>6. ASSUME NEW p \in Clients, CloseCheck(p) \/ CloseStop(p) \/ CloseWait(p)
          PROVE  LimitInv'
        <2>1. Present' = Present
            BY <1>6 DEF CloseCheck, CloseStop, CloseWait, Present
        <2> QED BY <1>6, <2>1, <1>t, NoNews DEF CloseCheck, CloseStop, CloseWait, StoringPCs
    <1>7. ASSUME NEW p \in Clients, EvictCount(p) PROVE LimitInv'
        <2>1. Present' = Present
            BY <1>7 DEF EvictCount, Present
        <2> QED BY <1>7, <2>1, <1>t, NoNews DEF EvictCount, StoringPCs
    <1>8. CASE Sweep \/ CleanerExit
        <2>1. Present' = Present \/ Present' = Present \ {key[Cleaner]}
            <3>1. CASE SweepDelete
                BY <3>1, <1>t, EntriesWithout DEF SweepDelete, Present
            <3> QED
                BY <1>8, <3>1
                   DEF Sweep, SweepStart, SweepVisit, SweepCount, CleanerExit, Present
        <2>2. \A q \in Clients : pc'[q] = pc[q] /\ cand'[q] = cand[q] /\ todo'[q] = todo[q]
            BY <1>8, <1>t, <1>0
               DEF Sweep, SweepStart, SweepVisit, SweepDelete, SweepCount, CleanerExit
        <2> QED BY <2>1, <2>2, <1>t, NoNews
    <1>9. ASSUME NEW p \in Clients, SetStore(p) PROVE LimitInv'
        <2>1. Present' = Present \cup {key[p]}
            <3>1. key[p] \in Keys /\ now + ttl[p] \in Nat
                BY <1>9, <1>t, SetStoreTime DEF SetStore, TypeOK, OnKeyPCs
            <3> QED BY <1>9, <1>t, <3>1, EntriesWith DEF SetStore, Present
        <2>2. Cardinality(Storing') = Cardinality(Storing) + 1
              /\ IsFiniteSet(Storing') /\ Cardinality(Storing) \in Nat
            BY <1>9, <1>t, StoringMoves DEF SetStore, StoringPCs
        <2>3. Present' \ Doomed' \subseteq (Present \ Doomed) \cup {key[p]}
            BY <1>9, <1>t, <2>1 DEF SetStore, Doomed
        <2>4. /\ IsFiniteSet(Present' \ Doomed')
              /\ Cardinality(Present' \ Doomed') <= Cardinality(Present \ Doomed) + 1
              /\ Cardinality(Present' \ Doomed') \in Nat
            <3>1. /\ IsFiniteSet((Present \ Doomed) \cup {key[p]})
                  /\ Cardinality((Present \ Doomed) \cup {key[p]})
                        <= Cardinality(Present \ Doomed) + 1
                BY <1>f, OneMore
            <3> QED BY <2>3, <3>1, <1>f, FS_Subset, FS_CardinalityType
        <2>5. ASSUME NEW q \in Clients, pc'[q] = "evict_visit", DOMAIN cand'[q] = {}
              PROVE  Present' \subseteq todo'[q]
            <3>1. q # p /\ pc[q] = "evict_visit" /\ cand'[q] = cand[q] /\ todo'[q] = todo[q]
                BY <1>9, <2>5, <1>t DEF SetStore
            <3>2. key[p] \in todo[q]
                BY <1>9, <3>1 DEF SeenByRange, SetStore
            <3> QED BY <2>1, <2>5, <3>1, <3>2 DEF LimitInv
        <2> QED BY <2>2, <2>4, <2>5, <1>f, <1>m DEF LimitInv
    \* A Set that does not evict, or not any more, found the limit respected.
    <1>10. ASSUME NEW p \in Clients, SetCheck(p) \/ EvictCheck(p) PROVE LimitInv'
        <2>1. Present' = Present /\ cand' = cand
            BY <1>10 DEF SetCheck, EvictCheck, Present
        <2>2. Doomed' = Doomed
            BY <1>10, <1>t DEF SetCheck, EvictCheck, Doomed
        <2>3. CASE pc'[p] = "idle"
            <3>1. MaxItems > 0 => count <= MaxItems
                BY <1>10, <2>3, <1>t, <1>m DEF SetCheck, EvictCheck, CacheInv, TypeOK
            <3>2. IsFiniteSet(Storing') /\ Cardinality(Storing') \in Nat
                BY <1>10, <1>t, <2>3, StoringMoves, FS_CardinalityType
                   DEF SetCheck, EvictCheck
            <3>3. \A q \in Clients : pc'[q] = "evict_visit" =>
                    pc[q] = "evict_visit" /\ todo'[q] = todo[q]
                BY <1>10, <2>3, <1>t DEF SetCheck, EvictCheck
            <3>4. MaxItems > 0 => Cardinality(Present' \ Doomed') <= MaxItems + Cardinality(Storing')
                BY <2>1, <2>2, <3>1, <3>2, <1>m, EnoughRoom
            <3> QED BY <2>1, <3>2, <3>3, <3>4 DEF LimitInv
        <2>4. CASE pc'[p] # "idle"
            <3>1. Cardinality(Storing') = Cardinality(Storing) /\ IsFiniteSet(Storing')
                BY <1>10, <1>t, <2>4, StoringMoves DEF SetCheck, EvictCheck, StoringPCs
            <3>2. \A q \in Clients : pc'[q] = "evict_visit" =>
                    \/ pc[q] = "evict_visit" /\ todo'[q] = todo[q]
                    \/ todo'[q] = Keys
                BY <1>10, <2>4, <1>t DEF SetCheck, EvictCheck
            <3>3. Present \subseteq Keys
                BY <1>t DEF IsEntries, Present
            <3> QED BY <2>1, <2>2, <3>1, <3>2, <3>3 DEF LimitInv
        <2> QED BY <2>3, <2>4
    <1>11. ASSUME NEW p \in Clients, NEW k \in Keys, EvictVisit(p, k) PROVE LimitInv'
        <2> DEFINE C == DOMAIN cand'[p]
        <2>1. Present' = Present /\ pc[p] = "evict_visit" /\ k \in todo[p]
            BY <1>11 DEF EvictVisit, Present
        <2>2. C = {} => DOMAIN cand[p] = {} /\ k \notin Present
            <3>1. CASE k \in Present
                <4>1. PICK c \in Consider(cand[p], k, data[k]) : cand'[p] = c
                    BY <3>1, <1>11, <1>t DEF EvictVisit
                <4>2. IsEntries(cand[p]) /\ data[k] \in Nat
                    BY <3>1, <1>t DEF TypeOK, IsEntries, Present
                <4> QED BY <4>1, <4>2, ConsiderTakes
            <3>2. CASE k \notin Present
                BY <3>2, <1>11 DEF EvictVisit
            <3> QED BY <3>1, <3>2
        <2>3. /\ C = {} => Present \subseteq todo[p] \ {k}
              /\ \A q \in Clients \ {p} : cand'[q] = cand[q] /\ todo'[q] = todo[q] /\ pc'[q] = pc[q]
            <3>1. C = {} => Present \subseteq todo[p] \ {k}
                BY <2>1, <2>2 DEF LimitInv
            <3>2. \A q \in Clients \ {p} : cand'[q] = cand[q]
                <4>1. CASE k \in Present
                    BY <4>1, <1>11, <1>t DEF EvictVisit
                <4>2. CASE k \notin Present
                    BY <4>2, <1>11 DEF EvictVisit
                <4> QED BY <4>1, <4>2
            <3>3. \A q \in Clients \ {p} : todo'[q] = todo[q] /\ pc'[q] = pc[q]
                BY <1>11, <1>t DEF EvictVisit
            <3> QED BY <3>1, <3>2, <3>3
        <2> HIDE DEF C
        \* The Range goes on.
        <2>4. CASE todo[p] # {k}
            <3>1. pc' = pc /\ todo'[p] = todo[p] \ {k}
                BY <1>11, <2>4, <1>t DEF EvictVisit
            <3>2. Storing' = Storing /\ Doomed' = Doomed
                BY <2>1, <2>3, <3>1 DEF Storing, Doomed
            <3>3. \A q \in Clients : pc'[q] = "evict_visit" /\ DOMAIN cand'[q] = {}
                                        => Present' \subseteq todo'[q]
                BY <2>1, <2>3, <3>1 DEF LimitInv, C
            <3> QED BY <2>1, <3>2, <3>3 DEF LimitInv
        <2>5. CASE todo[p] = {k}
            <3>1. /\ pc'[p] = IF C = {} THEN "evict_count" ELSE "evict_delete"
                  /\ todo'[p] = C
                BY <1>11, <2>5, <1>t DEF EvictVisit, C
            <3>2. /\ IsFiniteSet(Storing') /\ Cardinality(Storing) \in Nat
                  /\ Cardinality(Storing') = Cardinality(Storing) - 1
                  /\ Cardinality(Storing') \in Nat
                BY <1>t, <2>1, <2>3, <3>1, StoringMoves, FS_CardinalityType DEF StoringPCs
            <3>3. \A q \in Clients : pc'[q] = "evict_visit" /\ DOMAIN cand'[q] = {}
                                        => Present' \subseteq todo'[q]
                BY <2>1, <2>3, <3>1 DEF LimitInv
            \* A Range that met nothing leaves an empty cache.
            <3>4. CASE C = {}
                <4>1. Present' \ Doomed' = {}
                    BY <2>1, <2>3, <2>5, <3>4
                <4>2. Cardinality(Present' \ Doomed') = 0
                    BY <4>1, FS_EmptySet
                <4> QED BY <3>2, <3>3, <4>2, <1>m DEF LimitInv
            \* Otherwise one key at least is doomed for the Set that was at work.
            <3>5. CASE C # {}
                <4>1. PICK j : j \in C
                    BY <3>5
                <4>2. Held(p)' = C
                    BY <3>1, <3>5 DEF Held
                <4>3. C \subseteq Present
                    BY <4>2, <2>1, <1>t DEF CacheInv, Undisturbed, UndisturbedAt
                <4>4. j \notin Doomed
                    <5> SUFFICES ASSUME NEW q \in Clients,
                                        pc[q] = "evict_delete", j \in todo[q]
                                 PROVE  FALSE
                        BY DEF Doomed
                    <5>1. q # p /\ j \in Held(q)'
                        BY <2>1, <2>3 DEF Held
                    <5> QED BY <5>1, <4>1, <4>2, <1>t DEF CacheInv, Disjoint, Claims
                <4>5. j \in Keys /\ C \subseteq Keys
                    BY <4>1, <4>3, <1>t DEF IsEntries, Present
                <4>6. Present' \ Doomed' \subseteq (Present \ Doomed) \ {j}
                    BY <2>1, <2>3, <3>1, <3>5, <4>1, <4>5 DEF Doomed
                <4>7. /\ Cardinality(Present' \ Doomed') \in Nat
                      /\ Cardinality(Present' \ Doomed') <= Cardinality(Present \ Doomed) - 1
                    <5> DEFINE P == Present \ Doomed
                    <5>1. /\ IsFiniteSet(P \ {j})
                          /\ Cardinality(P \ {j}) = Cardinality(P) - 1
                        BY <1>f, <4>1, <4>3, <4>4, FS_RemoveElement
                    <5> QED BY <4>6, <5>1, FS_Subset, FS_CardinalityType
                <4> QED BY <3>2, <3>3, <4>7, <1>f, <1>m DEF LimitInv
            <3> QED BY <3>4, <3>5
        <2> QED BY <2>4, <2>5
    <1>12. ASSUME NEW p \in Clients, NEW k \in Keys, EvictDelete(p, k) PROVE LimitInv'
        <2>1. Present' = Present \ {k}
            BY <1>12, <1>t, EntriesWithout DEF EvictDelete, Present
        <2>2. Present' \ Doomed' \subseteq Present \ Doomed
            BY <1>12, <1>t, <2>1 DEF EvictDelete, Doomed
        <2>3. /\ Cardinality(Present' \ Doomed') <= Cardinality(Present \ Doomed)
              /\ Cardinality(Present' \ Doomed') \in Nat
            BY <2>2, <1>f, FS_Subset, FS_CardinalityType
        <2>4. /\ IsFiniteSet(Storing') /\ Cardinality(Storing) \in Nat
              /\ Cardinality(Storing') = Cardinality(Storing)
            BY <1>12, <1>t, StoringMoves DEF EvictDelete, StoringPCs
        <2>5. \A q \in Clients : pc'[q] = "evict_visit" =>
                pc[q] = "evict_visit" /\ cand'[q] = cand[q] /\ todo'[q] = todo[q]
            BY <1>12, <1>t DEF EvictDelete
        <2> QED BY <2>1, <2>3, <2>4, <2>5, <1>f, <1>m DEF LimitInv
    <1> QED
        BY <1>1, <1>2, <1>3, <1>4, <1>5, <1>6, <1>7, <1>8, <1>9, <1>10, <1>11, <1>12
        DEF Next, Call, Continue

\* An empty cache is within any limit.
LEMMA LimitInit == Init => LimitInv
    <1> SUFFICES ASSUME Init PROVE LimitInv
        OBVIOUS
    <1>1. /\ \A p \in Clients : pc[p] = "idle"
          /\ Present = {}
        BY CacheAssumption DEF Init, Present, Empty, Procs
    <1>2. Storing = {} /\ Present \ Doomed = {}
        BY <1>1 DEF Storing
    <1>3. IsFiniteSet({}) /\ Cardinality({}) = 0
        BY FS_EmptySet
    <1> QED BY <1>1, <1>2, <1>3, CacheAssumption DEF LimitInv

\* Every entry over the limit has a Set at work or a batch on its way, in every
\* behaviour in which calls work on different keys and nothing is stored
\* behind an eviction.
THEOREM OverflowIsAnswered == SeenSpec => []LimitInv
    <1>1. CacheInv /\ [Next /\ Disjoint' /\ SeenByRange']_vars => CacheInv'
        <2> SUFFICES ASSUME CacheInv, [Next /\ Disjoint' /\ SeenByRange']_vars
                     PROVE  CacheInv'
            OBVIOUS
        <2>1. [Next]_vars /\ Disjoint'
            <3>1. UNCHANGED vars => Disjoint'
                BY DEF vars, Disjoint, Claims, Held, Owed, CacheInv
            <3> QED BY <3>1
        <2> QED BY <2>1, TypeStep, DisjointStep DEF CacheInv
    <1>2. Init => SeenByRange
        BY CacheAssumption DEF Init, SeenByRange, Procs
    <1>3. SeenByRange /\ [Next /\ Disjoint' /\ SeenByRange']_vars => SeenByRange'
        BY DEF vars, SeenByRange
    <1>4. CacheInv /\ CacheInv' /\ LimitInv /\ SeenByRange
              /\ [Next /\ Disjoint' /\ SeenByRange']_vars => LimitInv'
        BY LimitStep
    <1> QED BY <1>1, <1>2, <1>3, <1>4, DisjointInit, LimitInit, PTL DEF SeenSpec

\* So MaxItems is the maximum number of items allowed in the cache, whenever no
\* operation is under way (cleanupOldest).
THEOREM LimitHolds == SeenSpec => []MaxItemsRespected
    <1>1. LimitInv => MaxItemsRespected
        <2> SUFFICES ASSUME LimitInv, Quiescent, MaxItems > 0
                     PROVE  Cardinality(Present) <= MaxItems
            BY DEF MaxItemsRespected
        <2>1. Storing = {} /\ Present \ Doomed = Present
            BY DEF Quiescent, Storing, Doomed
        <2>2. Cardinality(Storing) = 0
            BY <2>1, FS_EmptySet
        <2>3. Cardinality(Present) <= MaxItems + Cardinality(Storing)
            BY <2>1 DEF LimitInv
        <2> QED BY <2>2, <2>3, CacheAssumption
    <1> QED BY <1>1, OverflowIsAnswered, PTL

=============================================================================
