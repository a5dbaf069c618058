-------------------------- MODULE TokenListProofs --------------------------
(* Theorems about TokenList, for any users, tokens and goroutines.          *)
EXTENDS TokenList, TLAPS

\* Storing a list keeps a map of lists one.
LEMMA PutList ==
    ASSUME NEW f, NEW u \in Users, NEW l \in SUBSET Tokens, IsLists(f)
    PROVE  IsLists(Put(f, u, l))
    BY DEF IsLists, Put

\* So does dropping an entry.
LEMMA DropList ==
    ASSUME NEW f, NEW u, IsLists(f)
    PROVE  IsLists(Drop(f, u))
    BY DEF IsLists, Drop, Restrict

\* The lists in a row and in an entry.
LEMMA ListTypes ==
    ASSUME TypeOK, NEW u \in Users
    PROVE  /\ Row(u) \subseteq Tokens
           /\ u \in DOMAIN cache => cache[u] \subseteq Tokens
    BY DEF TypeOK, IsLists, Row

\* The call a goroutine serves.
LEMMA BusyTypes ==
    ASSUME TypeOK, NEW p \in Procs, pc[p] # "idle"
    PROVE  Op(p) \in Ops /\ User(p) \in Users /\ Token(p) \in Tokens
    BY DEF TypeOK, Requests, Op, User, Token

\* What an append leaves: its own list has the token, and in another list of
\* the user, held or cached, the token may have taken the place of one.
LEMMA AppendEffect ==
    ASSUME TypeOK, NEW p \in Procs, Append(p)
    PROVE  /\ seen' \in [Procs -> SUBSET Tokens]
           /\ seen'[p] = seen[p] \cup {Token(p)}
           /\ \A q \in Procs : q # p =>
                 \/ seen'[q] = seen[q]
                 \/ /\ User(q) = User(p) /\ pc[q] # "idle"
                    /\ seen'[q] \subseteq seen[q] \cup {Token(p)}
           /\ \/ cache' = cache
              \/ /\ User(p) \in DOMAIN cache
                 /\ seen[p] # cache[User(p)]
                 /\ \E l \in SUBSET (cache[User(p)] \cup {Token(p)}) :
                        cache' = Put(cache, User(p), l)
    <1>0. User(p) \in Users /\ Token(p) \in Tokens
        BY BusyTypes DEF Append
    <1>a. PICK x \in Tokens : \E held \in SUBSET Sharing(p, seen[p], x), cached \in BOOLEAN :
             /\ cached => seen[p] \subseteq Cached(User(p)) /\ x \in Cached(User(p)) \ seen[p]
             /\ seen' = [q \in Procs |->
                          IF q = p THEN Edited("add", Token(p), seen[p])
                          ELSE IF q \in held THEN (seen[q] \ {x}) \cup {Token(p)}
                          ELSE seen[q]]
             /\ cache' = IF cached
                         THEN Put(cache, CacheKey(User(p)),
                                  (Cached(User(p)) \ {x}) \cup {Token(p)})
                         ELSE cache
        BY DEF Append
    <1>1. PICK held \in SUBSET Sharing(p, seen[p], x), cached \in BOOLEAN :
             /\ cached => seen[p] \subseteq Cached(User(p)) /\ x \in Cached(User(p)) \ seen[p]
             /\ seen' = [q \in Procs |->
                          IF q = p THEN Edited("add", Token(p), seen[p])
                          ELSE IF q \in held THEN (seen[q] \ {x}) \cup {Token(p)}
                          ELSE seen[q]]
             /\ cache' = IF cached
                         THEN Put(cache, CacheKey(User(p)),
                                  (Cached(User(p)) \ {x}) \cup {Token(p)})
                         ELSE cache
        BY <1>a
    <1>2. Edited("add", Token(p), seen[p]) = seen[p] \cup {Token(p)}
        BY DEF Edited
    <1>3. /\ seen' \in [Procs -> SUBSET Tokens]
          /\ seen'[p] = seen[p] \cup {Token(p)}
        BY <1>0, <1>1, <1>2 DEF TypeOK
    <1>4. ASSUME NEW q \in Procs, q # p, seen'[q] # seen[q]
          PROVE  /\ User(q) = User(p) /\ pc[q] # "idle"
                 /\ seen'[q] \subseteq seen[q] \cup {Token(p)}
        BY <1>1, <1>4 DEF Sharing
    <1>5. CASE cached
        <2>1. User(p) \in DOMAIN cache /\ Cached(User(p)) = cache[User(p)]
            BY <1>1, <1>5 DEF Cached
        <2>2. seen[p] # cache[User(p)]
            BY <1>1, <1>5, <2>1
        <2> QED BY <1>1, <1>3, <1>4, <1>5, <2>1, <2>2 DEF CacheKey
    <1>6. CASE ~cached
        BY <1>1, <1>3, <1>4, <1>6
    <1> QED BY <1>5, <1>6

\* What a goroutine holds after GetUserSetting looked in the cache.
LEMMA ReadTypes ==
    ASSUME TypeOK, NEW p \in Procs, NEW r, Read(p, r),
           r.op \in Ops => r \in Requests
    PROVE  /\ IsLists(db') /\ IsLists(cache')
           /\ pc' \in [Procs -> {"idle", "query", "fill", "refill", "act", "write", "publish"}]
           /\ req' \in [Procs -> Requests \cup {NoReq}]
           /\ \A q \in Procs : pc'[q] # "idle" => req'[q] \in Requests
           /\ seen' \in [Procs -> SUBSET Tokens]
    <1>1. r \in Requests /\ r.user \in Users
        BY DEF Read, Requests
    <1>2. CASE CacheKey(r.user) \in DOMAIN cache
        <2>1. cache[CacheKey(r.user)] \subseteq Tokens
            BY <1>1, <1>2, ListTypes DEF CacheKey
        <2> QED BY <1>1, <1>2, <2>1 DEF Read, Goto, TypeOK
    <1>3. CASE CacheKey(r.user) \notin DOMAIN cache
        BY <1>1, <1>3 DEF Read, Goto, TypeOK
    <1> QED BY <1>2, <1>3

\* The initial state is well typed.
LEMMA TypeInit == Init => TypeOK
    BY DEF Init, TypeOK, IsLists, NoLists

\* Every step keeps the state well typed.
LEMMA TypeStep == TypeOK /\ [Next]_vars => TypeOK'
    <1> SUFFICES ASSUME TypeOK, [Next]_vars PROVE TypeOK'
        OBVIOUS
    <1> USE DEF history
    <1>1. ASSUME NEW p \in Procs, NEW u \in Users, NEW t \in Tokens,
                 Add(p, u, t) \/ Remove(p, u, t) \/ Check(p, u, t) \/ Touch(p, u, t)
          PROVE  TypeOK'
        <2>1. PICK op \in {"add", "remove", "check", "touch"} :
                Read(p, [op |-> op, user |-> u, token |-> t])
            BY <1>1 DEF Add, Remove, Check, Touch
        <2>2. op \in Ops => [op |-> op, user |-> u, token |-> t] \in Requests
            BY DEF Requests
        <2>3. /\ IsLists(db') /\ IsLists(cache')
              /\ pc' \in [Procs -> {"idle", "query", "fill", "refill", "act", "write", "publish"}]
              /\ req' \in [Procs -> Requests \cup {NoReq}]
              /\ \A q \in Procs : pc'[q] # "idle" => req'[q] \in Requests
              /\ seen' \in [Procs -> SUBSET Tokens]
            BY <2>1, <2>2, ReadTypes
        <2>4. /\ touches' \subseteq Users \X Tokens
              /\ issued' \in [Users -> SUBSET Tokens]
              /\ added' \in [Users -> SUBSET Tokens]
              /\ doomed' \in [Users -> SUBSET Tokens]
              /\ revoked' \in [Users -> SUBSET Tokens]
            BY <1>1 DEF TypeOK, Add, Remove, Check, Touch
        <2> QED BY <2>3, <2>4 DEF TypeOK
    <1>2. ASSUME NEW u \in Users, NEW t \in Tokens, UsePAT(u, t) PROVE TypeOK'
        BY <1>2 DEF UsePAT, TypeOK
    <1>3. ASSUME NEW p \in Procs, Query(p) PROVE TypeOK'
        BY <1>3, ListTypes, BusyTypes DEF Query, Goto, TypeOK
    <1>4. ASSUME NEW p \in Procs, Fill(p) PROVE TypeOK'
        <2>1. IsLists(cache')
            BY <1>4, PutList, BusyTypes DEF Fill, TypeOK, CacheKey
        <2> QED BY <1>4, <2>1 DEF Fill, Goto, TypeOK
    <1>5. ASSUME NEW p \in Procs, Answer(p) \/ DriverFails(p) PROVE TypeOK'
        BY <1>5 DEF Answer, DriverFails, Return, Goto, TypeOK
    <1>6. ASSUME NEW p \in Procs, Upsert(p) PROVE TypeOK'
        <2>1. IsLists(db')
            BY <1>6, PutList, BusyTypes DEF Upsert, TypeOK
        <2> QED BY <1>6, <2>1 DEF Upsert, Goto, TypeOK
    <1>a. ASSUME NEW p \in Procs, Append(p) PROVE TypeOK'
        <2>1. IsLists(cache')
            <3>1. User(p) \in Users /\ Token(p) \in Tokens
                BY <1>a, BusyTypes DEF Append
            <3>2. CASE cache' = cache
                BY <3>2 DEF TypeOK
            <3>3. CASE cache' # cache
                <4>1. PICK l \in SUBSET (cache[User(p)] \cup {Token(p)}) :
                        User(p) \in DOMAIN cache /\ cache' = Put(cache, User(p), l)
                    BY <1>a, <3>3, AppendEffect
                <4>2. l \in SUBSET Tokens
                    BY <3>1, <4>1, ListTypes
                <4> QED BY <3>1, <4>1, <4>2, PutList DEF TypeOK
            <3> QED BY <3>2, <3>3
        <2>2. seen' \in [Procs -> SUBSET Tokens]
            BY <1>a, AppendEffect
        <2> QED BY <1>a, <2>1, <2>2 DEF Append, Goto, TypeOK
    <1>b. ASSUME NEW p \in Procs, Edit(p) PROVE TypeOK'
        <2>1. Edited(Op(p), Token(p), seen[p]) \in SUBSET Tokens
            BY <1>b DEF Edit, Edited, TypeOK
        <2> QED BY <1>b, <2>1 DEF Edit, Goto, TypeOK
    <1>7. ASSUME NEW p \in Procs, Publish(p) PROVE TypeOK'
        <2>1. IsLists(cache')
            BY <1>7, PutList, BusyTypes DEF Publish, TypeOK, CacheKey
        <2>2. added' \in [Users -> SUBSET Tokens] /\ revoked' \in [Users -> SUBSET Tokens]
            BY <1>7, BusyTypes DEF Publish, TypeOK
        <2> QED BY <1>7, <2>1, <2>2 DEF Publish, Return, Goto, TypeOK
    <1>8. ASSUME NEW u \in Users, Expire(u) PROVE TypeOK'
        BY <1>8, DropList DEF Expire, TypeOK
    <1>9. CASE Restart
        BY <1>9 DEF Restart, TypeOK, IsLists, NoLists
    <1>10. CASE UNCHANGED vars
        BY <1>10 DEF vars, state, TypeOK, IsLists
    <1> QED BY <1>1, <1>2, <1>3, <1>4, <1>5, <1>6, <1>7, <1>8, <1>9, <1>10, <1>a, <1>b
            DEF Next, Call, Continue

\* The types of the lists and of the calls in flight.
THEOREM TypeCorrect == Spec => []TypeOK
    BY TypeInit, TypeStep, PTL DEF Spec

-----------------------------------------------------------------------------
\* An operation enters GetUserSetting with a token of its user.
LEMMA OwnRead ==
    ASSUME OwnInv, TypeOK', NEW p \in Procs, NEW u \in Users, NEW t \in Tokens, NEW op,
           Read(p, [op |-> op, user |-> u, token |-> t]),
           \A v \in Users : issued[v] \subseteq issued'[v],
           t \in issued'[u]
    PROVE  OwnTokensOnly' /\ CallsOwn'
    <1>1. OwnTokensOnly'
        BY DEF OwnInv, OwnTokensOnly, Read, Row, Cached
    <1>2. ASSUME NEW q \in Procs, q # p, pc'[q] # "idle"
          PROVE  /\ Token(q)' \in issued'[User(q)']
                 /\ pc'[q] # "query" => seen'[q] \subseteq issued'[User(q)']
        <2>1. pc'[q] = pc[q] /\ req'[q] = req[q] /\ seen'[q] = seen[q]
            BY <1>2 DEF Read, Goto, OwnInv, TypeOK
        <2>2. User(q) \in Users
            BY <1>2, <2>1, BusyTypes DEF OwnInv
        <2> QED BY <1>2, <2>1, <2>2 DEF OwnInv, CallsOwn, User, Token
    <1>3. User(p)' = u /\ Token(p)' = t
        BY DEF Read, User, Token, OwnInv, TypeOK
    <1>4. pc'[p] # "query" => seen'[p] \subseteq issued'[u]
        BY DEF Read, Goto, OwnInv, TypeOK, OwnTokensOnly, Cached, CacheKey
    <1>5. CallsOwn'
        BY <1>2, <1>3, <1>4 DEF CallsOwn
    <1> QED BY <1>1, <1>5

\* No step gives a user a token that was generated for another.
LEMMA OwnStep == OwnInv /\ [Next]_vars => OwnInv'
    <1> SUFFICES ASSUME OwnInv, [Next]_vars PROVE OwnInv'
        OBVIOUS
    <1>0. TypeOK /\ TypeOK'
        BY TypeStep DEF OwnInv
    <1> USE DEF history
    <1>1. ASSUME NEW p \in Procs, NEW u \in Users, NEW t \in Tokens, Add(p, u, t)
          PROVE  OwnInv'
        <2>1. \A v \in Users : issued'[v] = IF v = u THEN issued[v] \cup {t} ELSE issued[v]
            BY <1>0, <1>1 DEF Add, TypeOK
        <2>2. OwnTokensOnly' /\ CallsOwn'
            BY <1>0, <1>1, <2>1, OwnRead DEF Add
        <2>3. TouchesOwn'
            BY <1>0, <1>1, <2>1 DEF Add, OwnInv, TouchesOwn, TypeOK
        <2>4. HistoryOwn'
            BY <1>1, <2>1 DEF Add, OwnInv, HistoryOwn
        <2>5. IdsUnique'
            BY <1>1, <2>1 DEF Add, OwnInv, IdsUnique
        <2> QED BY <1>0, <2>2, <2>3, <2>4, <2>5 DEF OwnInv
    <1>2. ASSUME NEW p \in Procs, NEW u \in Users, NEW t \in Tokens,
                 Remove(p, u, t) \/ Check(p, u, t) \/ Touch(p, u, t)
          PROVE  OwnInv'
        <2>1. issued' = issued /\ t \in issued[u] /\ added' = added
            BY <1>2 DEF Remove, Check, Touch, Known, OwnInv, TouchesOwn
        <2>2. PICK op : Read(p, [op |-> op, user |-> u, token |-> t])
            BY <1>2 DEF Remove, Check, Touch
        <2>3. OwnTokensOnly' /\ CallsOwn'
            BY <1>0, <2>1, <2>2, OwnRead
        <2>4. TouchesOwn'
            BY <1>2, <2>1 DEF Remove, Check, Touch, OwnInv, TouchesOwn
        <2>5. HistoryOwn'
            BY <1>0, <1>2, <2>1 DEF Remove, Check, Touch, OwnInv, HistoryOwn, TypeOK
        <2>6. IdsUnique'
            BY <2>1 DEF OwnInv, IdsUnique
        <2> QED BY <1>0, <2>3, <2>4, <2>5, <2>6 DEF OwnInv
    <1>3. ASSUME NEW u \in Users, NEW t \in Tokens, UsePAT(u, t) PROVE OwnInv'
        <2>1. TouchesOwn'
            BY <1>3 DEF UsePAT, OwnInv, OwnTokensOnly, TouchesOwn
        <2> QED BY <1>0, <1>3, <2>1
                DEF UsePAT, OwnInv, OwnTokensOnly, CallsOwn, HistoryOwn, IdsUnique,
                    Row, Cached, Token, User
    <1>4. ASSUME NEW p \in Procs, Query(p) PROVE OwnInv'
        <2>1. User(p) \in Users
            BY <1>0, <1>4, BusyTypes DEF Query
        <2>2. CallsOwn'
            BY <1>0, <1>4, <2>1
            DEF Query, Goto, OwnInv, OwnTokensOnly, CallsOwn, Token, User, TypeOK
        <2> QED BY <1>0, <1>4, <2>2
                DEF Query, OwnInv, OwnTokensOnly, TouchesOwn, HistoryOwn, IdsUnique,
                    Row, Cached
    <1>5. ASSUME NEW p \in Procs, Fill(p) PROVE OwnInv'
        <2>1. User(p) \in Users
            BY <1>0, <1>5, BusyTypes DEF Fill
        <2>2. CallsOwn'
            BY <1>0, <1>5 DEF Fill, Goto, OwnInv, CallsOwn, Token, User, TypeOK
        <2>3. OwnTokensOnly'
            BY <1>0, <1>5, <2>1
            DEF Fill, Put, CacheKey, OwnInv, CallsOwn, OwnTokensOnly, Row, Cached
        <2> QED BY <1>0, <1>5, <2>2, <2>3
                DEF Fill, OwnInv, TouchesOwn, HistoryOwn, IdsUnique
    <1>6. ASSUME NEW p \in Procs, Answer(p) \/ DriverFails(p) PROVE OwnInv'
        <2>1. CallsOwn'
            BY <1>0, <1>6
            DEF Answer, DriverFails, Return, Goto, OwnInv, CallsOwn, Token, User, TypeOK
        <2> QED BY <1>0, <1>6, <2>1
                DEF Answer, DriverFails, Return, OwnInv, OwnTokensOnly, TouchesOwn,
                    HistoryOwn, IdsUnique, Row, Cached
    <1>7. ASSUME NEW p \in Procs, Upsert(p) PROVE OwnInv'
        <2>1. User(p) \in Users /\ seen[p] \subseteq issued[User(p)]
            BY <1>0, <1>7, BusyTypes DEF Upsert, OwnInv, CallsOwn
        <2>2. CallsOwn'
            BY <1>0, <1>7 DEF Upsert, Goto, OwnInv, CallsOwn, Token, User, TypeOK
        <2>3. OwnTokensOnly'
            BY <1>7, <2>1 DEF Upsert, Put, OwnInv, OwnTokensOnly, Row, Cached
        <2> QED BY <1>0, <1>7, <2>2, <2>3
                DEF Upsert, OwnInv, TouchesOwn, HistoryOwn, IdsUnique
    <1>a. ASSUME NEW p \in Procs, Append(p) PROVE OwnInv'
        <2>1. /\ User(p) \in Users /\ Token(p) \in issued[User(p)]
              /\ seen[p] \subseteq issued[User(p)]
            BY <1>0, <1>a, BusyTypes DEF Append, OwnInv, CallsOwn
        <2>2. CallsOwn'
            <3> SUFFICES ASSUME NEW q \in Procs, pc'[q] # "idle"
                         PROVE  /\ Token(q)' \in issued[User(q)']
                                /\ pc'[q] # "query" => seen'[q] \subseteq issued[User(q)']
                BY <1>a DEF Append, CallsOwn
            <3>1. /\ User(q)' = User(q) /\ Token(q)' = Token(q) /\ pc[q] # "idle"
                  /\ q # p => pc'[q] = pc[q]
                BY <1>0, <1>a DEF Append, Goto, TypeOK, User, Token
            <3>2. Token(q) \in issued[User(q)]
                BY <3>1 DEF OwnInv, CallsOwn
            <3>3. ASSUME pc'[q] # "query" PROVE seen'[q] \subseteq issued[User(q)]
                <4>1. CASE q = p
                    BY <1>0, <1>a, <2>1, <4>1, AppendEffect
                <4>2. CASE q # p
                    <5>1. seen[q] \subseteq issued[User(q)]
                        BY <3>1, <3>3, <4>2 DEF OwnInv, CallsOwn
                    <5>2. \/ seen'[q] = seen[q]
                          \/ /\ User(q) = User(p)
                             /\ seen'[q] \subseteq seen[q] \cup {Token(p)}
                        BY <1>0, <1>a, <4>2, AppendEffect
                    <5> QED BY <2>1, <5>1, <5>2
                <4> QED BY <4>1, <4>2
            <3> QED BY <3>1, <3>2, <3>3
        <2>3. OwnTokensOnly'
            <3>1. CASE cache' = cache
                BY <1>a, <3>1 DEF Append, OwnInv, OwnTokensOnly, Row, Cached
            <3>2. CASE cache' # cache
                <4>1. PICK l \in SUBSET (cache[User(p)] \cup {Token(p)}) :
                        User(p) \in DOMAIN cache /\ cache' = Put(cache, User(p), l)
                    BY <1>0, <1>a, <3>2, AppendEffect
                <4>2. l \subseteq issued[User(p)]
                    BY <2>1, <4>1 DEF OwnInv, OwnTokensOnly, Cached
                <4> QED BY <1>a, <4>1, <4>2
                        DEF Append, Put, OwnInv, OwnTokensOnly, Row, Cached
            <3> QED BY <3>1, <3>2
        <2> QED BY <1>0, <1>a, <2>2, <2>3
                DEF Append, OwnInv, TouchesOwn, HistoryOwn, IdsUnique
    <1>b. ASSUME NEW p \in Procs, Edit(p) PROVE OwnInv'
        <2>1. Edited(Op(p), Token(p), seen[p]) \subseteq seen[p]
            BY <1>b DEF Edit, Edited
        <2>2. CallsOwn'
            BY <1>0, <1>b, <2>1 DEF Edit, Goto, OwnInv, CallsOwn, Token, User, TypeOK
        <2> QED BY <1>0, <1>b, <2>2
                DEF Edit, OwnInv, OwnTokensOnly, TouchesOwn, HistoryOwn, IdsUnique, Row, Cached
    <1>8. ASSUME NEW p \in Procs, Publish(p) PROVE OwnInv'
        <2>1. User(p) \in Users
            BY <1>0, <1>8, BusyTypes DEF Publish
        <2>2. CallsOwn'
            BY <1>0, <1>8 DEF Publish, Return, Goto, OwnInv, CallsOwn, Token, User, TypeOK
        <2>3. OwnTokensOnly'
            BY <1>0, <1>8, <2>1
            DEF Publish, Return, Put, CacheKey, OwnInv, CallsOwn, OwnTokensOnly, Row, Cached
        <2>4. HistoryOwn'
            BY <1>0, <1>8, <2>1 DEF Publish, OwnInv, CallsOwn, HistoryOwn, TypeOK
        <2> QED BY <1>0, <1>8, <2>2, <2>3, <2>4
                DEF Publish, OwnInv, TouchesOwn, IdsUnique
    <1>9. ASSUME NEW u \in Users, Expire(u) PROVE OwnInv'
        <2>1. OwnTokensOnly'
            BY <1>9 DEF Expire, Drop, Restrict, OwnInv, OwnTokensOnly, Row, Cached
        <2> QED BY <1>0, <1>9, <2>1
                DEF Expire, OwnInv, CallsOwn, TouchesOwn, HistoryOwn, IdsUnique, Token, User
    <1>10. CASE Restart
        <2>1. OwnTokensOnly'
            BY <1>10 DEF Restart, NoLists, OwnInv, OwnTokensOnly, Row, Cached
        <2> QED BY <1>0, <1>10, <2>1
                DEF Restart, OwnInv, CallsOwn, TouchesOwn, HistoryOwn, IdsUnique
    <1>11. CASE UNCHANGED vars
        BY <1>0, <1>11
        DEF vars, state, OwnInv, OwnTokensOnly, CallsOwn, TouchesOwn, HistoryOwn,
            IdsUnique, Row, Cached, Token, User
    <1> QED BY <1>1, <1>2, <1>3, <1>4, <1>5, <1>6, <1>7, <1>8, <1>9, <1>10, <1>11,
            <1>a, <1>b DEF Next, Call, Continue

\* The initial state: nothing is issued and nothing is stored.
LEMMA OwnInit == Init => OwnInv
    BY TypeInit
    DEF Init, NoLists, OwnInv, OwnTokensOnly, CallsOwn, TouchesOwn, HistoryOwn,
        IdsUnique, Row, Cached

\* Whatever the interleaving, and across restarts, a user's lists, stored and
\* cached, hold only tokens generated for that user.
THEOREM ListsStayApart == Spec => []OwnTokensOnly
    <1>1. OwnInv => OwnTokensOnly
        BY DEF OwnInv
    <1> QED BY <1>1, OwnInit, OwnStep, PTL DEF Spec

-----------------------------------------------------------------------------
\* Another call's view stays right when the step leaves its user's row alone.
LEMMA StaysOnCourse ==
    ASSUME NEW q \in Procs, OnCourse(q), NEW u, u = User(q),
           pc'[q] = pc[q], req'[q] = req[q], seen'[q] = seen[q],
           Row(u)' = Row(u), u \in DOMAIN db => u \in DOMAIN db',
           doomed'[u] = doomed[u]
    PROVE  OnCourse(q)'
    <1>1. User(q)' = u /\ Op(q)' = Op(q) /\ Token(q)' = Token(q)
        BY DEF User, Op, Token
    <1>2. Row(User(q))' = Row(User(q))
        BY <1>1 DEF Row
    <1> QED BY <1>1, <1>2 DEF OnCourse

\* The part of SerialInv that relates the calls to the history.
LEMMA SerialRead ==
    ASSUME SerialInv, TypeOK, OneAtATime', NEW p \in Procs, NEW u \in Users,
           NEW t \in Tokens, NEW op \in {"add", "remove", "touch", "check"},
           Read(p, [op |-> op, user |-> u, token |-> t]),
           \A v \in Users : doomed'[v] = doomed[v]
                             \/ (v = u /\ doomed'[v] = doomed[v] \cup {t}),
           op = "add" => t \notin doomed'[u] /\ t \notin Row(u),
           op = "remove" => t \in doomed'[u],
           added' = added, revoked' = revoked
    PROVE  /\ CallsOnCourse' /\ CacheBehind' /\ RevokedPATsAreRefused' /\ AddedIsKept'
           /\ \A v \in Users : revoked'[v] \subseteq doomed'[v]
    <1>1. pc'[p] \in {"act", "query"} /\ User(p)' = u /\ Token(p)' = t /\ Op(p)' = op
        BY DEF Read, Goto, TypeOK, User, Token, Op
    <1>2. Busy(p, u)'
        BY <1>1 DEF Busy
    <1>3. ASSUME NEW q \in Procs, q # p
          PROVE  /\ pc'[q] = pc[q] /\ req'[q] = req[q] /\ seen'[q] = seen[q]
                 /\ ~Busy(q, u)
        <2>1. pc'[q] = pc[q] /\ req'[q] = req[q] /\ seen'[q] = seen[q]
            BY <1>3 DEF Read, Goto, TypeOK
        <2>2. Busy(q, u)' <=> Busy(q, u)
            BY <2>1 DEF Busy, User
        <2> QED BY <1>2, <1>3, <2>1, <2>2 DEF OneAtATime
    <1>4. Agrees(u)
        BY <1>3 DEF SerialInv, CacheBehind, Busy, Read
    <1>5. pc'[p] = "act" => seen'[p] = Row(u)
        BY <1>4 DEF Read, Goto, CacheKey, Agrees, Row, TypeOK
    <1>6. db' = db /\ cache' = cache /\ \A v : Row(v)' = Row(v)
        BY DEF Read, Row
    <1>7. CallsOnCourse'
        <2>1. OnCourse(p)'
            BY <1>1, <1>5, <1>6 DEF OnCourse
        <2>2. ASSUME NEW q \in Procs, q # p, pc'[q] # "idle" PROVE OnCourse(q)'
            <3>1. PICK v \in Users : v = User(q) /\ v # u /\ OnCourse(q)
                BY <1>3, <2>2, BusyTypes DEF Busy, SerialInv, CallsOnCourse
            <3> QED BY <1>3, <1>6, <2>2, <3>1, StaysOnCourse
        <2> QED BY <2>1, <2>2 DEF CallsOnCourse
    <1>8. CacheBehind'
        <2> SUFFICES ASSUME NEW v \in Users, ~Agrees(v)'
                     PROVE  \E q \in Procs : Busy(q, v)' /\ pc'[q] = "publish"
            BY DEF CacheBehind
        <2>1. ~Agrees(v)
            BY <1>6 DEF Agrees
        <2>2. PICK q \in Procs : Busy(q, v) /\ pc[q] = "publish"
            BY <2>1 DEF SerialInv, CacheBehind
        <2>3. q # p
            BY <2>2 DEF Read
        <2> QED BY <1>3, <2>2, <2>3 DEF Busy, User
    <1>9. RevokedPATsAreRefused' /\ AddedIsKept'
        BY <1>6 DEF SerialInv, RevokedPATsAreRefused, AddedIsKept
    <1> QED BY <1>7, <1>8, <1>9 DEF SerialInv

\* A step of a call under way: what the other calls know stays true.
LEMMA SerialOthers ==
    ASSUME SerialInv, TypeOK, NEW p \in Procs, pc[p] # "idle",
           \A q \in Procs : q # p => pc'[q] = pc[q] /\ req'[q] = req[q] /\ seen'[q] = seen[q],
           \A v \in Users : v # User(p) =>
               Row(v)' = Row(v) /\ (v \in DOMAIN db => v \in DOMAIN db'),
           doomed' = doomed
    PROVE  \A q \in Procs : q # p /\ pc'[q] # "idle" => OnCourse(q)'
    <1> SUFFICES ASSUME NEW q \in Procs, q # p, pc'[q] # "idle" PROVE OnCourse(q)'
        OBVIOUS
    <1>1. PICK v \in Users : v = User(q)
        BY BusyTypes
    <1>2. v # User(p) /\ User(p) \in Users
        BY <1>1, BusyTypes DEF SerialInv, OneAtATime, Busy
    <1>3. OnCourse(q)
        BY DEF SerialInv, CallsOnCourse
    <1> QED BY <1>1, <1>2, <1>3, StaysOnCourse

\* The cached lists of the users p is not busy with.
LEMMA SerialCaches ==
    ASSUME SerialInv, TypeOK, NEW p \in Procs,
           \A q \in Procs : q # p => pc'[q] = pc[q] /\ req'[q] = req[q],
           \A v \in Users : Busy(p, v) \/ (Agrees(v) => Agrees(v)'),
           \A v \in Users : Busy(p, v) => Agrees(v)' \/ (Busy(p, v)' /\ pc'[p] = "publish")
    PROVE  CacheBehind'
    <1> SUFFICES ASSUME NEW v \in Users, ~Agrees(v)'
                 PROVE  \E q \in Procs : Busy(q, v)' /\ pc'[q] = "publish"
        BY DEF CacheBehind
    <1>1. CASE Busy(p, v)
        BY <1>1
    <1>2. CASE ~Busy(p, v)
        <2>1. PICK q \in Procs : Busy(q, v) /\ pc[q] = "publish"
            BY <1>2 DEF SerialInv, CacheBehind
        <2>2. q # p
            BY <1>2, <2>1
        <2> QED BY <2>1, <2>2 DEF Busy, User
    <1> QED BY <1>1, <1>2

\* Every step of a serial behaviour keeps SerialInv.
LEMMA SerialStep == SerialInv /\ [Next /\ OneAtATime']_vars => SerialInv'
    <1> SUFFICES ASSUME SerialInv, [Next /\ OneAtATime']_vars PROVE SerialInv'
        OBVIOUS
    <1> USE DEF history
    <1>0. OwnInv /\ OwnInv' /\ TypeOK /\ TypeOK'
        BY OwnStep DEF SerialInv, OwnInv
    <1>a. CASE UNCHANGED vars
        <2>1. /\ \A q \in Procs : OnCourse(q)' <=> OnCourse(q)
              /\ \A u : Agrees(u)' <=> Agrees(u)
              /\ \A q \in Procs, u \in Users : Busy(q, u)' <=> Busy(q, u)
            BY <1>a DEF vars, state, OnCourse, Agrees, Busy, Row, User, Token, Op
        <2> QED BY <1>0, <1>a, <2>1
                DEF vars, state, SerialInv, OneAtATime, CallsOnCourse, CacheBehind,
                    RevokedPATsAreRefused, AddedIsKept, Row
    <1>b. ASSUME Next, OneAtATime' PROVE SerialInv'
        <2>1. ASSUME NEW p \in Procs, NEW u \in Users, NEW t \in Tokens, Add(p, u, t)
              PROVE  SerialInv'
            <3>1. t \notin doomed[u] /\ t \notin Row(u)
                BY <1>0, <2>1 DEF Add, OwnInv, HistoryOwn, OwnTokensOnly
            <3> QED BY <1>0, <1>b, <2>1, <3>1, SerialRead DEF Add, SerialInv
        <2>2. ASSUME NEW p \in Procs, NEW u \in Users, NEW t \in Tokens, Remove(p, u, t)
              PROVE  SerialInv'
            <3>1. /\ t \in doomed'[u]
                  /\ \A v \in Users : doomed'[v] = doomed[v]
                        \/ (v = u /\ doomed'[v] = doomed[v] \cup {t})
                BY <1>0, <2>2 DEF Remove, TypeOK
            <3> QED BY <1>0, <1>b, <2>2, <3>1, SerialRead DEF Remove, SerialInv
        <2>3. ASSUME NEW p \in Procs, NEW u \in Users, NEW t \in Tokens,
                     Check(p, u, t) \/ Touch(p, u, t)
              PROVE  SerialInv'
            <3>1. PICK op \in {"check", "touch"} :
                    Read(p, [op |-> op, user |-> u, token |-> t])
                BY <2>3 DEF Check, Touch
            <3>2. doomed' = doomed /\ added' = added /\ revoked' = revoked
                BY <2>3 DEF Check, Touch
            <3> QED BY <1>0, <1>b, <3>1, <3>2, SerialRead DEF SerialInv
        <2>4. ASSUME NEW u \in Users, NEW t \in Tokens, UsePAT(u, t) PROVE SerialInv'
            <3>1. /\ \A q \in Procs : OnCourse(q)' <=> OnCourse(q)
                  /\ \A v : Agrees(v)' <=> Agrees(v)
                  /\ \A q \in Procs, v \in Users : Busy(q, v)' <=> Busy(q, v)
                BY <2>4 DEF UsePAT, OnCourse, Agrees, Busy, Row, User, Token, Op
            <3> QED BY <1>0, <1>b, <2>4, <3>1
                    DEF UsePAT, SerialInv, CallsOnCourse, CacheBehind,
                        RevokedPATsAreRefused, AddedIsKept, Row
        <2>5. ASSUME NEW p \in Procs, Query(p) PROVE SerialInv'
            <3>1. /\ \A q \in Procs : q # p => /\ pc'[q] = pc[q] /\ req'[q] = req[q]
                                               /\ seen'[q] = seen[q]
                  /\ db' = db /\ cache' = cache /\ \A v : Row(v)' = Row(v)
                BY <1>0, <2>5 DEF Query, Goto, TypeOK, Row
            <3>2. OnCourse(p)'
                <4>1. OnCourse(p) /\ pc[p] = "query" /\ doomed' = doomed
                    BY <2>5 DEF Query, SerialInv, CallsOnCourse
                <4>2. /\ User(p)' = User(p) /\ Token(p)' = Token(p) /\ Op(p)' = Op(p)
                      /\ seen'[p] = Row(User(p))
                      /\ pc'[p] = IF User(p) \in DOMAIN db THEN "fill" ELSE "act"
                    BY <1>0, <2>5 DEF Query, Goto, User, Token, Op, TypeOK
                <4> QED BY <3>1, <4>1, <4>2 DEF OnCourse
            <3>3. CallsOnCourse'
                BY <1>0, <2>5, <3>1, <3>2, SerialOthers DEF CallsOnCourse, Query
            <3>4. CacheBehind'
                <4>1. \A v : Agrees(v)' <=> Agrees(v)
                    BY <3>1 DEF Agrees
                <4>2. \A v \in Users : Busy(p, v) => Agrees(v)
                    BY <2>5 DEF Query, Busy, SerialInv, CacheBehind, OneAtATime
                <4> QED BY <1>0, <3>1, <4>1, <4>2, SerialCaches
            <3> QED BY <1>0, <1>b, <2>5, <3>1, <3>3, <3>4
                    DEF Query, SerialInv, RevokedPATsAreRefused, AddedIsKept
        <2>6. ASSUME NEW p \in Procs, Fill(p) PROVE SerialInv'
            <3>u. PICK u : u = User(p)
                OBVIOUS
            <3>0. u \in Users /\ OnCourse(p)
                BY <3>u, <1>0, <2>6, BusyTypes DEF Fill, SerialInv, CallsOnCourse
            <3>1. /\ \A q \in Procs : q # p => /\ pc'[q] = pc[q] /\ req'[q] = req[q]
                                               /\ seen'[q] = seen[q]
                  /\ db' = db /\ \A v : Row(v)' = Row(v)
                BY <3>u, <1>0, <2>6 DEF Fill, Goto, TypeOK, Row
            <3>2. OnCourse(p)'
                <4>1. /\ User(p)' = User(p) /\ Token(p)' = Token(p) /\ Op(p)' = Op(p)
                      /\ seen' = seen /\ pc[p] \in {"fill", "refill"}
                      /\ pc'[p] \in {"refill", "act"} /\ doomed' = doomed
                    BY <3>u, <1>0, <2>6 DEF Fill, Goto, User, Token, Op, TypeOK
                <4> QED BY <3>u, <3>0, <3>1, <4>1 DEF OnCourse
            <3>3. CallsOnCourse'
                BY <3>u, <1>0, <2>6, <3>1, <3>2, SerialOthers DEF CallsOnCourse, Fill
            <3>4. CacheBehind'
                <4>1. Agrees(u)'
                    BY <3>u, <2>6, <3>0 DEF Fill, OnCourse, Agrees, CacheKey, Put, Row
                <4>2. \A v \in Users : v # u => (Agrees(v) => Agrees(v)')
                    BY <3>u, <2>6 DEF Fill, Agrees, CacheKey, Put
                <4>3. \A v \in Users : Busy(p, v) <=> v = u
                    BY <3>u, <2>6 DEF Fill, Busy
                <4> QED BY <3>u, <1>0, <3>1, <4>1, <4>2, <4>3, SerialCaches
            <3> QED BY <3>u, <1>0, <1>b, <2>6, <3>1, <3>3, <3>4
                    DEF Fill, SerialInv, RevokedPATsAreRefused, AddedIsKept
        <2>7. ASSUME NEW p \in Procs, Answer(p) \/ DriverFails(p) PROVE SerialInv'
            <3>1. /\ \A q \in Procs : q # p => /\ pc'[q] = pc[q] /\ req'[q] = req[q]
                                               /\ seen'[q] = seen[q]
                  /\ db' = db /\ cache' = cache /\ \A v : Row(v)' = Row(v)
                  /\ doomed' = doomed /\ pc[p] \in {"act", "query", "write"} /\ pc'[p] = "idle"
                BY <1>0, <2>7 DEF Answer, DriverFails, Return, Goto, TypeOK, Row
            <3>2. CallsOnCourse'
                BY <1>0, <3>1, SerialOthers DEF CallsOnCourse
            <3>3. CacheBehind'
                <4>1. \A v : Agrees(v)' <=> Agrees(v)
                    BY <3>1 DEF Agrees
                <4>2. \A v \in Users : Busy(p, v) => Agrees(v)
                    BY <3>1 DEF Busy, SerialInv, CacheBehind, OneAtATime
                <4> QED BY <1>0, <3>1, <4>1, <4>2, SerialCaches
            <3> QED BY <1>0, <1>b, <2>7, <3>1, <3>2, <3>3
                    DEF Answer, DriverFails, SerialInv, RevokedPATsAreRefused, AddedIsKept
        <2>a. ASSUME NEW p \in Procs, Append(p) \/ Edit(p) PROVE SerialInv'
            <3>u. PICK u, t : u = User(p) /\ t = Token(p)
                OBVIOUS
            <3>0. /\ u \in Users /\ OnCourse(p) /\ seen[p] = Row(u) /\ pc[p] = "act"
                  /\ Op(p) \in {"add", "remove", "touch"}
                BY <3>u, <1>0, <2>a, BusyTypes
                DEF Append, Edit, SerialInv, CallsOnCourse, OnCourse
            <3>1. \A q \in Procs : q # p => pc[q] = "idle" \/ User(q) # u
                BY <3>u, <3>0 DEF SerialInv, OneAtATime, Busy
            <3>2. Agrees(u)
                BY <3>u, <3>0, <3>1 DEF SerialInv, CacheBehind, Busy
            <3>3. /\ seen'[p] = Edited(Op(p), t, seen[p])
                  /\ \A q \in Procs : q # p => seen'[q] = seen[q]
                  /\ cache' = cache
                <4>1. CASE Append(p)
                    <5>1. u \in DOMAIN cache => seen[p] = cache[u]
                        BY <3>0, <3>2 DEF Agrees, Row
                    <5>2. Edited(Op(p), t, seen[p]) = seen[p] \cup {t}
                        BY <4>1 DEF Append, Edited
                    <5> QED BY <3>u, <1>0, <3>1, <4>1, <5>1, <5>2, AppendEffect
                <4>2. CASE Edit(p)
                    BY <3>u, <1>0, <4>2 DEF Edit, TypeOK
                <4> QED BY <2>a, <4>1, <4>2
            <3>4. /\ \A q \in Procs : q # p => /\ pc'[q] = pc[q] /\ req'[q] = req[q]
                                               /\ seen'[q] = seen[q]
                  /\ db' = db /\ \A v : Row(v)' = Row(v)
                  /\ pc'[p] = "write" /\ req' = req /\ UNCHANGED history
                BY <1>0, <2>a, <3>3 DEF Append, Edit, Goto, TypeOK, Row
            <3>5. OnCourse(p)'
                <4>1. User(p)' = u /\ Token(p)' = t /\ Op(p)' = Op(p)
                    BY <3>u, <3>4 DEF User, Token, Op
                <4> QED BY <3>u, <3>0, <3>3, <3>4, <4>1 DEF OnCourse
            <3>6. CallsOnCourse'
                BY <3>u, <1>0, <3>0, <3>4, <3>5, SerialOthers DEF CallsOnCourse
            <3>7. CacheBehind'
                <4>1. \A v : Agrees(v)' <=> Agrees(v)
                    BY <3>3, <3>4 DEF Agrees
                <4>2. \A v \in Users : Busy(p, v) => Agrees(v)
                    BY <3>u, <3>2 DEF Busy
                <4> QED BY <1>0, <3>4, <4>1, <4>2, SerialCaches
            <3> QED BY <1>0, <1>b, <3>4, <3>6, <3>7
                    DEF SerialInv, RevokedPATsAreRefused, AddedIsKept
        <2>8. ASSUME NEW p \in Procs, Upsert(p) PROVE SerialInv'
            <3>u. PICK u, t : u = User(p) /\ t = Token(p)
                OBVIOUS
            <3> DEFINE list == Edited(Op(p), t, Row(u))
            <3>0. /\ u \in Users /\ OnCourse(p) /\ seen[p] = list /\ pc[p] = "write"
                  /\ Op(p) \in {"add", "remove", "touch"}
                BY <3>u, <1>0, <2>8, BusyTypes
                DEF Upsert, SerialInv, CallsOnCourse, OnCourse
            <3>2. db' = Put(db, u, list) /\ seen' = seen
                BY <3>u, <2>8, <3>0 DEF Upsert
            <3>3. /\ \A q \in Procs : q # p => /\ pc'[q] = pc[q] /\ req'[q] = req[q]
                                               /\ seen'[q] = seen[q]
                  /\ Row(u)' = list /\ seen'[p] = list /\ u \in DOMAIN db'
                  /\ \A v \in Users : v # u => /\ Row(v)' = Row(v)
                                               /\ v \in DOMAIN db => v \in DOMAIN db'
                  /\ cache' = cache /\ pc'[p] = "publish" /\ req' = req
                  /\ added' = added /\ doomed' = doomed /\ revoked' = revoked
                BY <3>u, <1>0, <2>8, <3>2 DEF Upsert, Goto, TypeOK, Row, Put
            <3>4. /\ Op(p) = "add" => list = Row(u) \cup {t} /\ t \notin doomed[u]
                  /\ Op(p) = "remove" => list = Row(u) \ {t} /\ t \in doomed[u]
                  /\ Op(p) = "touch" => list = Row(u)
                BY <3>u, <3>0 DEF Edited, OnCourse
            <3>5. OnCourse(p)'
                <4>1. User(p)' = u /\ Token(p)' = t /\ Op(p)' = Op(p)
                    BY <3>u, <3>3 DEF User, Token, Op
                <4> QED BY <3>u, <3>0, <3>3, <3>4, <4>1 DEF OnCourse
            <3>6. CallsOnCourse'
                BY <3>u, <1>0, <3>0, <3>3, <3>5, SerialOthers DEF CallsOnCourse
            <3>7. CacheBehind'
                <4>1. \A v \in Users : v # u => (Agrees(v) => Agrees(v)')
                    BY <3>u, <3>2, <3>3 DEF Agrees, Put
                <4>2. \A v \in Users : Busy(p, v) <=> v = u
                    BY <3>u, <3>0 DEF Busy
                <4>3. Busy(p, u)'
                    BY <3>u, <3>3 DEF Busy, User
                <4> QED BY <3>u, <1>0, <3>3, <4>1, <4>2, <4>3, SerialCaches
            <3>8. \A v \in Users : revoked[v] \cap Row(v)' = {}
                <4>1. \A v \in Users : revoked[v] \cap Row(v) = {} /\ revoked[v] \subseteq doomed[v]
                    BY DEF SerialInv, RevokedPATsAreRefused
                <4> QED BY <3>u, <3>0, <3>3, <3>4, <4>1
            <3>9. \A v \in Users : added[v] \ doomed[v] \subseteq Row(v)'
                <4>1. \A v \in Users : added[v] \ doomed[v] \subseteq Row(v)
                    BY DEF SerialInv, AddedIsKept
                <4> QED BY <3>u, <3>0, <3>3, <3>4, <4>1
            <3> QED BY <3>u, <1>0, <1>b, <3>3, <3>6, <3>7, <3>8, <3>9
                    DEF SerialInv, RevokedPATsAreRefused, AddedIsKept
        <2>9. ASSUME NEW p \in Procs, Publish(p) PROVE SerialInv'
            <3>u. PICK u, t : u = User(p) /\ t = Token(p)
                OBVIOUS
            <3>0. u \in Users /\ OnCourse(p) /\ pc[p] = "publish"
                BY <3>u, <1>0, <2>9, BusyTypes DEF Publish, SerialInv, CallsOnCourse
            <3>1. /\ \A q \in Procs : q # p => /\ pc'[q] = pc[q] /\ req'[q] = req[q]
                                               /\ seen'[q] = seen[q]
                  /\ db' = db /\ \A v : Row(v)' = Row(v)
                  /\ doomed' = doomed /\ pc'[p] = "idle"
                BY <3>u, <1>0, <2>9 DEF Publish, Return, Goto, TypeOK, Row
            <3>2. CallsOnCourse'
                BY <3>u, <1>0, <3>0, <3>1, SerialOthers DEF CallsOnCourse
            <3>3. CacheBehind'
                <4>1. Agrees(u)'
                    BY <3>u, <2>9, <3>0 DEF Publish, OnCourse, Agrees, CacheKey, Put, Row
                <4>2. \A v \in Users : v # u => (Agrees(v) => Agrees(v)')
                    BY <3>u, <2>9 DEF Publish, Agrees, CacheKey, Put
                <4>3. \A v \in Users : Busy(p, v) <=> v = u
                    BY <3>u, <3>0 DEF Busy
                <4> QED BY <3>u, <1>0, <3>1, <4>1, <4>2, <4>3, SerialCaches
            <3>4. /\ \A v \in Users : added'[v] = added[v]
                        \/ (v = u /\ Op(p) = "add" /\ added'[v] = added[v] \cup {t})
                  /\ \A v \in Users : revoked'[v] = revoked[v]
                        \/ (v = u /\ Op(p) = "remove" /\ revoked'[v] = revoked[v] \cup {t})
                BY <3>u, <1>0, <2>9 DEF Publish, TypeOK
            <3>5. \A v \in Users : added'[v] \ doomed[v] \subseteq Row(v)
                BY <3>u, <3>0, <3>4 DEF SerialInv, AddedIsKept, OnCourse
            <3>6. \A v \in Users : /\ revoked'[v] \cap Row(v) = {}
                                   /\ revoked'[v] \subseteq doomed[v]
                BY <3>u, <3>0, <3>4 DEF SerialInv, RevokedPATsAreRefused, OnCourse
            <3> QED BY <3>u, <1>0, <1>b, <3>1, <3>2, <3>3, <3>5, <3>6
                    DEF SerialInv, RevokedPATsAreRefused, AddedIsKept
        <2>10. ASSUME NEW u \in Users, Expire(u) PROVE SerialInv'
            <3>1. /\ \A v : Row(v)' = Row(v)
                  /\ \A q \in Procs : OnCourse(q)' <=> OnCourse(q)
                  /\ \A q \in Procs, v \in Users : Busy(q, v)' <=> Busy(q, v)
                BY <2>10 DEF Expire, OnCourse, Busy, Row, User, Token, Op
            <3>2. \A v : Agrees(v) => Agrees(v)'
                BY <2>10 DEF Expire, Drop, Restrict, Agrees
            <3> QED BY <1>0, <1>b, <2>10, <3>1, <3>2
                    DEF Expire, SerialInv, CallsOnCourse, CacheBehind,
                        RevokedPATsAreRefused, AddedIsKept
        <2>11. CASE Restart
            <3>1. \A v : Row(v)' = Row(v) /\ Agrees(v)'
                BY <2>11 DEF Restart, NoLists, Agrees, Row
            <3> QED BY <1>0, <1>b, <2>11, <3>1
                    DEF Restart, SerialInv, CallsOnCourse, CacheBehind,
                        RevokedPATsAreRefused, AddedIsKept
        <2> QED BY <1>b, <2>1, <2>2, <2>3, <2>4, <2>5, <2>6, <2>7, <2>8, <2>9, <2>10, <2>11,
                <2>a DEF Next, Call, Continue
    <1> QED BY <1>a, <1>b

\* The initial state satisfies SerialInv.
LEMMA SerialInit == Init => SerialInv
    BY OwnInit
    DEF Init, NoLists, SerialInv, OneAtATime, Busy, CallsOnCourse, CacheBehind, Agrees,
        RevokedPATsAreRefused, AddedIsKept

\* As long as the calls on one user's list do not overlap, no call loses what
\* another did: SerialInv holds, restarts and failed upserts included.
THEOREM SerialCallsStayOnCourse == SerialSpec => []SerialInv
    BY SerialInit, SerialStep, PTL DEF SerialSpec

\* So a removed PAT is out of the row that authenticates it, and an added token
\* is in the row until its removal is requested.
THEOREM RemovedStaysRemoved == SerialSpec => [](RevokedPATsAreRefused /\ AddedIsKept)
    <1>1. SerialInv => RevokedPATsAreRefused /\ AddedIsKept
        BY DEF SerialInv
    <1> QED BY <1>1, SerialCallsStayOnCourse, PTL

\* And outside the calls on a user's list the cache holds the stored list.
THEOREM CacheIsCoherent == SerialSpec => []Coherent
    <1>1. SerialInv => Coherent
        BY DEF SerialInv, CacheBehind, Coherent
    <1> QED BY <1>1, SerialCallsStayOnCourse, PTL

\* The list a check will look in, before and after a step.
LEMMA SessionsStep ==
    SerialInv /\ SerialInv' /\ RevokedSessionsAreRefused /\ [Next]_vars
        => RevokedSessionsAreRefused'
    <1> SUFFICES ASSUME SerialInv, SerialInv', RevokedSessionsAreRefused, [Next]_vars,
                        NEW u \in Users, NEW t \in revoked'[u], u \in DOMAIN cache'
                 PROVE  t \notin cache'[u]
        BY DEF RevokedSessionsAreRefused, Consulted, CacheKey, SerialInv,
               RevokedPATsAreRefused
    <1> USE DEF history
    <1>0. TypeOK /\ t \notin Row(u)'
        BY DEF SerialInv, OwnInv, RevokedPATsAreRefused
    <1>1. CASE u \in DOMAIN cache /\ cache'[u] = cache[u] /\ t \in revoked[u]
        BY <1>1 DEF RevokedSessionsAreRefused, Consulted, CacheKey
    <1>2. ASSUME NEW p \in Procs, Fill(p) \/ Publish(p) PROVE t \notin cache'[u]
        <2>1. OnCourse(p) /\ pc[p] \in {"fill", "refill", "publish"} /\ User(p) \in Users
            BY <1>0, <1>2, BusyTypes DEF Fill, Publish, SerialInv, CallsOnCourse
        <2>2. db' = db /\ seen[p] = Row(User(p)) /\ cache' = Put(cache, User(p), seen[p])
            BY <1>2, <2>1 DEF Fill, Publish, OnCourse, CacheKey
        <2>3. CASE u = User(p)
            BY <1>0, <2>2, <2>3 DEF Put, Row
        <2>4. CASE u # User(p)
            <3>1. u \in DOMAIN cache /\ cache'[u] = cache[u]
                BY <2>2, <2>4 DEF Put
            <3>2. revoked'[u] = revoked[u]
                BY <1>0, <1>2, <2>1, <2>4 DEF Fill, Publish, TypeOK
            <3> QED BY <1>1, <3>1, <3>2
        <2> QED BY <2>3, <2>4
    <1>3. CASE cache' = cache /\ revoked' = revoked
        BY <1>1, <1>3
    <1>4. ASSUME NEW v \in Users, Expire(v) PROVE t \notin cache'[u]
        BY <1>1, <1>4 DEF Expire, Drop, Restrict
    <1>5. CASE Restart
        BY <1>5 DEF Restart, NoLists
    <1>6. ASSUME NEW p \in Procs, Call(p) PROVE cache' = cache /\ revoked' = revoked
        BY <1>6 DEF Call, Add, Remove, Check, Touch, Read
    <1>7. ASSUME NEW p \in Procs,
                 Query(p) \/ Answer(p) \/ Edit(p) \/ Upsert(p) \/ DriverFails(p)
          PROVE  cache' = cache /\ revoked' = revoked
        BY <1>7 DEF Query, Answer, Edit, Upsert, DriverFails
    <1>a. ASSUME NEW p \in Procs, Append(p) PROVE cache' = cache /\ revoked' = revoked
        <2>1. OnCourse(p) /\ pc[p] = "act" /\ User(p) \in Users
            BY <1>0, <1>a, BusyTypes DEF Append, SerialInv, CallsOnCourse
        <2>2. \A q \in Procs : Busy(q, User(p)) => pc[q] # "publish"
            BY <2>1 DEF SerialInv, OneAtATime, Busy
        <2>3. User(p) \in DOMAIN cache => seen[p] = cache[User(p)]
            BY <2>1, <2>2 DEF SerialInv, CacheBehind, Agrees, OnCourse, Row
        <2> QED BY <1>0, <1>a, <2>3, AppendEffect DEF Append
    <1>8. ASSUME NEW v \in Users, NEW tk \in Tokens, UsePAT(v, tk)
          PROVE  cache' = cache /\ revoked' = revoked
        BY <1>8 DEF UsePAT
    <1>9. CASE UNCHANGED vars
        BY <1>3, <1>9 DEF vars, state
    <1> QED BY <1>2, <1>3, <1>4, <1>5, <1>6, <1>7, <1>8, <1>9, <1>a DEF Next, Continue

\* A check that starts after SignOut returned does not find the session.
THEOREM RevokedSessionsStayOut == SerialSpec => []RevokedSessionsAreRefused
    <1>1. Init => RevokedSessionsAreRefused
        BY DEF Init, NoLists, RevokedSessionsAreRefused
    <1>2. [Next /\ OneAtATime']_vars => [Next]_vars
        OBVIOUS
    <1> QED BY <1>1, <1>2, SessionsStep, SerialCallsStayOnCourse, PTL DEF SerialSpec

-----------------------------------------------------------------------------
\* A step of a serial behaviour is a step TokenSet allows, or none of its own.
LEMMA TokenSetStep ==
    ASSUME SerialInv, [Next /\ OneAtATime']_vars
    PROVE  [TokenSets!Next]_(TokenSets!vars)
    <1> DEFINE live == [u \in Users |-> Row(u)]
    <1> SUFFICES TokenSets!Next \/ (live' = live /\ history' = history)
        BY DEF TokenSets!vars, history
    <1> USE DEF history
    <1>0. TypeOK /\ OwnInv
        BY DEF SerialInv, OwnInv
    <1>1. ASSUME db' = db PROVE live' = live
        BY <1>1 DEF Row
    <1>2. ASSUME NEW p \in Procs, Upsert(p)
          PROVE  TokenSets!Next \/ (live' = live /\ history' = history)
        <2>0. PICK u, t : u = User(p) /\ t = Token(p)
            OBVIOUS
        <2>1. /\ u \in Users /\ t \in Tokens /\ OnCourse(p) /\ pc[p] = "write"
              /\ seen[p] = Edited(Op(p), t, Row(u)) /\ Op(p) \in {"add", "remove", "touch"}
            BY <1>0, <1>2, <2>0, BusyTypes
            DEF Upsert, SerialInv, CallsOnCourse, OnCourse
        <2>2. db' = Put(db, u, Edited(Op(p), t, Row(u))) /\ history' = history
            BY <1>2, <2>0, <2>1 DEF Upsert
        <2>3. \A v \in Users : Row(v)' = IF v = u THEN Edited(Op(p), t, Row(u)) ELSE Row(v)
            BY <2>2 DEF Row, Put
        <2>4. live' = [live EXCEPT ![u] = Edited(Op(p), t, Row(u))]
            BY <2>1, <2>3
        <2>5. CASE Op(p) = "add"
            <3>1. t \in issued[u] /\ t \notin doomed[u] /\ t \notin live[u]
                BY <1>0, <2>0, <2>1, <2>5 DEF OnCourse, OwnInv, CallsOwn
            <3>2. Edited(Op(p), t, Row(u)) = live[u] \cup {t}
                BY <2>1, <2>5 DEF Edited
            <3>3. TokenSets!Issue(u, t)
                BY <2>1, <2>2, <2>4, <3>1, <3>2 DEF TokenSets!Issue, TokenSets!With
            <3> QED BY <2>1, <3>3 DEF TokenSets!Next
        <2>6. CASE Op(p) = "remove"
            <3>1. t \in doomed[u]
                BY <2>0, <2>1, <2>6 DEF OnCourse
            <3>2. Edited(Op(p), t, Row(u)) = live[u] \ {t}
                BY <2>1, <2>6 DEF Edited
            <3>3. TokenSets!Revoke(u, t)
                BY <2>1, <2>2, <2>4, <3>1, <3>2 DEF TokenSets!Revoke
            <3> QED BY <2>1, <3>3 DEF TokenSets!Next
        <2>7. CASE Op(p) = "touch"
            <3>1. Edited(Op(p), t, Row(u)) = live[u]
                BY <2>1, <2>7 DEF Edited
            <3> QED BY <2>1, <2>2, <2>4, <3>1
        <2> QED BY <2>1, <2>5, <2>6, <2>7
    <1>3. ASSUME NEW p \in Procs, Publish(p)
          PROVE  TokenSets!Next \/ (live' = live /\ history' = history)
        <2>0. PICK u, t : u = User(p) /\ t = Token(p)
            OBVIOUS
        <2>1. /\ u \in Users /\ t \in Tokens /\ OnCourse(p) /\ pc[p] = "publish"
              /\ live' = live /\ issued' = issued /\ doomed' = doomed
            BY <1>0, <1>1, <1>3, <2>0, BusyTypes DEF Publish, SerialInv, CallsOnCourse
        <2>2. CASE Op(p) = "add"
            <3>1. t \in live[u]
                BY <2>0, <2>1, <2>2 DEF OnCourse
            <3>2. added' = [added EXCEPT ![u] = @ \cup {t}] /\ revoked' = revoked
                BY <1>3, <2>0, <2>2 DEF Publish
            <3>3. TokenSets!Issued(u, t)
                BY <2>1, <3>1, <3>2 DEF TokenSets!Issued, TokenSets!With
            <3> QED BY <2>1, <3>3 DEF TokenSets!Next
        <2>3. CASE Op(p) = "remove"
            <3>1. t \in doomed[u] \ live[u]
                BY <2>0, <2>1, <2>3 DEF OnCourse
            <3>2. revoked' = [revoked EXCEPT ![u] = @ \cup {t}] /\ added' = added
                BY <1>3, <2>0, <2>3 DEF Publish
            <3>3. TokenSets!Revoked(u, t)
                BY <2>1, <3>1, <3>2 DEF TokenSets!Revoked, TokenSets!With
            <3> QED BY <2>1, <3>3 DEF TokenSets!Next
        <2>4. CASE Op(p) # "add" /\ Op(p) # "remove"
            BY <1>3, <2>1, <2>4 DEF Publish
        <2> QED BY <2>2, <2>3, <2>4
    <1>4. ASSUME NEW p \in Procs, NEW u \in Users, NEW t \in Tokens, Add(p, u, t)
          PROVE  TokenSets!Next
        <2>1. live' = live
            BY <1>1, <1>4 DEF Add, Read
        <2>2. TokenSets!Generate(u, t)
            BY <1>4, <2>1 DEF Add, TokenSets!Generate, TokenSets!With
        <2> QED BY <2>2 DEF TokenSets!Next
    <1>5. ASSUME NEW p \in Procs, NEW u \in Users, NEW t \in Tokens, Remove(p, u, t)
          PROVE  TokenSets!Next
        <2>1. live' = live
            BY <1>1, <1>5 DEF Remove, Read
        <2>2. TokenSets!Doom(u, t)
            BY <1>5, <2>1 DEF Remove, Known, TokenSets!Doom, TokenSets!With
        <2> QED BY <2>2 DEF TokenSets!Next
    <1>6. ASSUME NEW p \in Procs, NEW u \in Users, NEW t \in Tokens,
                 Check(p, u, t) \/ Touch(p, u, t)
          PROVE  db' = db /\ history' = history
        BY <1>6 DEF Check, Touch, Read
    <1>7. ASSUME NEW p \in Procs,
                 Query(p) \/ Fill(p) \/ Answer(p) \/ DriverFails(p) \/ Append(p) \/ Edit(p)
          PROVE  db' = db /\ history' = history
        BY <1>7 DEF Query, Fill, Answer, DriverFails, Append, Edit
    <1>8. ASSUME NEW v \in Users, NEW tk \in Tokens, UsePAT(v, tk) \/ Expire(v)
          PROVE  db' = db /\ history' = history
        BY <1>8 DEF UsePAT, Expire
    <1>9. ASSUME NEW v \in Users, Expire(v) PROVE db' = db /\ history' = history
        BY <1>9 DEF Expire
    <1>10. CASE Restart \/ UNCHANGED vars
        BY <1>1, <1>10 DEF Restart, vars, state
    <1> QED BY <1>1, <1>2, <1>3, <1>4, <1>5, <1>6, <1>7, <1>8, <1>9, <1>10
            DEF Next, Call, Continue

\* The read-modify-write of whole lists implements a set of tokens per user that
\* only a request changes: what it adds is kept until a request names it, and
\* what a request removed never returns.
THEOREM ListsImplementSets == SerialSpec => ImplementsTokenSet
    <1>1. Init => TokenSets!Init
        BY DEF Init, NoLists, TokenSets!Init, TokenSets!Nothing, Row
    <1>2. SerialInv /\ [Next /\ OneAtATime']_vars => [TokenSets!Next]_(TokenSets!vars)
        BY TokenSetStep
    <1> QED BY <1>1, <1>2, SerialCallsStayOnCourse, PTL
        DEF SerialSpec, ImplementsTokenSet, TokenSets!Spec
=============================================================================
