----------------------------- MODULE TokenList -----------------------------
(***************************************************************************)
(* store/user_setting.go: a user's refresh tokens, or personal access      *)
(* tokens (PATs), kept as one list in one row of user_setting, and changed *)
(* by reading the whole list through userSettingCache, editing it and      *)
(* upserting the whole list.  Nothing locks the row between the read and   *)
(* the write, so the steps of the goroutines that serve requests           *)
(* interleave.                                                             *)
(*                                                                         *)
(* A list is abstracted to the set of its token ids: ids are fresh UUIDs,  *)
(* and neither the order nor the other fields of a token (description,     *)
(* last use, client) decide what happens to it.                            *)
(***************************************************************************)
EXTENDS Naturals, FiniteSets, Functions

CONSTANTS
    Users,    \* users with such a list
    Tokens,   \* token ids
    Procs,    \* goroutines
    Ops       \* what they do: some of "add", "remove", "touch", "check"

ASSUME TokenListAssumption == Ops \subseteq {"add", "remove", "touch", "check"}

VARIABLES
    db,       \* user_setting rows: the ids in the list of each user with a row
    cache,    \* userSettingCache: the ids in the list of each user with an entry
    pc,       \* where each goroutine is
    req,      \* the call it serves: operation, user, token
    seen,     \* the list it holds
    touches,  \* goroutines spawned to record the use of a PAT, not yet run
    issued,   \* user |-> ids generated for the user
    added,    \* user |-> ids whose addition was reported done
    doomed,   \* user |-> ids whose removal was requested
    revoked   \* user |-> ids whose removal was reported done

state == <<db, cache, pc, req, seen, touches>>
history == <<issued, added, doomed, revoked>>
vars == <<state, history>>

NoReq == [op |-> "none"]
Requests == [op : Ops, user : Users, token : Tokens]

\* A map from some of the users to lists.
IsLists(f) == DOMAIN f \subseteq Users /\ f \in [DOMAIN f -> SUBSET Tokens]

TypeOK ==
    /\ IsLists(db)
    /\ IsLists(cache)
    /\ pc \in [Procs -> {"idle", "query", "fill", "refill", "act", "write", "publish"}]
    /\ req \in [Procs -> Requests \cup {NoReq}]
    /\ \A p \in Procs : pc[p] # "idle" => req[p] \in Requests
    /\ seen \in [Procs -> SUBSET Tokens]
    /\ touches \subseteq Users \X Tokens
    /\ issued \in [Users -> SUBSET Tokens]
    /\ added \in [Users -> SUBSET Tokens]
    /\ doomed \in [Users -> SUBSET Tokens]
    /\ revoked \in [Users -> SUBSET Tokens]

NoLists == [u \in {} |-> {}]

Init ==
    /\ db = NoLists
    /\ cache = NoLists
    /\ pc = [p \in Procs |-> "idle"]
    /\ req = [p \in Procs |-> NoReq]
    /\ seen = [p \in Procs |-> {}]
    /\ touches = {}
    /\ issued = [u \in Users |-> {}]
    /\ added = [u \in Users |-> {}]
    /\ doomed = [u \in Users |-> {}]
    /\ revoked = [u \in Users |-> {}]

-----------------------------------------------------------------------------
\* The list in the row, and the list a cache hit would return.
Row(u) == IF u \in DOMAIN db THEN db[u] ELSE {}
Cached(u) == IF u \in DOMAIN cache THEN cache[u] ELSE {}

Put(f, u, list) == [v \in DOMAIN f \cup {u} |-> IF v = u THEN list ELSE f[v]]
Drop(f, u) == Restrict(f, DOMAIN f \ {u})

\* Mutant: a key that another user has.
CacheKeyOfAnother(u) == CHOOSE v \in Users : TRUE

\* getUserSettingCacheKey: one cache entry per user (and setting key).
CacheKey(u) == u

Op(p) == req[p].op
User(p) == req[p].user
Token(p) == req[p].token

Goto(p, label) == pc' = [pc EXCEPT ![p] = label]
Return(p) ==
    /\ Goto(p, "idle")
    /\ req' = [req EXCEPT ![p] = NoReq]
    /\ seen' = [seen EXCEPT ![p] = {}]

\* GetUserSetting looks in the cache first: a hit is the list to act on.
Read(p, r) ==
    /\ pc[p] = "idle"
    /\ r.op \in Ops
    /\ req' = [req EXCEPT ![p] = r]
    /\ IF CacheKey(r.user) \in DOMAIN cache
       THEN Goto(p, "act") /\ seen' = [seen EXCEPT ![p] = cache[CacheKey(r.user)]]
       ELSE Goto(p, "query") /\ UNCHANGED seen
    /\ UNCHANGED <<db, cache>>

\* A client names a token only after the call that created it has answered.
Known(u, t) ==
    /\ t \in issued[u]
    /\ \A p \in Procs : pc[p] # "idle" => ~(Op(p) = "add" /\ Token(p) = t)

\* AddUserRefreshToken, AddUserPersonalAccessToken: the id is a fresh UUID.
Add(p, u, t) ==
    /\ \A v \in Users : t \notin issued[v]
    /\ Read(p, [op |-> "add", user |-> u, token |-> t])
    /\ issued' = [issued EXCEPT ![u] = @ \cup {t}]
    /\ UNCHANGED <<touches, added, doomed, revoked>>

\* RemoveUserRefreshToken, RemoveUserPersonalAccessToken.
Remove(p, u, t) ==
    /\ Known(u, t)
    /\ Read(p, [op |-> "remove", user |-> u, token |-> t])
    /\ doomed' = [doomed EXCEPT ![u] = @ \cup {t}]
    /\ UNCHANGED <<touches, issued, added, revoked>>

\* GetUserRefreshTokenByID, for the user and id of a signed refresh token.
Check(p, u, t) ==
    /\ Known(u, t)
    /\ Read(p, [op |-> "check", user |-> u, token |-> t])
    /\ UNCHANGED <<touches, history>>

\* A request authenticated with a PAT: GetUserByPATHash looks in the database,
\* not in the cache, and a goroutine is left to record the use.
UsePAT(u, t) ==
    /\ "touch" \in Ops
    /\ t \in Row(u)
    /\ touches' = touches \cup {<<u, t>>}
    /\ UNCHANGED <<db, cache, pc, req, seen, history>>

\* UpdatePATLastUsed, run by that goroutine at some later time.
Touch(p, u, t) ==
    /\ <<u, t>> \in touches
    /\ touches' = touches \ {<<u, t>>}
    /\ Read(p, [op |-> "touch", user |-> u, token |-> t])
    /\ UNCHANGED history

\* A miss: ListUserSettings queries the database; no row is an empty list.
Query(p) ==
    /\ pc[p] = "query"
    /\ seen' = [seen EXCEPT ![p] = Row(User(p))]
    /\ Goto(p, IF User(p) \in DOMAIN db THEN "fill" ELSE "act")
    /\ UNCHANGED <<db, cache, req, touches, history>>

\* ListUserSettings caches what it read, and GetUserSetting caches it again.
Fill(p) ==
    /\ pc[p] \in {"fill", "refill"}
    /\ cache' = Put(cache, CacheKey(User(p)), seen[p])
    /\ Goto(p, IF pc[p] = "fill" THEN "refill" ELSE "act")
    /\ UNCHANGED <<db, req, seen, touches, history>>

\* What a check answers is decided by the list it holds; nothing is written.
Answer(p) ==
    /\ pc[p] = "act" /\ Op(p) = "check"
    /\ Return(p)
    /\ UNCHANGED <<db, cache, touches, history>>

\* Mutant: a list is emptied instead of filtered.
EditedEmptying(op, t, list) ==
    CASE op = "add" -> list \cup {t}
      [] op = "remove" -> {}
      [] op = "touch" -> list

Edited(op, t, list) ==
    CASE op = "add" -> list \cup {t}
      [] op = "remove" -> list \ {t}
      [] op = "touch" -> list

\* The other calls on the user's list whose slice may end in the place that an
\* append to base writes, and hold x there.  A removal edits a copy of its own.
Sharing(p, base, x) ==
    {q \in Procs \ {p} :
        /\ pc[q] = "act" \/ (pc[q] \in {"write", "publish"} /\ Op(q) # "remove")
        /\ User(q) = User(p)
        /\ base \subseteq seen[q] /\ x \in seen[q] \ base}

\* append writes the new token behind the cached list, in the same array when
\* that has room: then what another add put there, be its list still held or
\* already cached, is overwritten.  Whether an array has room depends on how it
\* was made; any of the lists that are long enough may share it.
Append(p) ==
    /\ pc[p] = "act" /\ Op(p) = "add"
    /\ \E x \in Tokens :
       \E held \in SUBSET Sharing(p, seen[p], x), cached \in BOOLEAN :
         LET Over(list) == (list \ {x}) \cup {Token(p)}
             u == User(p)
         IN  /\ cached => seen[p] \subseteq Cached(u) /\ x \in Cached(u) \ seen[p]
             /\ seen' = [q \in Procs |-> IF q = p THEN Edited("add", Token(p), seen[p])
                                         ELSE IF q \in held THEN Over(seen[q]) ELSE seen[q]]
             /\ cache' = IF cached THEN Put(cache, CacheKey(u), Over(Cached(u))) ELSE cache
    /\ Goto(p, "write")
    /\ UNCHANGED <<db, req, touches, history>>

\* The other calls copy the tokens to keep, or set the time of one in place.
Edit(p) ==
    /\ pc[p] = "act" /\ Op(p) \in {"remove", "touch"}
    /\ seen' = [seen EXCEPT ![p] = Edited(Op(p), Token(p), @)]
    /\ Goto(p, "write")
    /\ UNCHANGED <<db, cache, req, touches, history>>

\* Mutant: the error of the driver is ignored.
UpsertUnchecked(p) ==
    /\ pc[p] = "write"
    /\ db' \in {db, Put(db, User(p), seen[p])}
    /\ Goto(p, "publish")
    /\ UNCHANGED <<cache, req, seen, touches, history>>

\* UpsertUserSetting writes the edited list whole.
Upsert(p) ==
    /\ pc[p] = "write"
    /\ db' = Put(db, User(p), seen[p])
    /\ Goto(p, "publish")
    /\ UNCHANGED <<cache, req, seen, touches, history>>

\* The driver reports an error, to the query or to the upsert: the call fails.
DriverFails(p) ==
    /\ pc[p] \in {"query", "write"}
    /\ Return(p)
    /\ UNCHANGED <<db, cache, touches, history>>

\* Mutant: the cache is not told of the new list.
PublishUncached(p) ==
    /\ pc[p] = "publish"
    /\ added' = IF Op(p) = "add"
                THEN [added EXCEPT ![User(p)] = @ \cup {Token(p)}] ELSE added
    /\ revoked' = IF Op(p) = "remove"
                  THEN [revoked EXCEPT ![User(p)] = @ \cup {Token(p)}] ELSE revoked
    /\ Return(p)
    /\ UNCHANGED <<db, cache, touches, issued, doomed>>

\* After the upsert the new list is cached, and the call returns.
Publish(p) ==
    /\ pc[p] = "publish"
    /\ cache' = Put(cache, CacheKey(User(p)), seen[p])
    /\ added' = IF Op(p) = "add"
                THEN [added EXCEPT ![User(p)] = @ \cup {Token(p)}] ELSE added
    /\ revoked' = IF Op(p) = "remove"
                  THEN [revoked EXCEPT ![User(p)] = @ \cup {Token(p)}] ELSE revoked
    /\ Return(p)
    /\ UNCHANGED <<db, touches, issued, doomed>>

\* Mutant: entries do not expire.
ExpireNever(u) == FALSE /\ Drop(cache, u) = cache /\ UNCHANGED vars

\* The entry reaches its ttl, or is evicted (module Cache).
Expire(u) ==
    /\ u \in DOMAIN cache
    /\ cache' = Drop(cache, u)
    /\ UNCHANGED <<db, pc, req, seen, touches, history>>

\* The process dies and is started again: calls in flight, spawned goroutines
\* and the cache are lost.
Restart ==
    /\ cache' = NoLists
    /\ pc' = [p \in Procs |-> "idle"]
    /\ req' = [p \in Procs |-> NoReq]
    /\ seen' = [p \in Procs |-> {}]
    /\ touches' = {}
    /\ UNCHANGED <<db, history>>

Call(p) ==
    \E u \in Users, t \in Tokens :
        Add(p, u, t) \/ Remove(p, u, t) \/ Check(p, u, t) \/ Touch(p, u, t)

Continue(p) ==
    \/ Query(p) \/ Fill(p) \/ Answer(p) \/ Append(p) \/ Edit(p)
    \/ Upsert(p) \/ DriverFails(p) \/ Publish(p)

Next ==
    \/ \E p \in Procs : Call(p) \/ Continue(p)
    \/ \E u \in Users, t \in Tokens : UsePAT(u, t)
    \/ \E u \in Users : Expire(u)
    \/ Restart

Spec == Init /\ [][Next]_vars

\* A goroutine inside a call keeps running, and an entry that nobody writes
\* any more reaches its ttl.
Fairness ==
    /\ \A p \in Procs : WF_vars(Continue(p))
    /\ \A u \in Users : WF_vars(Expire(u))

FairSpec == Spec /\ Fairness

-----------------------------------------------------------------------------
(* Behaviours in which the calls on one user's list do not overlap.         *)

Busy(p, u) == pc[p] # "idle" /\ User(p) = u
OneAtATime == \A u \in Users : \A p, q \in Procs : Busy(p, u) /\ Busy(q, u) => p = q

SerialSpec == Init /\ [][Next /\ OneAtATime']_vars

-----------------------------------------------------------------------------
(* Properties.                                                              *)

\* A list, stored or cached, holds only tokens generated for its own user:
\* no interleaving of requests hands one user's session to another.
OwnTokensOnly ==
    \A u \in Users : Row(u) \cup Cached(u) \subseteq issued[u]

\* DeletePersonalAccessToken "immediately invalidates the token": a PAT whose
\* removal was reported done is not in the row GetUserByPATHash looks in.
RevokedPATsAreRefused == \A u \in Users : revoked[u] \cap Row(u) = {}

\* The list the next check of a refresh token of u will look in.
Consulted(u) == IF CacheKey(u) \in DOMAIN cache THEN cache[CacheKey(u)] ELSE Row(u)

\* RefreshToken validates the refresh token against the database, "checking
\* expiry and revocation": a check that starts after SignOut removed the
\* token does not find it.
RevokedSessionsAreRefused == \A u \in Users : revoked[u] \cap Consulted(u) = {}

\* AddUserRefreshToken "adds a new refresh token for the user": it is in the
\* row from then on, until its removal is requested.
AddedIsKept == \A u \in Users : added[u] \ doomed[u] \subseteq Row(u)

Agrees(u) == u \in DOMAIN cache => u \in DOMAIN db /\ cache[u] = db[u]

\* Outside calls on the user's list, the cached list is the stored one.
Coherent ==
    \A u \in Users :
        (\A p \in Procs : ~Busy(p, u)) => Agrees(u)

\* What OwnTokensOnly rests on: the lists and tokens that calls hold, and the
\* tokens whose use is still to be recorded, belong to the user they are about.
CallsOwn ==
    \A p \in Procs : pc[p] # "idle" =>
        /\ Token(p) \in issued[User(p)]
        /\ pc[p] # "query" => seen[p] \subseteq issued[User(p)]
TouchesOwn == \A tch \in touches : tch[2] \in issued[tch[1]]
HistoryOwn == \A u \in Users : added[u] \cup doomed[u] \subseteq issued[u]
IdsUnique == \A u, v \in Users : u # v => issued[u] \cap issued[v] = {}

\* The inductive invariant behind OwnTokensOnly.
OwnInv ==
    /\ TypeOK
    /\ OwnTokensOnly
    /\ CallsOwn
    /\ TouchesOwn
    /\ HistoryOwn
    /\ IdsUnique

\* What a call that has the list to itself knows: the list it holds is the
\* stored one, and its own token is in the state its progress implies.
OnCourse(p) ==
    /\ pc[p] \in {"fill", "refill", "act", "publish"} => seen[p] = Row(User(p))
    /\ pc[p] = "write" => seen[p] = Edited(Op(p), Token(p), Row(User(p)))
    /\ pc[p] = "write" => Op(p) \in {"add", "remove", "touch"}
    /\ pc[p] \in {"fill", "refill", "publish"} => User(p) \in DOMAIN db
    /\ Op(p) = "add" => /\ Token(p) \notin doomed[User(p)]
                        /\ Token(p) \in Row(User(p)) <=> pc[p] = "publish"
    /\ Op(p) = "remove" => /\ Token(p) \in doomed[User(p)]
                           /\ pc[p] = "publish" => Token(p) \notin Row(User(p))

CallsOnCourse == \A p \in Procs : pc[p] # "idle" => OnCourse(p)

\* A cached list differs from the stored one only until its writer publishes.
CacheBehind ==
    \A u \in Users : Agrees(u) \/ \E p \in Procs : Busy(p, u) /\ pc[p] = "publish"

\* The inductive invariant of the serial behaviours.
SerialInv ==
    /\ OwnInv
    /\ OneAtATime
    /\ CallsOnCourse
    /\ CacheBehind
    /\ RevokedPATsAreRefused
    /\ AddedIsKept
    /\ \A u \in Users : revoked[u] \subseteq doomed[u]

\* The stored lists behave as sets of tokens, each of which enters once because
\* a call asked for it and leaves once because a call named it: no call undoes
\* another, nothing is lost and nothing removed comes back.
TokenSets == INSTANCE TokenSet WITH live <- [u \in Users |-> Row(u)]
ImplementsTokenSet == TokenSets!Spec

\* A stale entry does not outlive its ttl: once the lists are no longer
\* written, every cached list is the stored list from some time on.
CacheConverges ==
    \A u \in Users : <>[][Row(u)' = Row(u)]_db => <>[]Agrees(u)
=============================================================================
