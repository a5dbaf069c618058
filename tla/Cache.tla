------------------------------- MODULE Cache -------------------------------
(***************************************************************************)
(* store/cache/cache.go: the in-memory cache that the store keeps in front *)
(* of the users, the user settings and the instance settings.              *)
(*                                                                         *)
(* The cache has no lock.  Its entries live in a sync.Map and their number *)
(* in an atomic counter beside it, so an operation is a sequence of atomic *)
(* steps, one per access to the map or to the counter, and the steps of    *)
(* the request goroutines (Clients) and of the cleanup goroutine (Cleaner) *)
(* interleave.  An entry is abstracted to its expiration time: the value   *)
(* and its estimated size decide nothing in this code, and OnEviction is   *)
(* nil in every cache the program creates.                                 *)
(***************************************************************************)
EXTENDS Integers, FiniteSets, Functions

CONSTANTS
    Keys,          \* the keys the callers use
    Clients,       \* goroutines that call the cache
    Cleaner,       \* the goroutine New starts
    Closers,       \* the clients that may call Close
    TTLs,          \* the ttl arguments of SetWithTTL
    MaxItems,      \* config.MaxItems; 0 switches eviction off
    EvictDivisor,  \* 5 in the code: a batch is a fifth of MaxItems
    MaxTime,       \* bound on the clock
    MaxCount,      \* bound on the counter: no call starts beyond it
    NoKey          \* no key: a goroutine outside a call on a key

ASSUME CacheAssumption ==
    /\ IsFiniteSet(Keys)
    /\ Closers \subseteq Clients
    /\ Cleaner \notin Clients
    /\ TTLs \subseteq Nat
    /\ MaxItems \in Nat
    /\ EvictDivisor \in Nat \ {0}
    /\ MaxTime \in Nat
    /\ MaxCount \in Nat
    /\ NoKey \notin Keys

VARIABLES
    data,     \* the sync.Map: key |-> expiration, for the keys present
    count,    \* itemCount
    now,      \* the clock
    stopped,  \* stopChan is closed
    pc,       \* where each goroutine is
    key,      \* the key a goroutine works on
    ttl,      \* the ttl of the Set in progress
    todo,     \* keys a Range has still to visit, or candidates to delete
    cand,     \* cleanupOldest's candidates: key |-> expiration
    gone      \* keys a batch has deleted but not yet taken off the counter

vars == <<data, count, now, stopped, pc, key, ttl, todo, cand, gone>>

Procs == Clients \cup {Cleaner}
Empty == [k \in {} |-> 0]

ClientPCs == {"idle", "set_delete", "set_count", "set_store", "set_check",
              "evict_check", "evict_visit", "evict_delete", "evict_count",
              "get_delete", "get_count", "del_count",
              "close_stop", "close_wait", "panicked"}
CleanerPCs == {"wait", "sweep_visit", "sweep_delete", "sweep_count", "exited"}
OnKeyPCs == {"set_delete", "set_count", "set_store", "get_delete", "get_count",
             "del_count", "sweep_delete"}
EvictPCs == {"evict_visit", "evict_delete", "evict_count"}

\* A map from some of the keys to expiration times.
IsEntries(f) == DOMAIN f \subseteq Keys /\ f \in [DOMAIN f -> Nat]

TypeOK ==
    /\ IsEntries(data)
    /\ count \in Int
    /\ now \in 0..MaxTime
    /\ stopped \in BOOLEAN
    /\ pc \in [Procs -> ClientPCs \cup CleanerPCs]
    /\ \A p \in Clients : pc[p] \in ClientPCs
    /\ pc[Cleaner] \in CleanerPCs
    /\ key \in [Procs -> Keys \cup {NoKey}]
    /\ \A p \in Procs : pc[p] \in OnKeyPCs => key[p] \in Keys
    /\ ttl \in [Clients -> TTLs \cup {0}]
    /\ todo \in [Procs -> SUBSET Keys]
    /\ DOMAIN cand = Clients /\ \A p \in Clients : IsEntries(cand[p])
    /\ gone \in [Procs -> SUBSET Keys]

-----------------------------------------------------------------------------
Present == DOMAIN data
Expired(k) == data[k] < now
Without(f, k) == Restrict(f, DOMAIN f \ {k})
With(f, k, v) == [j \in DOMAIN f \cup {k} |-> IF j = k THEN v ELSE f[j]]

\* How many entries cleanupOldest removes at once.
Threshold == IF MaxItems \div EvictDivisor > 1 THEN MaxItems \div EvictDivisor ELSE 1

Init ==
    /\ data = Empty
    /\ count = 0
    /\ now = 0
    /\ stopped = FALSE
    /\ pc = [p \in Procs |-> IF p = Cleaner THEN "wait" ELSE "idle"]
    /\ key = [p \in Procs |-> NoKey]
    /\ ttl = [p \in Clients |-> 0]
    /\ todo = [p \in Procs |-> {}]
    /\ cand = [p \in Clients |-> Empty]
    /\ gone = [p \in Procs |-> {}]

Goto(p, label) == pc' = [pc EXCEPT ![p] = label]

\* A call is over: its locals go out of scope.
Return(p) ==
    /\ Goto(p, "idle")
    /\ key' = [key EXCEPT ![p] = NoKey]

Tick ==
    /\ now < MaxTime
    /\ now' = now + 1
    /\ UNCHANGED <<data, count, stopped, pc, key, ttl, todo, cand, gone>>

-----------------------------------------------------------------------------
(* SetWithTTL (Set is SetWithTTL with the default ttl).                     *)

SetLoad(p, k, t) ==
    /\ pc[p] = "idle"
    /\ Goto(p, IF k \in Present THEN "set_delete" ELSE "set_count")
    /\ key' = [key EXCEPT ![p] = k]
    /\ ttl' = [ttl EXCEPT ![p] = t]
    /\ UNCHANGED <<data, count, now, stopped, todo, cand, gone>>

SetDelete(p) ==
    /\ pc[p] = "set_delete"
    /\ data' = Without(data, key[p])
    /\ Goto(p, "set_store")
    /\ UNCHANGED <<count, now, stopped, key, ttl, todo, cand, gone>>

SetCount(p) ==
    /\ pc[p] = "set_count"
    /\ count' = count + 1
    /\ Goto(p, "set_store")
    /\ UNCHANGED <<data, now, stopped, key, ttl, todo, cand, gone>>

SetStore(p) ==
    /\ pc[p] = "set_store"
    /\ data' = With(data, key[p], now + ttl[p])
    /\ Goto(p, "set_check")
    /\ ttl' = [ttl EXCEPT ![p] = 0]
    /\ UNCHANGED <<count, now, stopped, key, todo, cand, gone>>

\* Mutant: eviction starts one item too late.
SetCheckLate(p) ==
    /\ pc[p] = "set_check"
    /\ IF MaxItems > 0 /\ count > MaxItems + 1
       THEN Goto(p, "evict_check") /\ UNCHANGED key
       ELSE Return(p)
    /\ UNCHANGED <<data, count, now, stopped, ttl, todo, cand, gone>>

SetCheck(p) ==
    /\ pc[p] = "set_check"
    /\ IF MaxItems > 0 /\ count > MaxItems
       THEN Goto(p, "evict_check") /\ UNCHANGED key
       ELSE Return(p)
    /\ UNCHANGED <<data, count, now, stopped, ttl, todo, cand, gone>>

(* cleanupOldest, called by the Set that found the cache too full.          *)

EvictCheck(p) ==
    /\ pc[p] = "evict_check"
    /\ IF count <= MaxItems
       THEN Return(p) /\ UNCHANGED todo
       ELSE /\ Goto(p, "evict_visit")
            /\ key' = [key EXCEPT ![p] = NoKey]
            /\ todo' = [todo EXCEPT ![p] = Keys]
    /\ UNCHANGED <<data, count, now, stopped, ttl, cand, gone>>

\* The candidates after Range has shown one more entry: take it while there
\* is room, else let it replace a newest candidate if it is older.
Consider(c, k, e) ==
    IF Cardinality(DOMAIN c) < Threshold
    THEN {With(c, k, e)}
    ELSE LET Newest == {n \in DOMAIN c : \A m \in DOMAIN c : c[m] <= c[n]}
         IN  IF \E n \in Newest : e < c[n]
             THEN {With(Without(c, n), k, e) : n \in Newest}
             ELSE {c}

\* Range visits every key once, in no particular order, and shows an entry
\* as it is when the visit reaches it.
EvictVisit(p, k) ==
    /\ pc[p] = "evict_visit"
    /\ k \in todo[p]
    /\ IF k \in Present
       THEN \E c \in Consider(cand[p], k, data[k]) : cand' = [cand EXCEPT ![p] = c]
       ELSE UNCHANGED cand
    /\ IF todo[p] = {k}
       THEN /\ Goto(p, IF DOMAIN cand'[p] = {} THEN "evict_count" ELSE "evict_delete")
            /\ todo' = [todo EXCEPT ![p] = DOMAIN cand'[p]]
       ELSE /\ UNCHANGED pc
            /\ todo' = [todo EXCEPT ![p] = @ \ {k}]
    /\ UNCHANGED <<data, count, now, stopped, key, ttl, gone>>

EvictDelete(p, k) ==
    /\ pc[p] = "evict_delete"
    /\ k \in todo[p]
    /\ data' = Without(data, k)
    /\ gone' = [gone EXCEPT ![p] = @ \cup {k}]
    /\ todo' = [todo EXCEPT ![p] = @ \ {k}]
    /\ IF todo[p] = {k} THEN Goto(p, "evict_count") ELSE UNCHANGED pc
    /\ UNCHANGED <<count, now, stopped, key, ttl, cand>>

EvictCount(p) ==
    /\ pc[p] = "evict_count"
    /\ count' = count - Cardinality(gone[p])
    /\ gone' = [gone EXCEPT ![p] = {}]
    /\ cand' = [cand EXCEPT ![p] = Empty]
    /\ Return(p)
    /\ UNCHANGED <<data, now, stopped, ttl, todo>>

-----------------------------------------------------------------------------
(* Get: a miss or a live hit is one Load; an expired hit is removed.        *)

GetLoad(p, k) ==
    /\ pc[p] = "idle"
    /\ k \in Present /\ Expired(k)
    /\ Goto(p, "get_delete")
    /\ key' = [key EXCEPT ![p] = k]
    /\ UNCHANGED <<data, count, now, stopped, ttl, todo, cand, gone>>

GetDelete(p) ==
    /\ pc[p] = "get_delete"
    /\ data' = Without(data, key[p])
    /\ Goto(p, "get_count")
    /\ UNCHANGED <<count, now, stopped, key, ttl, todo, cand, gone>>

GetCount(p) ==
    /\ pc[p] = "get_count"
    /\ count' = count - 1
    /\ Return(p)
    /\ UNCHANGED <<data, now, stopped, ttl, todo, cand, gone>>

(* Delete: LoadAndDelete is atomic; nothing happens when it loads nothing.  *)

\* Mutant: the entry is removed and the counter is left alone.
DeleteLoadUncounted(p, k) ==
    /\ pc[p] = "idle"
    /\ k \in Present
    /\ data' = Without(data, k)
    /\ UNCHANGED <<count, now, stopped, pc, key, ttl, todo, cand, gone>>

DeleteLoad(p, k) ==
    /\ pc[p] = "idle"
    /\ k \in Present
    /\ data' = Without(data, k)
    /\ Goto(p, "del_count")
    /\ key' = [key EXCEPT ![p] = k]
    /\ UNCHANGED <<count, now, stopped, ttl, todo, cand, gone>>

DeleteCount(p) ==
    /\ pc[p] = "del_count"
    /\ count' = count - 1
    /\ Return(p)
    /\ UNCHANGED <<data, now, stopped, ttl, todo, cand, gone>>

(* Close: a select finds stopChan open, close(stopChan), <-closedChan.      *)

CloseCheck(p) ==
    /\ pc[p] = "idle"
    /\ ~stopped
    /\ Goto(p, "close_stop")
    /\ UNCHANGED <<data, count, now, stopped, key, ttl, todo, cand, gone>>

\* Mutant: Close waits for closedChan without closing stopChan.
CloseStopForgotten(p) ==
    /\ pc[p] = "close_stop"
    /\ Goto(p, "close_wait")
    /\ UNCHANGED <<data, count, now, stopped, key, ttl, todo, cand, gone>>

\* Closing a closed channel panics.
CloseStop(p) ==
    /\ pc[p] = "close_stop"
    /\ IF stopped THEN Goto(p, "panicked") ELSE Goto(p, "close_wait")
    /\ stopped' = TRUE
    /\ UNCHANGED <<data, count, now, key, ttl, todo, cand, gone>>

CloseWait(p) ==
    /\ pc[p] = "close_wait"
    /\ pc[Cleaner] = "exited"
    /\ Goto(p, "idle")
    /\ UNCHANGED <<data, count, now, stopped, key, ttl, todo, cand, gone>>

-----------------------------------------------------------------------------
(* cleanupLoop and cleanup.                                                 *)

SweepStart ==
    /\ pc[Cleaner] = "wait"
    /\ Goto(Cleaner, "sweep_visit")
    /\ todo' = [todo EXCEPT ![Cleaner] = Keys]
    /\ UNCHANGED <<data, count, now, stopped, key, ttl, cand, gone>>

\* Mutant: the expiration test is inverted.
SweepVisitLive(k) ==
    /\ pc[Cleaner] = "sweep_visit"
    /\ k \in todo[Cleaner]
    /\ todo' = [todo EXCEPT ![Cleaner] = @ \ {k}]
    /\ IF k \in Present /\ ~Expired(k)
       THEN /\ Goto(Cleaner, "sweep_delete")
            /\ key' = [key EXCEPT ![Cleaner] = k]
       ELSE UNCHANGED <<pc, key>>
    /\ UNCHANGED <<data, count, now, stopped, ttl, cand, gone>>

SweepVisit(k) ==
    /\ pc[Cleaner] = "sweep_visit"
    /\ k \in todo[Cleaner]
    /\ todo' = [todo EXCEPT ![Cleaner] = @ \ {k}]
    /\ IF k \in Present /\ Expired(k)
       THEN /\ Goto(Cleaner, "sweep_delete")
            /\ key' = [key EXCEPT ![Cleaner] = k]
       ELSE UNCHANGED <<pc, key>>
    /\ UNCHANGED <<data, count, now, stopped, ttl, cand, gone>>

SweepDelete ==
    /\ pc[Cleaner] = "sweep_delete"
    /\ data' = Without(data, key[Cleaner])
    /\ gone' = [gone EXCEPT ![Cleaner] = @ \cup {key[Cleaner]}]
    /\ key' = [key EXCEPT ![Cleaner] = NoKey]
    /\ Goto(Cleaner, "sweep_visit")
    /\ UNCHANGED <<count, now, stopped, ttl, todo, cand>>

SweepCount ==
    /\ pc[Cleaner] = "sweep_visit"
    /\ todo[Cleaner] = {}
    /\ count' = count - Cardinality(gone[Cleaner])
    /\ gone' = [gone EXCEPT ![Cleaner] = {}]
    /\ Goto(Cleaner, "wait")
    /\ UNCHANGED <<data, now, stopped, key, ttl, todo, cand>>

CleanerExit ==
    /\ pc[Cleaner] = "wait"
    /\ stopped
    /\ Goto(Cleaner, "exited")
    /\ UNCHANGED <<data, count, now, stopped, key, ttl, todo, cand, gone>>

-----------------------------------------------------------------------------
Call(p) ==
    /\ count \in -MaxCount..MaxCount
    /\ \/ \E k \in Keys, t \in TTLs : SetLoad(p, k, t)
       \/ \E k \in Keys : GetLoad(p, k) \/ DeleteLoad(p, k)
       \/ p \in Closers /\ CloseCheck(p)

Continue(p) ==
    \/ SetDelete(p) \/ SetCount(p) \/ SetStore(p) \/ SetCheck(p)
    \/ EvictCheck(p)
    \/ \E k \in Keys : EvictVisit(p, k) \/ EvictDelete(p, k)
    \/ EvictCount(p)
    \/ GetDelete(p) \/ GetCount(p) \/ DeleteCount(p)
    \/ CloseStop(p) \/ CloseWait(p)

Sweep == SweepStart \/ (\E k \in Keys : SweepVisit(k)) \/ SweepDelete \/ SweepCount

Next ==
    \/ Tick
    \/ \E p \in Clients : Call(p) \/ Continue(p)
    \/ Sweep
    \/ CleanerExit

Spec == Init /\ [][Next]_vars

\* A goroutine inside a call keeps running; the ticker keeps firing; and the
\* select of cleanupLoop, which picks at random among ready channels, does
\* not overlook a closed stopChan for ever.
Fairness ==
    /\ \A p \in Clients : WF_vars(Continue(p))
    /\ WF_vars(Sweep)
    /\ SF_vars(CleanerExit)

FairSpec == Spec /\ Fairness

-----------------------------------------------------------------------------
(* Behaviours in which no two calls in flight work on the same key.         *)

\* The keys goroutine p found in the map and is about to delete from it.
Held(p) ==
    CASE pc[p] \in {"set_delete", "get_delete", "sweep_delete"} -> {key[p]}
      [] pc[p] = "evict_visit" -> DOMAIN cand[p]
      [] pc[p] = "evict_delete" -> todo[p]
      [] OTHER -> {}

\* The keys that p took out of the map and that the counter still counts, or,
\* in a Set, that the counter already counts and p has still to store.
Owed(p) ==
    CASE pc[p] \in {"set_store", "get_count", "del_count"} -> {key[p]}
      [] OTHER -> gone[p]

\* The keys goroutine p has looked at and is still acting on.
Claims(p) ==
    Held(p) \cup Owed(p) \cup (IF pc[p] = "set_count" THEN {key[p]} ELSE {})

Disjoint == \A p, q \in Procs : p # q => Claims(p) \cap Claims(q) = {}

DisjointSpec == Init /\ [][Next /\ Disjoint']_vars

\* Nothing is stored behind an eviction: the Range of cleanupOldest has still
\* to visit a key that another Set is about to store.
SeenByRange ==
    \A p, q \in Clients :
        p # q /\ pc[p] = "evict_visit" /\ pc[q] = "set_store"
            => key[q] \in todo[p]

SeenSpec == Init /\ [][Next /\ Disjoint' /\ SeenByRange']_vars

-----------------------------------------------------------------------------
(* Properties.                                                              *)

\* No call and no sweep is under way.
Quiescent ==
    /\ \A p \in Clients : pc[p] \in {"idle", "close_wait"}
    /\ pc[Cleaner] \in {"wait", "exited"}

\* "Size returns the number of items in the cache": whenever no operation is
\* under way the counter that Size returns is the number of entries.  Every
\* operation maintains it by hand, in a step of its own.
SizeIsExact == Quiescent => count = Cardinality(Present)

\* Between the steps of the operations the counter is the number of the keys
\* present and of those some operation has not settled yet.
Counted == {k \in Keys : k \in Present \/ \E p \in Procs : k \in Owed(p)}
CountIsExact == count = Cardinality(Counted)

\* What an operation found out about its keys stays true while no other
\* operation works on them.
UndisturbedAt(p) ==
    /\ Held(p) \subseteq Present
    /\ Owed(p) \cap Present = {}
    /\ pc[p] = "set_count" => key[p] \notin Present
    /\ gone[p] # {} => pc[p] \in {"evict_delete", "evict_count",
                                  "sweep_visit", "sweep_delete"}
    /\ p \in Clients /\ pc[p] \notin EvictPCs => DOMAIN cand[p] = {}
Undisturbed == \A p \in Procs : UndisturbedAt(p)

\* The inductive invariant behind SizeIsExact.
CacheInv == TypeOK /\ Disjoint /\ Undisturbed /\ CountIsExact

\* "MaxItems is the maximum number of items allowed in the cache": once every
\* Set has returned, and evicted what it had to, the limit holds again.
\* Calls on different keys are not enough for it (SeenByRange): an eviction that
\* meets no entry, because they are all stored where it has passed, evicts nothing.
MaxItemsRespected == Quiescent /\ MaxItems > 0 => Cardinality(Present) <= MaxItems

\* The Sets that have stored their key and have still to return, or to choose
\* whom they evict; and the keys chosen and not yet deleted.
Storing == {p \in Clients : pc[p] \in {"set_check", "evict_check", "evict_visit"}}
Doomed == {k \in Keys : \E p \in Clients : pc[p] = "evict_delete" /\ k \in todo[p]}

\* The inductive invariant behind MaxItemsRespected, beside CacheInv: every key over
\* the limit has a Set that will find the cache too full or a batch that will
\* delete it, and a batch still empty has passed no entry.
LimitInv ==
    /\ IsFiniteSet(Storing)
    /\ MaxItems > 0 =>
           Cardinality(Present \ Doomed) <= MaxItems + Cardinality(Storing)
    /\ \A p \in Clients :
           pc[p] = "evict_visit" /\ DOMAIN cand[p] = {} => Present \subseteq todo[p]

\* Close returns: the cleanup goroutine notices stopChan, even in the middle
\* of a sweep or with the ticker due, and closes closedChan.  A Close that found
\* stopChan open does not panic by closing it again: a goroutine that calls
\* Close twice is protected by the select.
CloseReturns == \A p \in Clients : pc[p] = "close_stop" ~> pc[p] = "idle"

\* An expired entry does not stay: a Get or the next sweep removes it, or
\* somebody stores the key again, unless the cache is closed.
ExpiredGoes ==
    \A k \in Keys :
        (k \in Present /\ Expired(k))
            ~> (k \notin Present \/ ~Expired(k) \/ stopped)
=============================================================================
