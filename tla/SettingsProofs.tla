---------------------------- MODULE SettingsProofs ----------------------------
(* Proofs about Settings, for any number of rows and of steps: the forms and    *)
(* the tables show what the server has (FormTrue, ViewTrue), what the user was *)
(* told is deleted is gone (SaidDeleted), and a handler changes what was asked *)
(* for and nothing else (KeepsUntouched).                                      *)
EXTENDS Settings, SequenceTheorems, TLAPS

(* ---- lists of rows ---- *)
Row == [id : Nat, marked : BOOLEAN]
Distinct(s) == \A m, n \in DOMAIN s : s[m].id = s[n].id => m = n

LEMMA ListDomain ==
    ASSUME NEW s \in Seq(Row)
    PROVE  DOMAIN s = 1..Len(s) /\ Len(s) \in Nat /\ \A n \in DOMAIN s : s[n] \in Row
    OBVIOUS

LEMMA PlaceIs ==
    ASSUME NEW s \in Seq(Row), NEW i \in RowIds(s)
    PROVE  Place(s, i) \in 1..Len(s) /\ s[Place(s, i)].id = i
    BY DEF Place, RowIds

LEMMA CutIs ==
    ASSUME NEW s \in Seq(Row), NEW n \in 1..Len(s)
    PROVE  LET c == SubSeq(s, 1, n - 1) \o SubSeq(s, n + 1, Len(s)) IN
           /\ c \in Seq(Row) /\ DOMAIN c = 1..(Len(s) - 1)
           /\ \A k \in 1..(Len(s) - 1) : c[k] = IF k < n THEN s[k] ELSE s[k + 1]
    <1> DEFINE a == SubSeq(s, 1, n - 1)
               b == SubSeq(s, n + 1, Len(s))
    <1>0. Len(s) \in Nat /\ n \in Nat /\ 1 <= n /\ n <= Len(s)
        OBVIOUS
    <1>1. a \in Seq(Row) /\ Len(a) = n - 1 /\ \A k \in 1..(n - 1) : a[k] = s[k]
        OBVIOUS
    <1>2. b \in Seq(Row) /\ Len(b) = Len(s) - n /\ \A k \in 1..(Len(s) - n) : b[k] = s[n + k]
        OBVIOUS
    <1> HIDE DEF a, b
    <1>3. a \o b \in Seq(Row)
        BY <1>1, <1>2
    <1>4. Len(a \o b) = Len(s) - 1
        <2>1. Len(a \o b) = Len(a) + Len(b)
            BY <1>1, <1>2, ConcatProperties
        <2> QED BY <2>1, <1>0, <1>1, <1>2
    <1>5. DOMAIN (a \o b) = 1..(Len(s) - 1)
        BY <1>3, <1>4, ListDomain
    <1>6. ASSUME NEW k \in 1..(Len(s) - 1) PROVE (a \o b)[k] = IF k < n THEN s[k] ELSE s[k + 1]
        BY <1>1, <1>2
    <1> QED BY <1>3, <1>5, <1>6 DEF a, b

\* What is left of a list without the row i.
LEMMA WithoutRows ==
    ASSUME NEW s \in Seq(Row), NEW i
    PROVE  /\ Without(s, i) \in Seq(Row)
           /\ RowIds(Without(s, i)) \subseteq RowIds(s)
           /\ \A k \in DOMAIN Without(s, i) : \E m \in DOMAIN s : Without(s, i)[k] = s[m]
           /\ \A m \in DOMAIN s : s[m].id # i => \E k \in DOMAIN Without(s, i) : Without(s, i)[k] = s[m]
           /\ i \notin RowIds(s) => Without(s, i) = s
           /\ Distinct(s) => Distinct(Without(s, i)) /\ i \notin RowIds(Without(s, i))
    <1>1. CASE i \notin RowIds(s)
        BY <1>1 DEF Without
    <1>2. CASE i \in RowIds(s)
        <2> DEFINE n == Place(s, i)
                   w == Without(s, i)
        <2>1. n \in 1..Len(s) /\ s[n].id = i
            BY <1>2, PlaceIs
        <2>2. w = SubSeq(s, 1, n - 1) \o SubSeq(s, n + 1, Len(s))
            BY <1>2 DEF Without
        <2> HIDE DEF n, w
        <2>3. /\ w \in Seq(Row) /\ DOMAIN w = 1..(Len(s) - 1)
              /\ \A k \in 1..(Len(s) - 1) : w[k] = IF k < n THEN s[k] ELSE s[k + 1]
            BY <2>1, <2>2, CutIs
        <2>4. DOMAIN s = 1..Len(s) /\ Len(s) \in Nat
            BY ListDomain
        <2>5. \A k \in DOMAIN w : \E m \in DOMAIN s : w[k] = s[m] /\ m # n
            <3> TAKE k \in DOMAIN w
            <3>1. CASE k < n
                BY <3>1, <2>1, <2>3, <2>4
            <3>2. CASE ~(k < n)
                <4>1. k \in 1..(Len(s) - 1) /\ k + 1 \in 1..Len(s) /\ k + 1 # n
                    BY <3>2, <2>1, <2>3, <2>4
                <4> QED BY <4>1, <3>2, <2>3, <2>4
            <3> QED BY <3>1, <3>2
        <2>6. ASSUME NEW m \in DOMAIN s, s[m].id # i PROVE \E k \in DOMAIN w : w[k] = s[m]
            <3>1. CASE m < n
                BY <3>1, <2>1, <2>3, <2>4
            <3>2. CASE ~(m < n)
                <4>1. m # n /\ m - 1 \in 1..(Len(s) - 1) /\ ~(m - 1 < n) /\ (m - 1) + 1 = m
                    BY <3>2, <2>6, <2>1, <2>4
                <4> QED BY <4>1, <2>3
            <3> QED BY <3>1, <3>2
        <2>7. ASSUME Distinct(s) PROVE Distinct(w)
            <3> SUFFICES ASSUME NEW j \in DOMAIN w, NEW k \in DOMAIN w, w[j].id = w[k].id
                         PROVE  j = k
                BY DEF Distinct
            <3>0. j \in 1..(Len(s) - 1) /\ k \in 1..(Len(s) - 1)
                BY <2>3
            <3> DEFINE at(x) == IF x < n THEN x ELSE x + 1
            <3>1. at(j) \in DOMAIN s /\ at(k) \in DOMAIN s
                BY <3>0, <2>1, <2>4
            <3>2. w[j] = s[at(j)] /\ w[k] = s[at(k)]
                BY <3>0, <2>3
            <3>3. at(j) = at(k)
                BY <3>1, <3>2, <2>7 DEF Distinct
            <3> QED BY <3>0, <3>3, <2>1
        <2>8. ASSUME Distinct(s) PROVE i \notin RowIds(w)
            BY <2>8, <2>5, <2>1, <2>4 DEF RowIds, Distinct
        <2>9. RowIds(w) \subseteq RowIds(s)
            BY <2>5 DEF RowIds
        <2> QED BY <1>2, <2>3, <2>5, <2>6, <2>7, <2>8, <2>9 DEF w
    <1> QED BY <1>1, <1>2

LEMMA MarkRows ==
    ASSUME NEW s \in Seq(Row), NEW i, NEW m \in BOOLEAN
    PROVE  /\ Mark(s, i, m) \in Seq(Row) /\ RowIds(Mark(s, i, m)) = RowIds(s)
           /\ Distinct(s) => Distinct(Mark(s, i, m))
    <1> DEFINE t == Mark(s, i, m)
    <1>1. DOMAIN s = 1..Len(s) /\ Len(s) \in Nat /\ \A n \in DOMAIN s : s[n] \in Row
        BY ListDomain
    <1>2. DOMAIN t = DOMAIN s
        BY DEF Mark
    <1>3. \A n \in DOMAIN s : t[n] \in Row /\ t[n].id = s[n].id
        BY <1>1 DEF Mark, Row
    <1>4. t \in Seq(Row)
        <2>1. t = [n \in 1..Len(s) |-> t[n]]
            BY <1>1 DEF Mark
        <2> HIDE DEF t
        <2> QED BY <2>1, <1>1, <1>3
    <1> HIDE DEF t
    <1>5. RowIds(t) = RowIds(s)
        BY <1>2, <1>3 DEF RowIds
    <1>6. Distinct(s) => Distinct(t)
        BY <1>2, <1>3 DEF Distinct
    <1> QED BY <1>4, <1>5, <1>6 DEF t

LEMMA AppendRows ==
    ASSUME NEW s \in Seq(Row), NEW r \in Row
    PROVE  /\ Append(s, r) \in Seq(Row) /\ RowIds(Append(s, r)) = RowIds(s) \cup {r.id}
           /\ Distinct(s) /\ r.id \notin RowIds(s) => Distinct(Append(s, r))
    <1> DEFINE t == Append(s, r)
    <1>1. DOMAIN s = 1..Len(s) /\ Len(s) \in Nat
        BY ListDomain
    <1>2. t \in Seq(Row) /\ DOMAIN t = 1..(Len(s) + 1) /\ t[Len(s) + 1] = r /\ \A n \in 1..Len(s) : t[n] = s[n]
        OBVIOUS
    <1> HIDE DEF t
    <1>3. DOMAIN t = DOMAIN s \cup {Len(s) + 1} /\ Len(s) + 1 \notin DOMAIN s
        BY <1>1, <1>2
    <1>4. RowIds(t) = RowIds(s) \cup {r.id}
        BY <1>1, <1>2, <1>3 DEF RowIds
    <1>5. Distinct(s) /\ r.id \notin RowIds(s) => Distinct(t)
        BY <1>1, <1>2, <1>3 DEF RowIds, Distinct
    <1> QED BY <1>2, <1>4, <1>5 DEF t

LEMMA PageRows ==
    ASSUME NEW n \in Nat, rows \in Seq(Row)
    PROVE  PageFrom(n) \in Seq(Row)
    <1>1. CASE Len(rows) > n
        <2>1. PageFrom(n) = SubSeq(rows, n + 1, n + 1)
            BY <1>1 DEF PageFrom
        <2>2. n + 1 \in 1..Len(rows)
            BY <1>1
        <2> QED BY <2>1, <2>2
    <1>2. CASE ~(Len(rows) > n)
        <2>1. PageFrom(n) = SubSeq(rows, n + 1, n)
            BY <1>2 DEF PageFrom
        <2>2. SubSeq(rows, n + 1, n) = <<>>
            OBVIOUS
        <2> QED BY <2>1, <2>2
    <1> QED BY <1>1, <1>2

(* ---- the shape of the state ---- *)
Names   == Nat \cup {None}
Pcs     == {"idle", "call", "done", "refused", "list", "listed", "unlisted", "await"}
Answers == Seq(Row) \cup Values2 \cup {None}
Jobs    == [pc : Pcs, mode : Modes, ids : SUBSET Names, left : SUBSET Names, seen : Seq(Row),
            from : Nat, value : Values2, mask : SUBSET Fields, ans : Answers, retried : BOOLEAN]

ServerShape ==
    /\ rows \in Seq(Row) /\ view \in Seq(Row) /\ last \in Nat /\ page \in Nat
    /\ set \in Values2 /\ ctx \in Values2 /\ form \in Values2 /\ own \in Values
DialogShape ==
    /\ dialog \in [kind : {"none", "confirm", "submit"}, mode : Modes, id : Names]
    /\ said \in SUBSET Names
JobsShape ==
    /\ job \in [Handlers -> Jobs]
    /\ \A h \in Handlers : job[h].pc = "listed" => job[h].ans \in (IF sect \in Forms THEN Values2 ELSE Seq(Row))
FlagsShape == touched \in SUBSET Fields /\ raced \in BOOLEAN /\ missed \in BOOLEAN /\ blind \in BOOLEAN

Shape == sect \in Tables \cup Forms /\ ServerShape /\ DialogShape /\ JobsShape /\ FlagsShape

LEMMA Apart == Tables \cap Forms = {}
    BY DEF Tables, Queries, Forms, Whole

LEMMA EmptyShape == Empty \in Values2
    BY DEF Empty, Values2, Values, Fields

LEMMA IdleShape == Idle \in Jobs /\ Idle.pc = "idle" /\ Idle.mode = "none" /\ Idle.left = {} /\ Idle.from = 0
    <1>1. Empty \in Values2
        BY EmptyShape
    <1> QED BY <1>1 DEF Idle, Jobs, Pcs, Modes, Answers, Names

\* What a handler turns into.
LEMMA JobShape ==
    ASSUME NEW j \in Jobs
    PROVE  /\ \A l \in Pcs : [j EXCEPT !.pc = l] \in Jobs
           /\ \A l \in Pcs, s \in SUBSET Names : [j EXCEPT !.left = s, !.pc = l] \in Jobs
           /\ \A l \in Pcs, s \in SUBSET Names : [j EXCEPT !.pc = l, !.left = s] \in Jobs
           /\ \A l \in Pcs, a \in Answers : [j EXCEPT !.pc = l, !.ans = a] \in Jobs
           /\ \A l \in Pcs, s \in SUBSET Names :
                 [j EXCEPT !.pc = l, !.retried = TRUE, !.left = s] \in Jobs
           /\ \A l \in Pcs : [[j EXCEPT !.pc = l] EXCEPT !.retried = TRUE] \in Jobs
    BY DEF Jobs

LEMMA JobFields ==
    ASSUME NEW j \in Jobs, NEW l, NEW s
    PROVE  /\ [j EXCEPT !.pc = l].pc = l
           /\ LET k == [j EXCEPT !.pc = l, !.left = s] IN
              /\ k.pc = l /\ k.left = s
              /\ k.mode = j.mode /\ k.seen = j.seen /\ k.ans = j.ans /\ k.ids = j.ids
           /\ LET k == [j EXCEPT !.left = s, !.pc = l] IN
              /\ k.pc = l /\ k.left = s
              /\ k.mode = j.mode /\ k.seen = j.seen /\ k.ans = j.ans /\ k.ids = j.ids
    BY DEF Jobs

LEMMA CallShape ==
    ASSUME NEW m \in Modes
    PROVE  /\ Call(m) \in Jobs
           /\ \A i \in SUBSET Names : [Call(m) EXCEPT !.ids = i] \in Jobs
           /\ \A i, k \in SUBSET Names : [Call(m) EXCEPT !.ids = i, !.left = k] \in Jobs
           /\ \A i, k \in SUBSET Names, v \in Seq(Row) :
                 [Call(m) EXCEPT !.ids = i, !.seen = v, !.left = k] \in Jobs
           /\ \A v \in Values2, k \in SUBSET Fields : [Call(m) EXCEPT !.value = v, !.mask = k] \in Jobs
    <1>1. [Idle EXCEPT !.pc = "call", !.mode = m] \in Jobs
        BY IdleShape DEF Jobs, Pcs
    <1> DEFINE c == Call(m)
    <1>2. c \in Jobs
        BY <1>1 DEF Call
    <1> HIDE DEF c
    <1>3. /\ \A i \in SUBSET Names : [c EXCEPT !.ids = i] \in Jobs
          /\ \A i, k \in SUBSET Names : [c EXCEPT !.ids = i, !.left = k] \in Jobs
          /\ \A i, k \in SUBSET Names, v \in Seq(Row) :
                [c EXCEPT !.ids = i, !.seen = v, !.left = k] \in Jobs
          /\ \A v \in Values2, k \in SUBSET Fields : [c EXCEPT !.value = v, !.mask = k] \in Jobs
        BY <1>2 DEF Jobs
    <1> QED BY <1>2, <1>3 DEF c

LEMMA SavingShape ==
    ASSUME NEW v \in Values2, NEW k \in SUBSET Fields, NEW m \in Modes
    PROVE  Saving(v, k) \in Jobs /\ [Saving(v, k) EXCEPT !.mode = m] \in Jobs
    <1> DEFINE j == Saving(v, k)
    <1>1. j \in Jobs
        BY CallShape DEF Saving, Modes
    <1> HIDE DEF j
    <1>2. [j EXCEPT !.mode = m] \in Jobs
        BY <1>1 DEF Jobs
    <1> QED BY <1>1, <1>2 DEF j

LEMMA ListShape ==
    ASSUME NEW j \in Jobs
    PROVE  List(j) \in Jobs /\ List(j).pc = "list" /\ [List(j) EXCEPT !.retried = TRUE] \in Jobs
           /\ [List(j) EXCEPT !.retried = TRUE].pc = "list"
    <1>1. [j EXCEPT !.pc = "list"] \in Jobs /\ [j EXCEPT !.pc = "list"].pc = "list"
        BY DEF Jobs, Pcs
    <1> DEFINE l == List(j)
    <1>2. l \in Jobs /\ l.pc = "list"
        BY <1>1 DEF List
    <1> HIDE DEF l
    <1>3. [l EXCEPT !.retried = TRUE] \in Jobs /\ [l EXCEPT !.retried = TRUE].pc = "list"
        BY <1>2 DEF Jobs
    <1> QED BY <1>2, <1>3 DEF l

\* What a query keeps when it is fetched again, or when it failed.
LEMMA AgainShape ==
    ASSUME NEW j \in Jobs
    PROVE  /\ Again(j) \in Jobs /\ Again(j).pc = "idle" /\ Again(j).left = {} /\ Again(j).mode \in {"none", "first"}
           /\ List(Again(j)) \in Jobs /\ List(Again(j)).pc = "list" /\ List(Again(j)).left = {}
           /\ List(Again(j)).mode \in {"none", "first"} /\ List(Again(j)).seen = <<>>
           /\ Again(j).seen = <<>>
    <1>1. /\ \A m \in {"none", "first"} : /\ [Idle EXCEPT !.mode = m] \in Jobs
                                         /\ [Idle EXCEPT !.mode = m].pc = "idle"
                                         /\ [Idle EXCEPT !.mode = m].left = {}
                                         /\ [Idle EXCEPT !.mode = m].seen = <<>>
                                         /\ [Idle EXCEPT !.mode = m].mode = m
        BY IdleShape DEF Idle, Jobs, Modes
    <1>2. PICK m \in {"none", "first"} : Again(j) = [Idle EXCEPT !.mode = m]
        BY DEF Again
    <1> DEFINE k == Again(j)
    <1>3. k \in Jobs /\ k.pc = "idle" /\ k.left = {} /\ k.mode \in {"none", "first"} /\ k.seen = <<>>
        BY <1>1, <1>2
    <1> HIDE DEF k
    <1>4. /\ [k EXCEPT !.pc = "list"] \in Jobs /\ [k EXCEPT !.pc = "list"].pc = "list"
          /\ [k EXCEPT !.pc = "list"].left = {} /\ [k EXCEPT !.pc = "list"].mode \in {"none", "first"}
          /\ [k EXCEPT !.pc = "list"].seen = <<>>
        BY <1>3 DEF Jobs, Pcs
    <1> QED BY <1>3, <1>4 DEF k, List

LEMMA AgainIdle == ASSUME NEW j, j.mode # "first" PROVE Again(j) = Idle
    <1>1. Again(j) = [Idle EXCEPT !.mode = "none"]
        BY DEF Again
    <1>2. Idle.mode = "none" /\ [Idle EXCEPT !.mode = Idle.mode] = Idle
        BY DEF Idle
    <1> QED BY <1>1, <1>2

\* A handler moves, the others stay.
LEMMA Moves ==
    ASSUME JobsShape, NEW h \in Handlers, NEW j \in Jobs, job' = [job EXCEPT ![h] = j],
           sect' = sect, j.pc # "listed"
    PROVE  JobsShape'
    BY DEF JobsShape

LEMMA EndShape ==
    ASSUME JobsShape, NEW h \in Handlers, End(h), sect' = sect
    PROVE  JobsShape'
    BY IdleShape, Moves DEF End

LEMMA GotoShape ==
    ASSUME JobsShape, NEW h \in Handlers, NEW l \in Pcs \ {"listed"}, Goto(h, l), sect' = sect
    PROVE  JobsShape'
    <1>1. job[h] \in Jobs /\ [job[h] EXCEPT !.pc = l] \in Jobs
        BY JobShape DEF JobsShape
    <1>2. [job[h] EXCEPT !.pc = l].pc = l
        BY <1>1 DEF Jobs
    <1>3. job' = [job EXCEPT ![h] = [job[h] EXCEPT !.pc = l]]
        BY DEF Goto, JobsShape
    <1> QED BY <1>1, <1>2, <1>3, Moves

LEMMA BeginShape ==
    ASSUME JobsShape, FlagsShape, NEW h \in Handlers, NEW j \in Jobs, Begin(h, j), j.pc # "listed", sect' = sect
    PROVE  JobsShape' /\ raced' \in BOOLEAN
    <1>1. JobsShape'
        BY Moves DEF Begin
    <1>2. raced' \in BOOLEAN
        BY DEF Begin, FlagsShape
    <1> QED BY <1>1, <1>2

\* The load goes on as it is when it is joined, and is under way in any case.
LEMMA RefetchShape ==
    ASSUME JobsShape
    PROVE  /\ Refetch(job) \in [Handlers -> Jobs]
           /\ \A h \in Handlers \ {"load"} : Refetch(job)[h] = job[h]
           /\ Refetch(job)["load"] = IF Joins THEN job["load"] ELSE List(Again(job["load"]))
           /\ Refetch(job)["load"].pc # "idle"
           /\ Refetch(job)["load"].pc = "list" \/ Refetch(job)["load"] = job["load"]
    <1>1. "load" \in Handlers /\ job["load"] \in Jobs
        BY DEF JobsShape, Handlers
    <1>2. List(Again(job["load"])) \in Jobs /\ List(Again(job["load"])).pc = "list"
        BY <1>1, AgainShape
    <1>3. CASE Joins
        BY <1>1, <1>3 DEF Refetch, JobsShape, Joins, Free
    <1>4. CASE ~Joins
        BY <1>1, <1>2, <1>4 DEF Refetch, JobsShape
    <1> QED BY <1>3, <1>4

\* The list is fetched again, and handler h goes on with j.
LEMMA RefetchMoves ==
    ASSUME JobsShape, NEW h \in Handlers \ {"load"}, NEW j \in Jobs, j.pc # "listed",
           job' = [Refetch(job) EXCEPT ![h] = j], sect' = sect
    PROVE  JobsShape'
    BY RefetchShape DEF JobsShape, Handlers

\* A request that fails.
LEMMA LoseShape ==
    ASSUME JobsShape, NEW h \in Handlers, Lose(h)
    PROVE  JobsShape'
    <1> DEFINE l == IF job[h].pc = "list" THEN "unlisted" ELSE "refused"
               k == IF job[h].left = {} THEN {} ELSE job[h].left \ {CHOOSE i \in job[h].left : TRUE}
    <1>1. l \in Pcs \ {"listed"} /\ sect' = sect
        BY DEF Pcs, Lose
    <1>2. job[h] \in Jobs
        BY DEF JobsShape
    <1>3. k \in SUBSET Names
        BY <1>2 DEF Jobs
    <1>4. job' = [job EXCEPT ![h] = [job[h] EXCEPT !.pc = l, !.left = k]]
        BY <1>2 DEF Lose, JobsShape
    <1> HIDE DEF l, k
    <1>5. [job[h] EXCEPT !.pc = l, !.left = k] \in Jobs
        BY <1>1, <1>2, <1>3, JobShape
    <1>6. [job[h] EXCEPT !.pc = l, !.left = k].pc = l
        BY <1>2, JobFields
    <1> QED BY <1>1, <1>4, <1>5, <1>6, Moves

LEMMA Lost ==
    ASSUME JobsShape, NEW h \in Handlers, Lose(h)
    PROVE  /\ \A g \in Handlers \ {h} : job'[g] = job[g]
           /\ job[h].pc # "idle" /\ job'[h].pc \in {"unlisted", "refused"} /\ job'[h].left \subseteq job[h].left
           /\ job'[h].mode = job[h].mode /\ job'[h].seen = job[h].seen
    <1> DEFINE l == IF job[h].pc = "list" THEN "unlisted" ELSE "refused"
               k == IF job[h].left = {} THEN {} ELSE job[h].left \ {CHOOSE i \in job[h].left : TRUE}
    <1>1. l \in {"unlisted", "refused"} /\ k \subseteq job[h].left
        OBVIOUS
    <1>2. job[h] \in Jobs
        BY DEF JobsShape
    <1>3. job'[h] = [job[h] EXCEPT !.pc = l, !.left = k]
        BY <1>2 DEF Lose, JobsShape
    <1>4. job[h].pc # "idle" /\ \A g \in Handlers \ {h} : job'[g] = job[g]
        BY DEF Lose, JobsShape
    <1> HIDE DEF l, k
    <1>5. /\ job'[h].pc = l /\ job'[h].left = k /\ job'[h].mode = job[h].mode /\ job'[h].seen = job[h].seen
        BY <1>2, <1>3, JobFields
    <1> QED BY <1>1, <1>4, <1>5

\* A list is answered.
LEMMA ListedShape ==
    ASSUME Shape, NEW h \in Handlers, ServeList(h)
    PROVE  JobsShape'
    <1> DEFINE a == IF sect \in Forms THEN set
                    ELSE IF sect # "attachments" THEN rows ELSE PageFrom(job[h].from)
    <1>1. job[h] \in Jobs /\ job[h].from \in Nat
        BY DEF Shape, JobsShape, Jobs
    <1>2. a \in (IF sect \in Forms THEN Values2 ELSE Seq(Row))
        BY <1>1, PageRows DEF Shape, ServerShape
    <1>3. job' = [job EXCEPT ![h] = [job[h] EXCEPT !.pc = "listed", !.ans = a]]
        BY <1>1 DEF ServeList, Shape, JobsShape
    <1> HIDE DEF a
    <1>4. a \in Answers /\ "listed" \in Pcs
        BY <1>2 DEF Answers, Pcs
    <1>5. [job[h] EXCEPT !.pc = "listed", !.ans = a] \in Jobs
        BY <1>1, <1>4, JobShape
    <1>6. [job[h] EXCEPT !.pc = "listed", !.ans = a].ans = a
        BY <1>1 DEF Jobs
    <1>7. sect' = sect
        BY DEF ServeList
    <1> QED BY <1>2, <1>3, <1>5, <1>6, <1>7 DEF Shape, JobsShape

LEMMA DeletedShape ==
    ASSUME JobsShape, NEW h \in Handlers, NEW i, ServeDelete(h, i)
    PROVE  JobsShape' 
    <1> DEFINE l == IF job[h].pc # "call" THEN job[h].pc ELSE IF i \notin RowIds(rows) THEN "refused"
                    ELSE IF job[h].left = {i} THEN "done" ELSE "call"
               k == job[h].left \ {i}
    <1>1. job[h] \in Jobs
        BY DEF JobsShape
    <1>2. l \in Pcs /\ k \in SUBSET Names /\ sect' = sect
        BY <1>1 DEF Jobs, Pcs, ServeDelete
    <1>3. job' = [job EXCEPT ![h] = [job[h] EXCEPT !.left = k, !.pc = l]]
        BY <1>1 DEF ServeDelete, JobsShape
    <1>4. l = "listed" => job[h].pc = "listed"
        OBVIOUS
    <1> HIDE DEF l, k
    <1>5. [job[h] EXCEPT !.left = k, !.pc = l] \in Jobs
        BY <1>1, <1>2, JobShape
    <1>6. /\ [job[h] EXCEPT !.left = k, !.pc = l].pc = l
          /\ [job[h] EXCEPT !.left = k, !.pc = l].ans = job[h].ans
        BY <1>1, JobFields
    <1> QED BY <1>2, <1>3, <1>4, <1>5, <1>6 DEF JobsShape

LEMMA Served ==
    ASSUME JobsShape, NEW h \in Handlers, NEW i, ServeDelete(h, i)
    PROVE  /\ \A g \in Handlers \ {h} : job'[g] = job[g]
           /\ i \in job[h].left /\ job'[h].left = job[h].left \ {i}
           /\ job'[h].pc = job[h].pc \/ (job[h].pc = "call" /\ job'[h].pc \in {"refused", "done"})
           /\ job'[h].mode = job[h].mode /\ job'[h].seen = job[h].seen /\ job'[h].ans = job[h].ans
    <1> DEFINE l == IF job[h].pc # "call" THEN job[h].pc ELSE IF i \notin RowIds(rows) THEN "refused"
                    ELSE IF job[h].left = {i} THEN "done" ELSE "call"
               k == job[h].left \ {i}
    <1>1. l = job[h].pc \/ (job[h].pc = "call" /\ l \in {"refused", "done"})
        OBVIOUS
    <1>2. job[h] \in Jobs
        BY DEF JobsShape
    <1>3. job'[h] = [job[h] EXCEPT !.left = k, !.pc = l]
        BY <1>2 DEF ServeDelete, JobsShape
    <1>4. i \in job[h].left /\ \A g \in Handlers \ {h} : job'[g] = job[g]
        BY DEF ServeDelete, JobsShape
    <1> HIDE DEF l
    <1>5. /\ job'[h].pc = l /\ job'[h].left = k
          /\ job'[h].mode = job[h].mode /\ job'[h].seen = job[h].seen /\ job'[h].ans = job[h].ans
        BY <1>2, <1>3, JobFields
    <1> QED BY <1>1, <1>4, <1>5

\* A member is archived, and the members are fetched again.
LEMMA Archived ==
    ASSUME JobsShape, MemberArchived
    PROVE  /\ job["confirm"].pc = "done" /\ job'["confirm"].pc = "await" /\ job'["confirm"].left = job["confirm"].left
           /\ job'["confirm"].seen = job["confirm"].seen
           /\ job'["load"] = Refetch(job)["load"] /\ \A g \in Handlers \ {"confirm", "load"} : job'[g] = job[g]
    <1>1. job["confirm"] \in Jobs
        BY DEF JobsShape, Handlers
    <1>2. /\ job["confirm"].pc = "done" /\ job'["confirm"] = [job["confirm"] EXCEPT !.pc = "await"]
          /\ job'["load"] = Refetch(job)["load"] /\ \A g \in Handlers \ {"confirm", "load"} : job'[g] = job[g]
        BY RefetchShape DEF MemberArchived, At, JobsShape, Handlers
    <1>3. /\ [job["confirm"] EXCEPT !.pc = "await"].pc = "await"
          /\ [job["confirm"] EXCEPT !.pc = "await"].left = job["confirm"].left
          /\ [job["confirm"] EXCEPT !.pc = "await"].seen = job["confirm"].seen
        BY <1>1 DEF Jobs
    <1> QED BY <1>2, <1>3

\* The members are fetched again, and handler h ends.
LEMMA Refetched ==
    ASSUME JobsShape, NEW h \in Handlers \ {"load"}, job' = [Refetch(job) EXCEPT ![h] = Idle]
    PROVE  /\ job'[h] = Idle /\ job'["load"] = Refetch(job)["load"]
           /\ \A g \in Handlers \ {h, "load"} : job'[g] = job[g]
    BY RefetchShape DEF JobsShape, Handlers

\* A preference is chosen.
LEMMA Preferred ==
    ASSUME Shape, NEW h \in Handlers, NEW f \in Fields, NEW v \in Values, Prefer(h, f, v)
    PROVE  /\ job' \in [Handlers -> Jobs] /\ job[h].pc = "idle"
           /\ [ctx EXCEPT ![f] = v] \in Values2 /\ job'[h] = Saving([ctx EXCEPT ![f] = v], {f})
           /\ job'[h].pc = "call" /\ job'[h].left = {} /\ job'[h].seen = <<>> /\ job'[h].mode = "save"
           /\ \A g \in Handlers \ {h} :
                 /\ job'[g].pc = job[g].pc /\ job'[g].left = job[g].left /\ job'[g].seen = job[g].seen
                 /\ job'[g].ans = job[g].ans
                 /\ job'[g].mode = job[g].mode \/ job'[g].mode = "silent"
           /\ raced' = (raced \/ \E g \in Handlers \ {h} : job[g].pc # "idle") /\ sect' = sect
           /\ UNCHANGED <<rows, last, view, page, stale, missed, dialog, said>>
    <1> DEFINE c == [ctx EXCEPT ![f] = v]
               j == Saving(c, {f})
    <1>1. c \in Values2 /\ {f} \in SUBSET Fields /\ \A g \in Handlers : job[g] \in Jobs
        BY DEF Shape, ServerShape, JobsShape, Values2
    <1>2. j \in Jobs
        BY <1>1, SavingShape DEF Modes
    <1>3. j.pc = "call" /\ j.left = {} /\ j.seen = <<>> /\ j.mode = "save"
        BY DEF Saving, Call, Idle
    <1>4. job' = [Silenced EXCEPT ![h] = j]
        BY DEF Prefer
    <1> HIDE DEF j
    <1>5. /\ DOMAIN Silenced = Handlers
          /\ \A g \in Handlers : /\ Silenced[g] \in Jobs
                                /\ Silenced[g].pc = job[g].pc /\ Silenced[g].left = job[g].left
                                /\ Silenced[g].seen = job[g].seen /\ Silenced[g].ans = job[g].ans
                                /\ (Silenced[g].mode = job[g].mode \/ Silenced[g].mode = "silent")
        <2>1. DOMAIN Silenced = Handlers
            BY DEF Silenced
        <2>2. ASSUME NEW g \in Handlers
              PROVE  /\ Silenced[g] \in Jobs
                     /\ Silenced[g].pc = job[g].pc /\ Silenced[g].left = job[g].left
                     /\ Silenced[g].seen = job[g].seen /\ Silenced[g].ans = job[g].ans
                     /\ (Silenced[g].mode = job[g].mode \/ Silenced[g].mode = "silent")
            <3>1. Silenced[g] = job[g] \/ Silenced[g] = [job[g] EXCEPT !.mode = "silent"]
                BY DEF Silenced
            <3>2. job[g] \in Jobs /\ "silent" \in Modes
                BY <1>1 DEF Modes
            <3>3. /\ [job[g] EXCEPT !.mode = "silent"] \in Jobs
                  /\ [job[g] EXCEPT !.mode = "silent"].pc = job[g].pc
                  /\ [job[g] EXCEPT !.mode = "silent"].left = job[g].left
                  /\ [job[g] EXCEPT !.mode = "silent"].seen = job[g].seen
                  /\ [job[g] EXCEPT !.mode = "silent"].ans = job[g].ans
                  /\ [job[g] EXCEPT !.mode = "silent"].mode = "silent"
                BY <3>2 DEF Jobs
            <3> QED BY <3>1, <3>2, <3>3
        <2> QED BY <2>1, <2>2
    <1>6. job' = [g \in Handlers |-> IF g = h THEN j ELSE Silenced[g]]
        <2>1. [Silenced EXCEPT ![h] = j] = [g \in DOMAIN Silenced |-> IF g = h THEN j ELSE Silenced[g]]
            OBVIOUS
        <2> QED BY <1>4, <1>5, <2>1
    <1>7. /\ job[h].pc = "idle" /\ raced' = (raced \/ \E g \in Handlers \ {h} : job[g].pc # "idle") /\ sect' = sect
          /\ UNCHANGED <<rows, last, view, page, stale, missed, dialog, said>>
        BY DEF Prefer, Free, table
    <1> QED BY <1>1, <1>2, <1>3, <1>5, <1>6, <1>7 DEF j

\* A list without a row, with a mark, or one longer: still a list.
LEMMA ServeShape ==
    /\ rows \in Seq(Row) => \A i : Without(rows, i) \in Seq(Row)
    /\ rows \in Seq(Row) => \A i : \A m \in BOOLEAN : Mark(rows, i, m) \in Seq(Row)
    /\ rows \in Seq(Row) /\ last \in Nat => Append(rows, [id |-> last + 1, marked |-> FALSE]) \in Seq(Row)
    <1>1. rows \in Seq(Row) => \A i : Without(rows, i) \in Seq(Row)
        BY WithoutRows
    <1>2. rows \in Seq(Row) => \A i : \A m \in BOOLEAN : Mark(rows, i, m) \in Seq(Row)
        BY MarkRows
    <1>3. last \in Nat => [id |-> last + 1, marked |-> FALSE] \in Row
        BY DEF Row
    <1> QED BY <1>1, <1>2, <1>3, AppendRows

\* What a client shows of an answer, and what it asks for next.
LEMMA ShownShape ==
    ASSUME Shape, NEW h \in Handlers, job[h].pc = "listed", sect \in Tables
    PROVE  Shown(h) \in Seq(Row) /\ Token(h) \in Nat
    <1>1. sect \notin Forms
        BY Apart
    <1>2. job[h].ans \in Seq(Row) /\ job[h].from \in Nat
        BY <1>1 DEF Shape, JobsShape, Jobs
    <1>3. view \o job[h].ans \in Seq(Row)
        BY <1>2, ConcatProperties DEF Shape, ServerShape
    <1> QED BY <1>2, <1>3 DEF Shown, Token

\* The context takes new values.
LEMMA TakenShape ==
    ASSUME ServerShape, NEW c \in Values2, TakeContext(c)
    PROVE  ctx' \in Values2 /\ form' \in Values2 /\ own' \in Values
    BY DEF ServerShape, TakeContext, Synced, InEffect, Values2, Fields

LEMMA FirstShape ==
    LET j == List([Idle EXCEPT !.mode = "first"]) IN
    j \in Jobs /\ j.pc = "list" /\ j.left = {} /\ j.seen = <<>> /\ j.mode = "first"
    <1> DEFINE k == [Idle EXCEPT !.mode = "first"]
    <1>1. k \in Jobs /\ k.left = {} /\ k.seen = <<>> /\ k.mode = "first"
        BY IdleShape DEF Idle, Jobs, Modes
    <1> HIDE DEF k
    <1>2. /\ [k EXCEPT !.pc = "list"] \in Jobs /\ [k EXCEPT !.pc = "list"].pc = "list"
          /\ [k EXCEPT !.pc = "list"].left = {} /\ [k EXCEPT !.pc = "list"].seen = <<>>
          /\ [k EXCEPT !.pc = "list"].mode = "first"
        BY <1>1 DEF Jobs, Pcs
    <1> QED BY <1>2 DEF k, List

LEMMA ShapeInit == Init => Shape
    <1> SUFFICES ASSUME Init PROVE Shape
        OBVIOUS
    <1>1. rows \in Seq(Row)
        <2>1. <<>> \in Seq(Row)
            OBVIOUS
        <2>2. sect \in Tables => rows \in [1..2 -> Row]
            BY DEF Init, Row
        <2>3. [1..2 -> Row] \subseteq Seq(Row)
            BY 2 \in Nat, SeqDef
        <2>4. sect \notin Tables => rows = <<>>
            BY DEF Init
        <2> QED BY <2>1, <2>2, <2>3, <2>4
    <1>2. set \in Values2 /\ ctx \in Values2 /\ form \in Values2 /\ own \in Values
        BY EmptyShape DEF Init, Values2, Values, Fields
    <1>3. ServerShape
        BY <1>1, <1>2 DEF Init, ServerShape
    <1>4. DialogShape
        BY DEF Init, DialogShape, NoDialog, Modes, Names
    <1>5. JobsShape
        <2>1. List(Idle) \in Jobs /\ List(Idle).pc = "list" /\ Idle \in Jobs /\ Idle.pc = "idle"
            BY IdleShape, ListShape
        <2>2. /\ List([Idle EXCEPT !.mode = "first"]) \in Jobs
              /\ List([Idle EXCEPT !.mode = "first"]).pc = "list"
            BY FirstShape
        <2> QED BY <2>1, <2>2 DEF Init, JobsShape
    <1> QED BY <1>3, <1>4, <1>5 DEF Init, Shape, FlagsShape

LEMMA ShapeStep == Shape /\ [Next]_vars => Shape'
    <1> SUFFICES ASSUME Shape, [Next]_vars PROVE Shape'
        OBVIOUS
    <1> USE DEF table, forms
    <1>0. CASE UNCHANGED vars
        BY <1>0 DEF vars, Shape, ServerShape, DialogShape, JobsShape, FlagsShape
    <1>j. \A h \in Handlers : job[h] \in Jobs /\ job[h].pc \in Pcs /\ job[h].ids \in SUBSET Names /\ job[h].mode \in Modes
        BY DEF Shape, JobsShape, Jobs
    <1>s. ServerShape /\ DialogShape /\ JobsShape /\ FlagsShape
        BY DEF Shape
    <1>n. NoDialog \in [kind : {"none", "confirm", "submit"}, mode : Modes, id : Names]
        BY DEF NoDialog, Modes, Names
    <1>l. {"done", "refused", "idle", "await"} \subseteq Pcs \ {"listed"}
        BY DEF Pcs
    <1>1. ASSUME NEW h \in Handlers, ServeMark(h) PROVE Shape'
        <2>1. JobsShape'
            BY <1>1, <1>s, <1>l, GotoShape DEF ServeMark
        <2>2. rows' \in Seq(Row)
            BY <1>1, <1>s, ServeShape DEF ServeMark, ServerShape
        <2> QED BY <1>1, <2>1, <2>2 DEF ServeMark, Shape, ServerShape, DialogShape, FlagsShape
    <1>2. ASSUME NEW h \in Handlers, ServeCreate(h) PROVE Shape'
        <2>1. JobsShape'
            BY <1>2, <1>s, <1>l, GotoShape DEF ServeCreate
        <2>2. rows' \in Seq(Row) /\ last' \in Nat
            BY <1>2, <1>s, ServeShape DEF ServeCreate, ServerShape
        <2> QED BY <1>2, <2>1, <2>2 DEF ServeCreate, Shape, ServerShape, DialogShape, FlagsShape
    <1>3. ASSUME NEW h \in Handlers, ServeSave(h) PROVE Shape'
        <2>1. JobsShape'
            BY <1>3, <1>s, <1>l, GotoShape DEF ServeSave
        <2>2. job[h].value \in Values2
            BY <1>j DEF Jobs
        <2>3. set' \in Values2 /\ blind' \in BOOLEAN
            BY <1>3, <1>s, <2>2 DEF ServeSave, ServerShape, Values2, FlagsShape
        <2> QED BY <1>3, <2>1, <2>3 DEF ServeSave, Shape, ServerShape, DialogShape, FlagsShape
    <1>4. ASSUME NEW h \in Handlers, ServeList(h) PROVE Shape'
        <2>1. JobsShape'
            BY <1>4, ListedShape
        <2> QED BY <1>4, <2>1 DEF ServeList, Shape, ServerShape, DialogShape, FlagsShape
    <1>5. ASSUME NEW h \in Handlers, Loaded(h) PROVE Shape'
        <2>1. JobsShape'
            BY <1>5, <1>s, EndShape DEF Loaded
        <2>2. view' \in Seq(Row) /\ page' \in Nat
            BY <1>5, ShownShape DEF Loaded, At
        <2> QED BY <1>5, <2>1, <2>2 DEF Loaded, Shape, ServerShape, DialogShape, FlagsShape
    <1>6. ASSUME NEW h \in Handlers, ReloadedClosing(h) PROVE Shape'
        <2>1. JobsShape'
            BY <1>6, <1>s, EndShape DEF ReloadedClosing
        <2>2. view' \in Seq(Row) /\ page' \in Nat
            BY <1>6, ShownShape DEF ReloadedClosing, At, Tables
        <2> QED BY <1>6, <1>n, <2>1, <2>2 DEF ReloadedClosing, Shape, ServerShape, DialogShape, FlagsShape
    <1>7. ASSUME NEW h \in Handlers, LoadFailed(h) PROVE Shape'
        <2>1. /\ Again(job[h]) \in Jobs /\ Again(job[h]).pc = "idle"
              /\ [List(job[h]) EXCEPT !.retried = TRUE] \in Jobs
              /\ [List(job[h]) EXCEPT !.retried = TRUE].pc = "list"
            BY <1>j, AgainShape, ListShape
        <2>2. \E j \in Jobs : job' = [job EXCEPT ![h] = j] /\ j.pc # "listed"
            BY <1>7, <1>s, <2>1 DEF LoadFailed, JobsShape
        <2>3. JobsShape'
            BY <1>7, <1>s, <2>2, Moves DEF LoadFailed
        <2> QED BY <1>7, <1>n, <2>3 DEF LoadFailed, Shape, ServerShape, DialogShape, FlagsShape
    <1>8. ASSUME NEW h \in Handlers, Saved(h) PROVE Shape'
        <2>1. Idle \in Jobs /\ Idle.pc = "idle" /\ List(job[h]) \in Jobs /\ List(job[h]).pc = "list"
            BY <1>j, IdleShape, ListShape
        <2>2. \E j \in Jobs : job' = [job EXCEPT ![h] = j] /\ j.pc # "listed"
            BY <1>8, <1>s, <2>1 DEF Saved, JobsShape
        <2>3. JobsShape'
            BY <1>8, <1>s, <2>2, Moves DEF Saved
        <2>4. job[h].value \in Values2
            BY <1>j DEF Jobs
        <2>5. ctx' \in Values2 /\ form' \in Values2 /\ own' \in Values
            BY <1>8, <1>s, <2>4, TakenShape DEF Saved
        <2>6. touched' \in SUBSET Fields
            BY <1>8, <1>s DEF Saved, Unsaved, FlagsShape
        <2> QED BY <1>8, <2>3, <2>5, <2>6 DEF Saved, Shape, ServerShape, DialogShape, FlagsShape
    <1>9. ASSUME NEW h \in Handlers, SavedFields(h) PROVE Shape'
        <2>1. Reread(h) \in Jobs /\ Reread(h).pc # "listed"
            BY <1>j, IdleShape, ListShape DEF Reread
        <2>2. JobsShape'
            BY <1>9, <1>s, <2>1, Moves DEF SavedFields
        <2>3. touched' \in SUBSET Fields
            BY <1>9, <1>s DEF SavedFields, Unsaved, FlagsShape
        <2> QED BY <1>9, <2>2, <2>3 DEF SavedFields, Shape, ServerShape, DialogShape, FlagsShape
    <1>10. ASSUME NEW h \in Handlers, Fetched(h) PROVE Shape'
        <2>1. JobsShape'
            BY <1>10, <1>s, EndShape DEF Fetched
        <2>2. job[h].ans \in Values2
            BY <1>10, <1>s DEF Fetched, At, JobsShape
        <2>3. ctx' \in Values2 /\ form' \in Values2 /\ own' \in Values
            BY <1>10, <1>s, <2>2, TakenShape DEF Fetched
        <2> QED BY <1>10, <2>1, <2>3 DEF Fetched, Shape, ServerShape, DialogShape, FlagsShape
    <1>11. ASSUME NEW h \in Handlers, SaveFailed(h) PROVE Shape'
        <2>1. JobsShape'
            <3>1. /\ [job[h] EXCEPT !.pc = "call", !.retried = TRUE] \in Jobs
                  /\ [job[h] EXCEPT !.pc = "call", !.retried = TRUE].pc = "call"
                BY <1>j DEF Jobs, Pcs
            <3>2. \E j \in Jobs : job' = [job EXCEPT ![h] = j] /\ j.pc # "listed"
                BY <1>11, <1>s, <3>1, IdleShape DEF SaveFailed, JobsShape
            <3> QED BY <1>11, <1>s, <3>2, Moves DEF SaveFailed
        <2> QED BY <1>11, <2>1 DEF SaveFailed, Shape, ServerShape, DialogShape, FlagsShape
    <1>12. ASSUME NEW h \in Handlers, NEW i \in Ids, ServeDelete(h, i) PROVE Shape'
        <2>1. JobsShape'
            BY <1>12, <1>s, DeletedShape
        <2>2. rows' \in Seq(Row)
            BY <1>12, <1>s, ServeShape DEF ServeDelete, ServerShape
        <2> QED BY <1>12, <2>1, <2>2 DEF ServeDelete, Shape, ServerShape, DialogShape, FlagsShape
    <1>t. \A h \in Handlers : job[h].ids \subseteq Names
        BY <1>j
    <1>13. CASE Deleted
        <2>1. JobsShape'
            BY <1>13, <1>s, EndShape DEF Deleted, Handlers
        <2>2. view' \in Seq(Row)
            BY <1>13, <1>j, <1>s, WithoutRows DEF Deleted, ServerShape, Jobs, Handlers
        <2> QED BY <1>13, <1>n, <1>t, <2>1, <2>2
                DEF Deleted, Told, Shape, ServerShape, DialogShape, FlagsShape, Handlers
    <1>14. CASE ShortcutDeleted
        <2>1. JobsShape'
            BY <1>14, <1>j, <1>s, ListShape, Moves DEF ShortcutDeleted, Handlers
        <2> QED BY <1>14, <1>n, <1>t, <2>1
                DEF ShortcutDeleted, Told, Shape, ServerShape, DialogShape, FlagsShape, Handlers
    <1>15. CASE ReloadAnyway
        <2>1. JobsShape'
            BY <1>15, <1>j, <1>s, ListShape, Moves DEF ReloadAnyway, Handlers
        <2>2. said' \in SUBSET Names
            BY <1>15, <1>t, <1>s DEF ReloadAnyway, Told, DialogShape, Handlers
        <2> QED BY <1>15, <2>1, <2>2 DEF ReloadAnyway, Shape, ServerShape, DialogShape, FlagsShape
    <1>16. CASE MemberArchived
        <2>1. /\ [job["confirm"] EXCEPT !.pc = "await"] \in Jobs
              /\ [job["confirm"] EXCEPT !.pc = "await"].pc = "await"
            <3>1. job["confirm"] \in Jobs /\ "await" \in Pcs
                BY <1>j DEF Handlers, Pcs
            <3>2. [job["confirm"] EXCEPT !.pc = "await"] \in Jobs
                BY <3>1, JobShape
            <3>3. [job["confirm"] EXCEPT !.pc = "await"].pc = "await"
                BY <3>1, JobFields
            <3> QED BY <3>2, <3>3
        <2>2. job' = [Refetch(job) EXCEPT !["confirm"] = [job["confirm"] EXCEPT !.pc = "await"]]
            BY <1>16, <1>s, RefetchShape DEF MemberArchived, Handlers
        <2>3. JobsShape'
            BY <1>16, <1>s, <2>1, <2>2, RefetchMoves DEF MemberArchived, Handlers
        <2> QED BY <1>16, <1>n, <2>3 DEF MemberArchived, Misses, Shape, ServerShape, DialogShape, FlagsShape
    <1>17. CASE ArchiveEnds
        <2>1. JobsShape'
            BY <1>17, <1>s, EndShape DEF ArchiveEnds, Handlers
        <2> QED BY <1>17, <1>n, <2>1 DEF ArchiveEnds, Shape, ServerShape, DialogShape, FlagsShape
    <1>18. CASE UserDeleted
        <2>1. JobsShape'
            BY <1>18, <1>s, IdleShape, RefetchMoves DEF UserDeleted, Handlers
        <2> QED BY <1>18, <2>1 DEF UserDeleted, Misses, Shape, ServerShape, DialogShape, FlagsShape
    <1>19. CASE ConfirmFailed
        <2> DEFINE j == job["confirm"]
                   k == [j EXCEPT !.pc = "call", !.retried = TRUE, !.left = j.ids]
        <2>1. j \in Jobs /\ j.ids \in SUBSET Names /\ "call" \in Pcs
            BY <1>j DEF Handlers, Pcs
        <2>2. k \in Jobs
            BY <2>1, JobShape
        <2>5. k.pc = "call"
            BY <2>1 DEF Jobs
        <2>3. job' = [job EXCEPT !["confirm"] = k] \/ job' = [job EXCEPT !["confirm"] = Idle]
            BY <1>19, <1>s DEF ConfirmFailed, JobsShape, Handlers
        <2> HIDE DEF k
        <2>4. JobsShape'
            BY <1>19, <1>s, <2>2, <2>3, <2>5, IdleShape, Moves DEF ConfirmFailed, Handlers
        <2> QED BY <1>19, <2>4 DEF ConfirmFailed, Shape, ServerShape, DialogShape, FlagsShape
    <1>20. CASE Submitted
        <2>1. JobsShape'
            <3>1. CASE sect = "members"
                BY <1>20, <3>1, <1>s, IdleShape, RefetchMoves DEF Submitted, Handlers
            <3>2. CASE sect # "members"
                <4>1. job' = [job EXCEPT !["submit"] = List(job["submit"])]
                    BY <1>20, <3>2, <1>s DEF Submitted, JobsShape, Handlers
                <4> QED BY <1>20, <4>1, <1>j, <1>s, ListShape, Moves DEF Submitted, Handlers
            <3> QED BY <3>1, <3>2
        <2> QED BY <1>20, <1>n, <2>1 DEF Submitted, Misses, Shape, ServerShape, DialogShape, FlagsShape
    <1>21. CASE SubmitFailed
        <2>1. JobsShape'
            BY <1>21, <1>s, EndShape DEF SubmitFailed, Handlers
        <2> QED BY <1>21, <2>1 DEF SubmitFailed, Shape, ServerShape, DialogShape, FlagsShape
    <1>22. CASE Restored
        <2>1. JobsShape'
            BY <1>22, <1>s, IdleShape, RefetchMoves DEF Restored, Handlers
        <2> QED BY <1>22, <2>1 DEF Restored, Misses, Shape, ServerShape, DialogShape, FlagsShape
    <1>23. CASE RowDone
        <2>1. JobsShape'
            BY <1>23, <1>s, EndShape DEF RowDone, Handlers
        <2> QED BY <1>23, <2>1 DEF RowDone, Shape, ServerShape, DialogShape, FlagsShape
    <1>24. CASE Age
        BY <1>24 DEF Age, Shape, ServerShape, DialogShape, JobsShape, FlagsShape
    <1>25. CASE Focus
        <2>1. JobsShape'
            BY <1>25, <1>s, RefetchShape DEF Focus, JobsShape
        <2> QED BY <1>25, <2>1 DEF Focus, Misses, Shape, ServerShape, DialogShape, FlagsShape
    <1>26. CASE OpenCreate
        <2>1. dialog' \in [kind : {"none", "confirm", "submit"}, mode : Modes, id : Names]
            BY <1>26 DEF OpenCreate, Modes, Names
        <2> QED BY <1>26, <2>1 DEF OpenCreate, Shape, ServerShape, DialogShape, JobsShape, FlagsShape
    <1>27. CASE Cancel
        BY <1>27, <1>n DEF Cancel, Shape, ServerShape, DialogShape, JobsShape, FlagsShape
    <1>28. CASE Confirm
        <2> DEFINE j == [Call(dialog.mode) EXCEPT !.ids = {dialog.id}, !.seen = view,
                           !.left = IF dialog.mode = "delete" THEN {dialog.id} ELSE {}]
        <2>1. dialog.mode \in Modes /\ dialog.id \in Names /\ view \in Seq(Row)
            BY <1>s DEF DialogShape, ServerShape
        <2>2. j \in Jobs
            BY <2>1, CallShape
        <2>3. j.pc = "call"
            BY DEF Call, Idle
        <2> HIDE DEF j
        <2>4. Begin("confirm", j)
            BY <1>28 DEF Confirm, j
        <2>5. JobsShape' /\ raced' \in BOOLEAN
            BY <1>28, <1>s, <2>2, <2>3, <2>4, BeginShape DEF Confirm, Handlers
        <2> QED BY <1>28, <2>5 DEF Confirm, Shape, ServerShape, DialogShape, FlagsShape
    <1>29. CASE ConfirmDeleteUser
        <2> DEFINE j == [Call("delete") EXCEPT !.ids = {dialog.id}, !.left = {dialog.id}]
        <2>1. dialog.id \in Names /\ "delete" \in Modes
            BY <1>s DEF DialogShape, Modes
        <2>2. j \in Jobs
            BY <2>1, CallShape
        <2>3. j.pc = "call"
            BY DEF Call, Idle
        <2> HIDE DEF j
        <2>4. Begin("confirm", j)
            BY <1>29 DEF ConfirmDeleteUser, j
        <2>5. JobsShape' /\ raced' \in BOOLEAN
            BY <1>29, <1>s, <2>2, <2>3, <2>4, BeginShape DEF ConfirmDeleteUser, Handlers
        <2> QED BY <1>29, <1>n, <2>1, <2>5 DEF ConfirmDeleteUser, Shape, ServerShape, DialogShape, FlagsShape
    <1>30. CASE DeleteUnused
        <2> DEFINE j == [Call("delete") EXCEPT !.ids = Unused, !.left = Unused]
        <2>1. Unused \in SUBSET Names
            <3>1. \A n \in DOMAIN view : view[n].id \in Nat
                BY <1>s, ListDomain DEF ServerShape, Row
            <3> QED BY <3>1 DEF Unused, Names
        <2>2. j \in Jobs
            BY <2>1, CallShape DEF Modes
        <2>3. j.pc = "call"
            BY DEF Call, Idle
        <2> HIDE DEF j
        <2>4. Begin("confirm", j)
            BY <1>30 DEF DeleteUnused, j
        <2>5. JobsShape' /\ raced' \in BOOLEAN
            BY <1>30, <1>s, <2>2, <2>3, <2>4, BeginShape DEF DeleteUnused, Handlers
        <2>6. dialog' \in [kind : {"none", "confirm", "submit"}, mode : Modes, id : Names]
            BY <1>30 DEF DeleteUnused, Modes, Names
        <2> QED BY <1>30, <2>5, <2>6 DEF DeleteUnused, Shape, ServerShape, DialogShape, FlagsShape
    <1>31. CASE Submit
        <2> DEFINE j == [Call(dialog.mode) EXCEPT !.ids = IF dialog.id = None THEN {} ELSE {dialog.id}]
        <2>1. dialog.mode \in Modes /\ dialog.id \in Names
            BY <1>s DEF DialogShape
        <2>2. j \in Jobs
            BY <2>1, CallShape
        <2>3. j.pc = "call"
            BY DEF Call, Idle
        <2> HIDE DEF j
        <2>4. Begin("submit", j)
            BY <1>31 DEF Submit, j
        <2>5. JobsShape' /\ raced' \in BOOLEAN
            BY <1>31, <1>s, <2>2, <2>3, <2>4, BeginShape DEF Submit, Handlers
        <2> QED BY <1>31, <2>5 DEF Submit, Shape, ServerShape, DialogShape, FlagsShape
    <1>32. CASE More
        <2> DEFINE j == [List(Idle) EXCEPT !.mode = "more", !.from = page]
        <2>1. List(Idle) \in Jobs /\ List(Idle).pc = "list" /\ page \in Nat
            BY <1>s, IdleShape, ListShape DEF ServerShape
        <2>2. j \in Jobs /\ j.pc = "list"
            BY <2>1 DEF Jobs, Modes
        <2> HIDE DEF j
        <2>4. Begin("row", j)
            BY <1>32 DEF More, j
        <2>5. JobsShape' /\ raced' \in BOOLEAN
            BY <1>32, <1>s, <2>2, <2>4, BeginShape DEF More, Handlers
        <2> QED BY <1>32, <2>5 DEF More, Shape, ServerShape, DialogShape, FlagsShape
    <1>v. "save" \in Modes /\ form \in Values2 /\ Fields \in SUBSET Fields /\ Masked \in SUBSET Fields
        BY <1>s DEF Modes, ServerShape, Masked
    <1>33. CASE Save
        <2>1. Saving(form, Fields) \in Jobs /\ Saving(form, Fields).pc = "call"
            BY <1>v, SavingShape DEF Saving, Call, Idle
        <2>2. JobsShape' /\ raced' \in BOOLEAN
            BY <1>33, <1>s, <2>1, BeginShape DEF Save, Handlers
        <2> QED BY <1>33, <2>2 DEF Save, Shape, ServerShape, DialogShape, FlagsShape
    <1>34. CASE SaveAccount
        <2>1. Saving(form, Masked) \in Jobs /\ Saving(form, Masked).pc = "call"
            BY <1>v, SavingShape DEF Saving, Call, Idle
        <2>2. JobsShape' /\ raced' \in BOOLEAN
            BY <1>34, <1>s, <2>1, BeginShape DEF SaveAccount, Handlers
        <2> QED BY <1>34, <2>2 DEF SaveAccount, Shape, ServerShape, DialogShape, FlagsShape
    <1>35. CASE SaveProfile
        <2>0. [ctx EXCEPT !["a"] = own] \in Values2
            BY <1>s DEF ServerShape, Values2, Fields
        <2>1. Saving([ctx EXCEPT !["a"] = own], Fields) \in Jobs /\ Saving([ctx EXCEPT !["a"] = own], Fields).pc = "call"
            BY <1>v, <2>0, SavingShape DEF Saving, Call, Idle
        <2>2. JobsShape' /\ raced' \in BOOLEAN
            BY <1>35, <1>s, <2>1, BeginShape DEF SaveProfile, Handlers
        <2> QED BY <1>35, <2>2 DEF SaveProfile, Shape, ServerShape, DialogShape, FlagsShape
    <1>36. ASSUME NEW h \in Handlers, Lose(h) PROVE Shape'
        <2>1. JobsShape'
            BY <1>36, <1>s, LoseShape
        <2> QED BY <1>36, <2>1 DEF Lose, Shape, ServerShape, DialogShape, FlagsShape
    <1>37. ASSUME NEW i \in Ids, OtherDelete(i) PROVE Shape'
        <2>1. rows' \in Seq(Row)
            BY <1>37, <1>s, ServeShape DEF OtherDelete, ServerShape
        <2> QED BY <1>37, <2>1 DEF OtherDelete, Shape, ServerShape, DialogShape, JobsShape, FlagsShape
    <1>38. ASSUME NEW i \in Ids, OtherMark(i) PROVE Shape'
        <2>1. rows' \in Seq(Row)
            BY <1>38, <1>s, ServeShape DEF OtherMark, ServerShape
        <2> QED BY <1>38, <2>1 DEF OtherMark, Shape, ServerShape, DialogShape, JobsShape, FlagsShape
    <1>39. ASSUME NEW i \in Ids, NEW mode \in Modes, Open(mode, i) PROVE Shape'
        <2>1. i \in Names
            BY SettingsAssumption DEF Ids, Names
        <2>2. dialog' \in [kind : {"none", "confirm", "submit"}, mode : Modes, id : Names]
            BY <1>39, <2>1 DEF Open
        <2> QED BY <1>39, <2>2 DEF Open, Shape, ServerShape, DialogShape, JobsShape, FlagsShape
    <1>40. ASSUME NEW i \in Ids, NEW mode \in Modes, RowButton(mode, i) PROVE Shape'
        <2> DEFINE j == [Call(mode) EXCEPT !.ids = {i}, !.left = IF mode = "delete" THEN {i} ELSE {}]
        <2>1. i \in Names
            BY SettingsAssumption DEF Ids, Names
        <2>2. j \in Jobs
            BY <2>1, CallShape
        <2>3. j.pc = "call"
            BY DEF Call, Idle
        <2> HIDE DEF j
        <2>4. Begin("row", j)
            BY <1>40 DEF RowButton, j
        <2>5. JobsShape' /\ raced' \in BOOLEAN
            BY <1>40, <1>s, <2>2, <2>3, <2>4, BeginShape DEF RowButton, Handlers
        <2> QED BY <1>40, <2>5 DEF RowButton, Shape, ServerShape, DialogShape, FlagsShape
    <1>41. ASSUME NEW v \in Values, EditProfile(v) PROVE Shape'
        BY <1>41 DEF EditProfile, Shape, ServerShape, DialogShape, JobsShape, FlagsShape, Fields
    <1>42. ASSUME NEW v \in Values, NEW f \in Fields, Edit(f, v) PROVE Shape'
        <2>1. form' \in Values2
            BY <1>42, <1>s DEF Edit, ServerShape, Values2
        <2> QED BY <1>42, <2>1 DEF Edit, Shape, ServerShape, DialogShape, JobsShape, FlagsShape
    <1>43. ASSUME NEW v \in Values, NEW f \in Fields, OtherSave(f, v) PROVE Shape'
        <2>1. set' \in Values2
            BY <1>43, <1>s DEF OtherSave, ServerShape, Values2
        <2> QED BY <1>43, <2>1 DEF OtherSave, Shape, ServerShape, DialogShape, JobsShape, FlagsShape
    <1>44. ASSUME NEW v \in Values, NEW f \in Fields, NEW h \in Handlers, Prefer(h, f, v)
           PROVE  Shape'
        <2>1. job' \in [Handlers -> Jobs] /\ raced' \in BOOLEAN /\ sect' = sect
            BY <1>44, <1>s, Preferred DEF FlagsShape
        <2>2. JobsShape'
            BY <1>44, <1>s, <2>1, Preferred DEF JobsShape
        <2> QED BY <1>44, <2>1, <2>2 DEF Prefer, Shape, ServerShape, DialogShape, FlagsShape
    <1>45. ASSUME NEW v \in Values, NEW f \in Fields, PreferMenu(f, v)
           PROVE  Shape'
        <2> DEFINE j == [Saving([ctx EXCEPT ![f] = v], {f}) EXCEPT !.mode = "menu"]
        <2>1. [ctx EXCEPT ![f] = v] \in Values2 /\ "menu" \in Modes /\ {f} \in SUBSET Fields
            BY <1>s DEF ServerShape, Values2, Modes
        <2>2. j \in Jobs
            BY <2>1, SavingShape
        <2>3. j.pc = "call"
            BY DEF Saving, Call, Idle
        <2> HIDE DEF j
        <2>4. Begin("submit", j)
            BY <1>45 DEF PreferMenu, j
        <2>5. JobsShape' /\ raced' \in BOOLEAN
            BY <1>45, <1>s, <2>2, <2>3, <2>4, BeginShape DEF PreferMenu, Handlers
        <2> QED BY <1>45, <2>5 DEF PreferMenu, Shape, ServerShape, DialogShape, FlagsShape
    <1> QED
        BY <1>0, <1>1, <1>2, <1>3, <1>4, <1>5, <1>6, <1>7, <1>8, <1>9, <1>10, <1>11, <1>12, <1>13, <1>14, <1>15,
           <1>16, <1>17, <1>18, <1>19, <1>20, <1>21, <1>22, <1>23, <1>24, <1>25, <1>26, <1>27, <1>28, <1>29,
           <1>30, <1>31, <1>32, <1>33, <1>34, <1>35, <1>36, <1>37, <1>38, <1>39, <1>40, <1>41, <1>42, <1>43, <1>44, <1>45
        DEF Next, Progress, Choices

\* Every part of the state has the values that the section on display gives it.
THEOREM Shaped == Spec => []Shape
    <1> QED BY ShapeInit, ShapeStep, PTL DEF Spec

(* ---- one handler at a time ---- *)
\* The section stays, and what has happened has happened.
LEMMA SectStays == [Next]_vars => sect' = sect /\ (blind => blind') /\ (raced => raced')
    <1> SUFFICES ASSUME [Next]_vars PROVE sect' = sect /\ (blind => blind') /\ (raced => raced')
        OBVIOUS
    <1>0. CASE UNCHANGED vars
        BY <1>0 DEF vars
    <1>1. ASSUME NEW h \in Handlers, ServeMark(h) PROVE sect' = sect /\ (blind => blind') /\ (raced => raced')
        BY <1>1 DEF ServeMark, Begin
    <1>2. ASSUME NEW h \in Handlers, ServeCreate(h) PROVE sect' = sect /\ (blind => blind') /\ (raced => raced')
        BY <1>2 DEF ServeCreate, Begin
    <1>3. ASSUME NEW h \in Handlers, ServeSave(h) PROVE sect' = sect /\ (blind => blind') /\ (raced => raced')
        BY <1>3 DEF ServeSave, Begin
    <1>4. ASSUME NEW h \in Handlers, ServeList(h) PROVE sect' = sect /\ (blind => blind') /\ (raced => raced')
        BY <1>4 DEF ServeList, Begin
    <1>5. ASSUME NEW h \in Handlers, Loaded(h) PROVE sect' = sect /\ (blind => blind') /\ (raced => raced')
        BY <1>5 DEF Loaded, Begin
    <1>6. ASSUME NEW h \in Handlers, LoadFailed(h) PROVE sect' = sect /\ (blind => blind') /\ (raced => raced')
        BY <1>6 DEF LoadFailed, Begin
    <1>7. ASSUME NEW h \in Handlers, ReloadedClosing(h)
          PROVE  sect' = sect /\ (blind => blind') /\ (raced => raced')
        BY <1>7 DEF ReloadedClosing, Begin
    <1>8. ASSUME NEW h \in Handlers, Saved(h) PROVE sect' = sect /\ (blind => blind') /\ (raced => raced')
        BY <1>8 DEF Saved, Begin
    <1>9. ASSUME NEW h \in Handlers, SavedFields(h) PROVE sect' = sect /\ (blind => blind') /\ (raced => raced')
        BY <1>9 DEF SavedFields, Begin
    <1>10. ASSUME NEW h \in Handlers, Fetched(h) PROVE sect' = sect /\ (blind => blind') /\ (raced => raced')
        BY <1>10 DEF Fetched, Begin
    <1>11. ASSUME NEW h \in Handlers, SaveFailed(h) PROVE sect' = sect /\ (blind => blind') /\ (raced => raced')
        BY <1>11 DEF SaveFailed, Begin
    <1>12. ASSUME NEW h \in Handlers, Lose(h) PROVE sect' = sect /\ (blind => blind') /\ (raced => raced')
        BY <1>12 DEF Lose, Begin
    <1>13. ASSUME NEW h \in Handlers, NEW i \in Ids, ServeDelete(h, i)
           PROVE  sect' = sect /\ (blind => blind') /\ (raced => raced')
        BY <1>13 DEF ServeDelete, Begin
    <1>14. CASE Deleted
        BY <1>14 DEF Deleted, Begin
    <1>15. CASE ShortcutDeleted
        BY <1>15 DEF ShortcutDeleted, Begin
    <1>16. CASE ReloadAnyway
        BY <1>16 DEF ReloadAnyway, Begin
    <1>17. CASE MemberArchived
        BY <1>17 DEF MemberArchived, Begin
    <1>18. CASE ArchiveEnds
        BY <1>18 DEF ArchiveEnds, Begin
    <1>19. CASE UserDeleted
        BY <1>19 DEF UserDeleted, Begin
    <1>20. CASE ConfirmFailed
        BY <1>20 DEF ConfirmFailed, Begin
    <1>21. CASE Submitted
        BY <1>21 DEF Submitted, Begin
    <1>22. CASE SubmitFailed
        BY <1>22 DEF SubmitFailed, Begin
    <1>23. CASE Restored
        BY <1>23 DEF Restored, Begin
    <1>24. CASE RowDone
        BY <1>24 DEF RowDone, Begin
    <1>25. CASE Age
        BY <1>25 DEF Age, Begin
    <1>26. CASE Focus
        BY <1>26 DEF Focus, Begin
    <1>27. CASE OpenCreate
        BY <1>27 DEF OpenCreate, Begin
    <1>28. CASE Cancel
        BY <1>28 DEF Cancel, Begin
    <1>29. CASE Confirm
        BY <1>29 DEF Confirm, Begin
    <1>30. CASE ConfirmDeleteUser
        BY <1>30 DEF ConfirmDeleteUser, Begin
    <1>31. CASE DeleteUnused
        BY <1>31 DEF DeleteUnused, Begin
    <1>32. CASE Submit
        BY <1>32 DEF Submit, Begin
    <1>33. CASE More
        BY <1>33 DEF More, Begin
    <1>34. CASE Save
        BY <1>34 DEF Save, Begin
    <1>35. CASE SaveAccount
        BY <1>35 DEF SaveAccount, Begin
    <1>36. CASE SaveProfile
        BY <1>36 DEF SaveProfile, Begin
    <1>37. ASSUME NEW i \in Ids, OtherDelete(i) PROVE sect' = sect /\ (blind => blind') /\ (raced => raced')
        BY <1>37 DEF OtherDelete, Begin
    <1>38. ASSUME NEW i \in Ids, OtherMark(i) PROVE sect' = sect /\ (blind => blind') /\ (raced => raced')
        BY <1>38 DEF OtherMark, Begin
    <1>39. ASSUME NEW i \in Ids, NEW mode \in Modes, Open(mode, i)
           PROVE  sect' = sect /\ (blind => blind') /\ (raced => raced')
        BY <1>39 DEF Open, Begin
    <1>40. ASSUME NEW i \in Ids, NEW mode \in Modes, RowButton(mode, i)
           PROVE  sect' = sect /\ (blind => blind') /\ (raced => raced')
        BY <1>40 DEF RowButton, Begin
    <1>41. ASSUME NEW v \in Values, EditProfile(v) PROVE sect' = sect /\ (blind => blind') /\ (raced => raced')
        BY <1>41 DEF EditProfile, Begin
    <1>42. ASSUME NEW v \in Values, NEW f \in Fields, Edit(f, v)
           PROVE  sect' = sect /\ (blind => blind') /\ (raced => raced')
        BY <1>42 DEF Edit, Begin
    <1>43. ASSUME NEW v \in Values, NEW f \in Fields, OtherSave(f, v)
           PROVE  sect' = sect /\ (blind => blind') /\ (raced => raced')
        BY <1>43 DEF OtherSave, Begin
    <1>44. ASSUME NEW v \in Values, NEW f \in Fields, NEW h \in Handlers, Prefer(h, f, v)
           PROVE  sect' = sect /\ (blind => blind') /\ (raced => raced')
        BY <1>44 DEF Prefer, Silenced, Begin
    <1>45. ASSUME NEW v \in Values, NEW f \in Fields, PreferMenu(f, v)
           PROVE  sect' = sect /\ (blind => blind') /\ (raced => raced')
        BY <1>45 DEF PreferMenu, Begin
    <1> QED
        BY <1>0, <1>1, <1>2, <1>3, <1>4, <1>5, <1>6, <1>7, <1>8, <1>9, <1>10, <1>11, <1>12, <1>13,
           <1>14, <1>15, <1>16, <1>17, <1>18, <1>19, <1>20, <1>21, <1>22, <1>23, <1>24, <1>25,
           <1>26, <1>27, <1>28, <1>29, <1>30, <1>31, <1>32, <1>33, <1>34, <1>35, <1>36, <1>37,
           <1>38, <1>39, <1>40, <1>41, <1>42, <1>43, <1>44, <1>45
        DEF Next, Progress, Choices

\* Until two overlap, at most one handler is under way; but for the queries, which are fetched
\* again by themselves.  A handler that is not under way has nothing to delete.
Alone ==
    /\ (sect \notin Queries /\ ~raced) => \A g, h \in Handlers : Free(g) \/ Free(h) \/ g = h
    /\ \A h \in Handlers : Free(h) => job[h].left = {}

LEMMA AloneMoves ==
    ASSUME Alone, NEW h \in Handlers, ~Free(h), \A g \in Handlers \ {h} : job'[g] = job[g],
           job'[h] = Idle \/ job'[h].pc # "idle" \/ job'[h].left = {}, raced' = raced, sect' = sect
    PROVE  Alone'
    BY IdleShape DEF Alone, Free

LEMMA AloneBegins ==
    ASSUME Alone, JobsShape, NEW h \in Handlers, NEW j, Begin(h, j), j.pc # "idle", sect' = sect
    PROVE  Alone'
    BY DEF Alone, Begin, Free, JobsShape

LEMMA AloneRefetches ==
    ASSUME Alone, sect \in Queries, NEW h \in Handlers \ {"load"},
           job'[h] = Idle \/ job'[h].pc # "idle" \/ job'[h] = job[h], job'["load"].pc # "idle",
           \A g \in Handlers \ {h, "load"} : job'[g] = job[g], sect' = sect
    PROVE  Alone'
    BY ListShape, IdleShape DEF Alone, Free

LEMMA AloneStays ==
    ASSUME Alone, UNCHANGED <<job, raced, sect>>
    PROVE  Alone'
    BY DEF Alone, Free

LEMMA AloneInit == Init => Alone
    <1>1. /\ Idle.left = {} /\ Idle.pc = "idle" /\ List(Idle).pc = "list"
          /\ List([Idle EXCEPT !.mode = "first"]).pc = "list"
        BY IdleShape, ListShape, FirstShape
    <1> QED BY <1>1 DEF Init, Alone, Free, Handlers

LEMMA AloneStep == Shape /\ Alone /\ [Next]_vars => Alone'
    <1> SUFFICES ASSUME Shape, JobsShape, Alone, [Next]_vars PROVE Alone'
        BY DEF Shape
    <1>r. \A h \in Handlers : job[h] \in Jobs
        BY DEF JobsShape
    <1>0. CASE UNCHANGED vars
        BY <1>0, AloneStays DEF vars
    <1>1. ASSUME NEW h \in Handlers, ServeMark(h) PROVE Alone'
        BY <1>1, <1>r, AloneMoves DEF ServeMark, Goto, At, Free, JobsShape, Jobs
    <1>2. ASSUME NEW h \in Handlers, ServeCreate(h) PROVE Alone'
        BY <1>2, <1>r, AloneMoves DEF ServeCreate, Goto, At, Free, JobsShape, Jobs
    <1>3. ASSUME NEW h \in Handlers, ServeSave(h) PROVE Alone'
        BY <1>3, <1>r, AloneMoves DEF ServeSave, Goto, At, Free, JobsShape, Jobs
    <1>4. ASSUME NEW h \in Handlers, ServeList(h) PROVE Alone'
        BY <1>4, <1>r, ListShape, AloneMoves DEF ServeList, Reread, At, Free, Handlers, JobsShape, Jobs
    <1>5. ASSUME NEW h \in Handlers, Loaded(h) PROVE Alone'
        BY <1>5, AloneMoves DEF Loaded, End, At, Free, Handlers, JobsShape
    <1>6. ASSUME NEW h \in Handlers, LoadFailed(h) PROVE Alone'
        <2>1. job'[h].pc # "idle" \/ job'[h].left = {}
            BY <1>6, <1>r, ListShape, AgainShape DEF LoadFailed, JobsShape
        <2> QED BY <1>6, <2>1, AloneMoves DEF LoadFailed, At, Free, JobsShape
    <1>7. ASSUME NEW h \in Handlers, ReloadedClosing(h) PROVE Alone'
        BY <1>7, AloneMoves DEF ReloadedClosing, End, At, Free, Handlers, JobsShape
    <1>8. ASSUME NEW h \in Handlers, Saved(h) PROVE Alone'
        BY <1>8, <1>r, ListShape, AloneMoves DEF Saved, Reread, At, Free, Handlers, JobsShape, Jobs
    <1>9. ASSUME NEW h \in Handlers, SavedFields(h) PROVE Alone'
        BY <1>9, <1>r, ListShape, AloneMoves DEF SavedFields, Reread, At, Free, Handlers, JobsShape, Jobs
    <1>10. ASSUME NEW h \in Handlers, Fetched(h) PROVE Alone'
        BY <1>10, AloneMoves DEF Fetched, End, At, Free, Handlers, JobsShape
    <1>11. ASSUME NEW h \in Handlers, SaveFailed(h) PROVE Alone'
        <2>1. [job[h] EXCEPT !.pc = "call", !.retried = TRUE].pc = "call"
            BY <1>r DEF Jobs
        <2>2. job'[h] = Idle \/ job'[h].pc # "idle"
            BY <1>11, <2>1 DEF SaveFailed, JobsShape
        <2> QED BY <1>11, <2>2, AloneMoves DEF SaveFailed, At, Free, JobsShape
    <1>12. ASSUME NEW h \in Handlers, Lose(h) PROVE Alone'
        BY <1>12, Lost, AloneMoves DEF Lose, Free
    <1>13. ASSUME NEW h \in Handlers, NEW i \in Ids, ServeDelete(h, i) PROVE Alone'
        <2>1. ~Free(h)
            BY <1>13 DEF ServeDelete, Alone
        <2>2. job'[h].pc # "idle"
            BY <1>13, <2>1, Served DEF Free
        <2> QED BY <1>13, <2>1, <2>2, Served, AloneMoves DEF ServeDelete
    <1>14. CASE Deleted
        BY <1>14, AloneMoves DEF Deleted, End, At, Free, Handlers, JobsShape
    <1>15. CASE ShortcutDeleted
        BY <1>15, <1>r, ListShape, AloneMoves DEF ShortcutDeleted, Reread, At, Free, Handlers, JobsShape, Jobs
    <1>16. CASE ReloadAnyway
        BY <1>16, <1>r, ListShape, AloneMoves DEF ReloadAnyway, Reread, At, Free, Handlers, JobsShape, Jobs
    <1>17. CASE MemberArchived
        BY <1>17, Archived, RefetchShape, AloneRefetches DEF MemberArchived, Queries, Handlers
    <1>18. CASE ArchiveEnds
        BY <1>18, AloneMoves DEF ArchiveEnds, End, At, Free, Handlers, JobsShape
    <1>19. CASE UserDeleted
        <2>1. job' = [Refetch(job) EXCEPT !["confirm"] = Idle] /\ sect = "members" /\ sect' = sect
            BY <1>19 DEF UserDeleted
        <2>2. /\ job'["confirm"] = Idle /\ job'["load"].pc # "idle"
              /\ \A g \in Handlers \ {"confirm", "load"} : job'[g] = job[g]
            BY <2>1, Refetched, RefetchShape DEF Handlers
        <2> QED BY <2>1, <2>2, AloneRefetches DEF Queries, Handlers
    <1>20. CASE ConfirmFailed
        BY <1>20, <1>r, ListShape, AloneMoves DEF ConfirmFailed, Reread, At, Free, Handlers, JobsShape, Jobs
    <1>21. CASE Submitted
        <2>1. CASE sect = "members"
            BY <1>21, <2>1, <1>r, RefetchShape, IdleShape
            DEF Submitted, Queries, Alone, Free, At, Handlers, JobsShape
        <2>2. CASE sect # "members"
            BY <1>21, <2>2, <1>r, ListShape, AloneMoves DEF Submitted, At, Free, Handlers, JobsShape
        <2> QED BY <2>1, <2>2
    <1>22. CASE SubmitFailed
        BY <1>22, AloneMoves DEF SubmitFailed, End, At, Free, Handlers, JobsShape
    <1>23. CASE Restored
        <2>1. job' = [Refetch(job) EXCEPT !["row"] = Idle] /\ sect = "members" /\ sect' = sect
            BY <1>23 DEF Restored
        <2>2. /\ job'["row"] = Idle /\ job'["load"].pc # "idle"
              /\ \A g \in Handlers \ {"row", "load"} : job'[g] = job[g]
            BY <2>1, Refetched, RefetchShape DEF Handlers
        <2> QED BY <2>1, <2>2, AloneRefetches DEF Queries, Handlers
    <1>24. CASE RowDone
        BY <1>24, AloneMoves DEF RowDone, End, At, Free, Handlers, JobsShape
    <1>25. CASE Age
        BY <1>25, AloneStays DEF Age
    <1>26. CASE Focus
        <2>1. job'["load"].pc # "idle" /\ \A g \in Handlers \ {"load"} : job'[g] = job[g]
            BY <1>26, RefetchShape DEF Focus, JobsShape, Handlers
        <2> QED BY <1>26, <2>1, AloneRefetches DEF Focus, Handlers
    <1>27. CASE OpenCreate
        BY <1>27, AloneStays DEF OpenCreate
    <1>28. CASE Cancel
        BY <1>28, AloneStays DEF Cancel
    <1>29. CASE Confirm
        BY <1>29, AloneBegins DEF Confirm, Handlers, Saving, Call, List, Idle
    <1>30. CASE ConfirmDeleteUser
        BY <1>30, AloneBegins DEF ConfirmDeleteUser, Handlers, Saving, Call, List, Idle
    <1>31. CASE DeleteUnused
        BY <1>31, AloneBegins DEF DeleteUnused, Handlers, Saving, Call, List, Idle
    <1>32. CASE Submit
        BY <1>32, AloneBegins DEF Submit, Handlers, Saving, Call, List, Idle
    <1>33. CASE More
        BY <1>33, AloneBegins DEF More, Handlers, Saving, Call, List, Idle
    <1>34. CASE Save
        BY <1>34, AloneBegins DEF Save, Handlers, Saving, Call, List, Idle
    <1>35. CASE SaveAccount
        BY <1>35, AloneBegins DEF SaveAccount, Handlers, Saving, Call, List, Idle
    <1>36. CASE SaveProfile
        BY <1>36, AloneBegins DEF SaveProfile, Handlers, Saving, Call, List, Idle
    <1>37. ASSUME NEW i \in Ids, OtherDelete(i) PROVE Alone'
        BY <1>37, AloneStays DEF OtherDelete
    <1>38. ASSUME NEW i \in Ids, OtherMark(i) PROVE Alone'
        BY <1>38, AloneStays DEF OtherMark
    <1>39. ASSUME NEW i \in Ids, NEW mode \in Modes, Open(mode, i) PROVE Alone'
        BY <1>39, AloneStays DEF Open
    <1>40. ASSUME NEW i \in Ids, NEW mode \in Modes, RowButton(mode, i) PROVE Alone'
        BY <1>40, AloneBegins DEF RowButton, Handlers, Saving, Call, List, Idle
    <1>41. ASSUME NEW v \in Values, EditProfile(v) PROVE Alone'
        BY <1>41, AloneStays DEF EditProfile
    <1>42. ASSUME NEW v \in Values, NEW f \in Fields, Edit(f, v) PROVE Alone'
        BY <1>42, AloneStays DEF Edit
    <1>43. ASSUME NEW v \in Values, NEW f \in Fields, OtherSave(f, v) PROVE Alone'
        BY <1>43, AloneStays DEF OtherSave
    <1>44. ASSUME NEW v \in Values, NEW f \in Fields, NEW h \in Handlers, Prefer(h, f, v)
           PROVE  Alone'
        <2>1. \A g \in Handlers \ {h} : job'[g].pc = job[g].pc /\ job'[g].left = job[g].left
            BY <1>44, Preferred
        <2>2. /\ job'[h].pc = "call" /\ raced' = (raced \/ \E g \in Handlers \ {h} : job[g].pc # "idle")
              /\ sect' = sect
            BY <1>44, Preferred
        <2>3. ~raced' => \A g \in Handlers \ {h} : job'[g].pc = "idle"
            BY <2>1, <2>2
        <2>4. \A g \in Handlers : job'[g].pc = "idle" => job'[g].left = {}
            BY <2>1, <2>2 DEF Alone, Free
        <2> QED BY <2>3, <2>4 DEF Alone, Free
    <1>45. ASSUME NEW v \in Values, NEW f \in Fields, PreferMenu(f, v)
           PROVE  Alone'
        BY <1>45, AloneBegins DEF PreferMenu, Handlers, Saving, Call, List, Idle
    <1> QED
        BY <1>0, <1>1, <1>2, <1>3, <1>4, <1>5, <1>6, <1>7, <1>8, <1>9, <1>10, <1>11, <1>12, <1>13,
           <1>14, <1>15, <1>16, <1>17, <1>18, <1>19, <1>20, <1>21, <1>22, <1>23, <1>24, <1>25,
           <1>26, <1>27, <1>28, <1>29, <1>30, <1>31, <1>32, <1>33, <1>34, <1>35, <1>36, <1>37,
           <1>38, <1>39, <1>40, <1>41, <1>42, <1>43, <1>44, <1>45
        DEF Next, Progress, Choices

(* ---- the forms ---- *)
\* On the sections that are forms no dialog is open and the handlers only load and save.
FormJob(j) == j.left = {} /\ j.mode \in {"none", "save", "silent", "menu"} /\ j.pc # "await"
FormBase == dialog = NoDialog /\ said = {} /\ \A h \in Handlers : FormJob(job[h])

FormStep ==
    \/ \E h \in Handlers : ServeSave(h) \/ ServeList(h) \/ Saved(h) \/ SavedFields(h) \/ Fetched(h) \/ SaveFailed(h)
    \/ Save \/ SaveAccount \/ SaveProfile
    \/ \E v \in Values : \/ EditProfile(v)
                         \/ \E f \in Fields : \/ Edit(f, v)
                                              \/ PreferMenu(f, v) \/ \E h \in Handlers : Prefer(h, f, v)
    \/ blind'

LEMMA FormMoves ==
    ASSUME FormBase, NEW h \in Handlers, \A g \in Handlers \ {h} : job'[g] = job[g],
           FormJob(job'[h]), UNCHANGED <<dialog, said>>
    PROVE  FormBase'
    BY DEF FormBase

LEMMA FormBegins ==
    ASSUME FormBase, JobsShape, NEW h \in Handlers, NEW j, Begin(h, j), FormJob(j), UNCHANGED <<dialog, said>>
    PROVE  FormBase'
    BY DEF FormBase, Begin, JobsShape

LEMMA FormBaseInit == Init /\ sect \in Forms => FormBase
    <1> SUFFICES ASSUME Init, sect \in Forms PROVE FormBase
        OBVIOUS
    <1>1. FormJob(Idle) /\ FormJob(List(Idle))
        BY IdleShape DEF FormJob, List, Idle
    <1>2. sect \notin Queries
        BY DEF Forms, Whole, Queries
    <1>3. \A h \in Handlers : job[h] = Idle \/ job[h] = List(Idle)
        BY <1>2 DEF Init
    <1>4. dialog = NoDialog /\ said = {}
        BY DEF Init
    <1> QED BY <1>1, <1>3, <1>4 DEF FormBase

LEMMA FormSteps == JobsShape /\ FormBase /\ sect \in Forms /\ [Next]_vars => FormBase' /\ (FormStep \/ UNCHANGED vars)
    <1> SUFFICES ASSUME JobsShape, FormBase, sect \in Forms, [Next]_vars
                 PROVE  FormBase' /\ (FormStep \/ UNCHANGED vars)
        OBVIOUS
    <1> USE DEF table
    <1>r. \A h \in Handlers : job[h] \in Jobs
        BY DEF JobsShape
    <1>t. /\ sect \notin Tables /\ sect \notin Queries
          /\ sect \notin {"webhooks", "tokens", "idps", "shortcuts", "attachments", "members", "inbox"}
        BY Apart DEF Tables, Queries
    <1>d. NoDialog.kind = "none"
        BY DEF NoDialog
    <1>i. FormJob(Idle) /\ \A h \in Handlers : FormJob(List(job[h]))
        BY <1>r, IdleShape DEF List, FormBase, FormJob, Jobs
    <1>0. CASE UNCHANGED vars
        BY <1>0 DEF vars, FormBase
    <1>1. ASSUME NEW h \in Handlers, ServeMark(h) PROVE FormBase' /\ (FormStep \/ UNCHANGED vars)
        BY <1>1, <1>t, <1>d DEF ServeMark, At, FormBase, FormJob, Marks, Creates, CanAsk, Handlers
    <1>2. ASSUME NEW h \in Handlers, ServeCreate(h) PROVE FormBase' /\ (FormStep \/ UNCHANGED vars)
        BY <1>2, <1>t, <1>d DEF ServeCreate, At, FormBase, FormJob, Marks, Creates, CanAsk, Handlers
    <1>3. ASSUME NEW h \in Handlers, ServeSave(h) PROVE FormBase' /\ (FormStep \/ UNCHANGED vars)
        <2>1. FormBase'
            BY <1>3, <1>r, IdleShape, ListShape, FormMoves
            DEF ServeSave, Goto, At, Jobs, JobsShape, FormBase, FormJob, Pcs
        <2> QED BY <1>3, <2>1 DEF FormStep
    <1>4. ASSUME NEW h \in Handlers, ServeList(h) PROVE FormBase' /\ (FormStep \/ UNCHANGED vars)
        <2>1. FormBase'
            BY <1>4, <1>r, IdleShape, ListShape, FormMoves
            DEF ServeList, At, Jobs, JobsShape, FormBase, FormJob, Pcs
        <2> QED BY <1>4, <2>1 DEF FormStep
    <1>5. ASSUME NEW h \in Handlers, Loaded(h) PROVE FormBase' /\ (FormStep \/ UNCHANGED vars)
        BY <1>5, <1>t, <1>d DEF Loaded, At, FormBase, FormJob, Marks, Creates, CanAsk, Handlers
    <1>6. ASSUME NEW h \in Handlers, LoadFailed(h) PROVE FormBase' /\ (FormStep \/ UNCHANGED vars)
        BY <1>6, <1>t, <1>d DEF LoadFailed, At, FormBase, FormJob, Marks, Creates, CanAsk, Handlers
    <1>7. ASSUME NEW h \in Handlers, ReloadedClosing(h) PROVE FormBase' /\ (FormStep \/ UNCHANGED vars)
        BY <1>7, <1>t, <1>d DEF ReloadedClosing, At, FormBase, FormJob, Marks, Creates, CanAsk, Handlers
    <1>8. ASSUME NEW h \in Handlers, Saved(h) PROVE FormBase' /\ (FormStep \/ UNCHANGED vars)
        <2>1. FormBase'
            BY <1>8, <1>i, FormMoves DEF Saved, Reread, JobsShape
        <2> QED BY <1>8, <2>1 DEF FormStep
    <1>9. ASSUME NEW h \in Handlers, SavedFields(h) PROVE FormBase' /\ (FormStep \/ UNCHANGED vars)
        <2>1. FormBase'
            BY <1>9, <1>i, FormMoves DEF SavedFields, Reread, JobsShape
        <2> QED BY <1>9, <2>1 DEF FormStep
    <1>10. ASSUME NEW h \in Handlers, Fetched(h) PROVE FormBase' /\ (FormStep \/ UNCHANGED vars)
        <2>1. FormBase'
            BY <1>10, <1>r, IdleShape, ListShape, FormMoves
            DEF Fetched, End, At, Jobs, JobsShape, FormBase, FormJob, Pcs
        <2> QED BY <1>10, <2>1 DEF FormStep
    <1>11. ASSUME NEW h \in Handlers, SaveFailed(h) PROVE FormBase' /\ (FormStep \/ UNCHANGED vars)
        <2>1. FormBase'
            <3>1. FormJob([job[h] EXCEPT !.pc = "call", !.retried = TRUE])
                BY <1>r DEF FormBase, FormJob, Jobs
            <3> QED BY <1>11, <1>i, <3>1, FormMoves DEF SaveFailed, JobsShape
        <2> QED BY <1>11, <2>1 DEF FormStep
    <1>12. ASSUME NEW h \in Handlers, Lose(h) PROVE FormBase' /\ (FormStep \/ UNCHANGED vars)
        <2>1. FormBase'
            <3>1. FormJob(job'[h])
                BY <1>12, Lost DEF FormBase, FormJob
            <3> QED BY <1>12, <3>1, Lost, FormMoves DEF Lose
        <2> QED BY <1>12, <2>1 DEF Lose, FormStep
    <1>13. ASSUME NEW h \in Handlers, NEW i \in Ids, ServeDelete(h, i)
           PROVE  FormBase' /\ (FormStep \/ UNCHANGED vars)
        BY <1>13, <1>t, <1>d DEF ServeDelete, At, FormBase, FormJob, Marks, Creates, CanAsk, Handlers
    <1>14. CASE Deleted
        BY <1>14, <1>t, <1>d DEF Deleted, At, FormBase, FormJob, Marks, Creates, CanAsk, Handlers
    <1>15. CASE ShortcutDeleted
        BY <1>15, <1>t, <1>d DEF ShortcutDeleted, At, FormBase, FormJob, Marks, Creates, CanAsk, Handlers
    <1>16. CASE ReloadAnyway
        BY <1>16, <1>t, <1>d DEF ReloadAnyway, At, FormBase, FormJob, Marks, Creates, CanAsk, Handlers
    <1>17. CASE MemberArchived
        BY <1>17, <1>t, <1>d DEF MemberArchived, At, FormBase, FormJob, Marks, Creates, CanAsk, Handlers
    <1>18. CASE ArchiveEnds
        BY <1>18, <1>t, <1>d DEF ArchiveEnds, At, FormBase, FormJob, Marks, Creates, CanAsk, Handlers
    <1>19. CASE UserDeleted
        BY <1>19, <1>t, <1>d DEF UserDeleted, At, FormBase, FormJob, Marks, Creates, CanAsk, Handlers
    <1>20. CASE ConfirmFailed
        BY <1>20, <1>t, <1>d DEF ConfirmFailed, At, FormBase, FormJob, Marks, Creates, CanAsk, Handlers
    <1>21. CASE Submitted
        BY <1>21, <1>t, <1>d DEF Submitted, At, FormBase, FormJob, Marks, Creates, CanAsk, Handlers
    <1>22. CASE SubmitFailed
        BY <1>22, <1>t, <1>d DEF SubmitFailed, At, FormBase, FormJob, Marks, Creates, CanAsk, Handlers
    <1>23. CASE Restored
        BY <1>23, <1>t, <1>d DEF Restored, At, FormBase, FormJob, Marks, Creates, CanAsk, Handlers
    <1>24. CASE RowDone
        BY <1>24, <1>t, <1>d DEF RowDone, At, FormBase, FormJob, Marks, Creates, CanAsk, Handlers
    <1>25. CASE Age
        BY <1>25, <1>t, <1>d DEF Age, At, FormBase, FormJob, Marks, Creates, CanAsk, Handlers
    <1>26. CASE Focus
        BY <1>26, <1>t, <1>d DEF Focus, At, FormBase, FormJob, Marks, Creates, CanAsk, Handlers
    <1>27. CASE OpenCreate
        BY <1>27, <1>t, <1>d DEF OpenCreate, At, FormBase, FormJob, Marks, Creates, CanAsk, Handlers
    <1>28. CASE Cancel
        BY <1>28, <1>t, <1>d DEF Cancel, At, FormBase, FormJob, Marks, Creates, CanAsk, Handlers
    <1>29. CASE Confirm
        BY <1>29, <1>t, <1>d DEF Confirm, At, FormBase, FormJob, Marks, Creates, CanAsk, Handlers
    <1>30. CASE ConfirmDeleteUser
        BY <1>30, <1>t, <1>d DEF ConfirmDeleteUser, At, FormBase, FormJob, Marks, Creates, CanAsk, Handlers
    <1>31. CASE DeleteUnused
        BY <1>31, <1>t, <1>d DEF DeleteUnused, At, FormBase, FormJob, Marks, Creates, CanAsk, Handlers
    <1>32. CASE Submit
        BY <1>32, <1>t, <1>d DEF Submit, At, FormBase, FormJob, Marks, Creates, CanAsk, Handlers
    <1>33. CASE More
        BY <1>33, <1>t, <1>d DEF More, At, FormBase, FormJob, Marks, Creates, CanAsk, Handlers
    <1>34. CASE Save
        <2>1. FormBase'
            BY <1>34, FormBegins DEF Save, Saving, Call, Idle, FormJob, Handlers
        <2> QED BY <1>34, <2>1 DEF FormStep
    <1>35. CASE SaveAccount
        <2>1. FormBase'
            BY <1>35, FormBegins DEF SaveAccount, Saving, Call, Idle, FormJob, Handlers
        <2> QED BY <1>35, <2>1 DEF FormStep
    <1>36. CASE SaveProfile
        <2>1. FormBase'
            BY <1>36, FormBegins DEF SaveProfile, Saving, Call, Idle, FormJob, Handlers
        <2> QED BY <1>36, <2>1 DEF FormStep
    <1>37. ASSUME NEW i \in Ids, OtherDelete(i) PROVE FormBase' /\ (FormStep \/ UNCHANGED vars)
        BY <1>37 DEF OtherDelete, FormBase, FormStep
    <1>38. ASSUME NEW i \in Ids, OtherMark(i) PROVE FormBase' /\ (FormStep \/ UNCHANGED vars)
        BY <1>38 DEF OtherMark, FormBase, FormStep
    <1>39. ASSUME NEW i \in Ids, NEW mode \in Modes, Open(mode, i)
           PROVE  FormBase' /\ (FormStep \/ UNCHANGED vars)
        BY <1>39, <1>t, <1>d DEF Open, At, FormBase, FormJob, Marks, Creates, CanAsk, Handlers
    <1>40. ASSUME NEW i \in Ids, NEW mode \in Modes, RowButton(mode, i)
           PROVE  FormBase' /\ (FormStep \/ UNCHANGED vars)
        BY <1>40, <1>t, <1>d DEF RowButton, At, FormBase, FormJob, Marks, Creates, CanAsk, Handlers
    <1>41. ASSUME NEW v \in Values, EditProfile(v) PROVE FormBase' /\ (FormStep \/ UNCHANGED vars)
        BY <1>41 DEF EditProfile, FormBase, FormStep, table
    <1>42. ASSUME NEW v \in Values, NEW f \in Fields, Edit(f, v) PROVE FormBase' /\ (FormStep \/ UNCHANGED vars)
        BY <1>42 DEF Edit, FormBase, FormStep, table
    <1>43. ASSUME NEW v \in Values, NEW f \in Fields, OtherSave(f, v)
           PROVE  FormBase' /\ (FormStep \/ UNCHANGED vars)
        BY <1>43 DEF OtherSave, FormBase, FormStep
    <1>44. ASSUME NEW v \in Values, NEW f \in Fields, NEW h \in Handlers, Prefer(h, f, v)
           PROVE  FormBase' /\ (FormStep \/ UNCHANGED vars)
        <2>1. FormBase'
            <3>1. \A g \in Handlers : FormJob(Silenced[g])
                BY <1>r DEF Silenced, FormBase, FormJob, Jobs
            <3>2. FormJob(Saving([ctx EXCEPT ![f] = v], {f}))
                BY DEF Saving, Call, Idle, FormJob
            <3> QED BY <1>44, <3>1, <3>2 DEF Prefer, Silenced, FormBase
        <2> QED BY <1>44, <2>1 DEF FormStep
    <1>45. ASSUME NEW v \in Values, NEW f \in Fields, PreferMenu(f, v)
           PROVE  FormBase' /\ (FormStep \/ UNCHANGED vars)
        <2>1. FormBase'
            BY <1>45, FormBegins DEF PreferMenu, Saving, Call, Idle, FormJob, Handlers
        <2> QED BY <1>45, <2>1 DEF FormStep
    <1> QED
        BY <1>0, <1>1, <1>2, <1>3, <1>4, <1>5, <1>6, <1>7, <1>8, <1>9, <1>10, <1>11, <1>12, <1>13,
           <1>14, <1>15, <1>16, <1>17, <1>18, <1>19, <1>20, <1>21, <1>22, <1>23, <1>24, <1>25,
           <1>26, <1>27, <1>28, <1>29, <1>30, <1>31, <1>32, <1>33, <1>34, <1>35, <1>36, <1>37,
           <1>38, <1>39, <1>40, <1>41, <1>42, <1>43, <1>44, <1>45
        DEF Next, Progress, Choices

\* With no other client, no failure and no overlap.
Quiet == ~blind /\ ~raced

\* The handler h, alone, moves on.
LEMMA OthersFree ==
    ASSUME Alone, sect \in Forms, ~raced, NEW h \in Handlers, ~Free(h)
    PROVE  \A g \in Handlers \ {h} : Free(g)
    BY Apart DEF Alone, Tables

LEMMA OthersAfter ==
    ASSUME Alone, JobsShape, sect \in Forms, ~raced, NEW h \in Handlers, ~Free(h), NEW j \in Jobs, job' = [job EXCEPT ![h] = j]
    PROVE  job'[h] = j /\ \A g \in Handlers \ {h} : job'[g].pc = "idle"
    BY OthersFree DEF JobsShape, Free

LEMMA OthersBegin ==
    ASSUME JobsShape, ~raced', NEW h \in Handlers, NEW j, Begin(h, j)
    PROVE  AtRest /\ job'[h] = j /\ \A g \in Handlers \ {h} : job'[g].pc = "idle"
    BY DEF JobsShape, Free, Begin, AtRest

\* A request is served.
LEMMA SaveServed ==
    ASSUME Shape, NEW h \in Handlers, ServeSave(h), ~blind'
    PROVE  /\ At(h, "call") /\ ~blind /\ raced' = raced
           /\ \E j \in Jobs : /\ job' = [job EXCEPT ![h] = j]
                              /\ j.pc = "done" /\ j.mode = job[h].mode
                              /\ j.value = job[h].value /\ j.mask = job[h].mask
           /\ \A f \in Fields : set'[f] = IF f \in job[h].mask THEN job[h].value[f] ELSE set[f]
    <1>1. job[h] \in Jobs /\ "done" \in Pcs
        BY DEF Shape, JobsShape, Pcs
    <1>2. [job[h] EXCEPT !.pc = "done"] \in Jobs
        BY <1>1, JobShape
    <1>3. ~blind /\ job[h].mode # "menu" /\ job[h].mask # {}
        BY DEF ServeSave, Shape, FlagsShape
    <1>4. job' = [job EXCEPT ![h] = [job[h] EXCEPT !.pc = "done"]]
        BY <1>3 DEF ServeSave, Goto, Shape, JobsShape
    <1> DEFINE j == [job[h] EXCEPT !.pc = "done"]
    <1>5. j.pc = "done" /\ j.mode = job[h].mode /\ j.value = job[h].value /\ j.mask = job[h].mask
        BY <1>1 DEF Jobs
    <1> QED BY <1>2, <1>3, <1>4, <1>5 DEF ServeSave

LEMMA ListServed ==
    ASSUME Shape, NEW h \in Handlers, ServeList(h), sect \in Forms
    PROVE  \E j \in Jobs : job' = [job EXCEPT ![h] = j] /\ j.pc = "listed" /\ j.ans = set
    <1>1. job[h] \in Jobs /\ "listed" \in Pcs /\ set \in Answers
        BY DEF Shape, JobsShape, Pcs, ServerShape, Answers
    <1>2. [job[h] EXCEPT !.pc = "listed", !.ans = set] \in Jobs
        BY <1>1, JobShape
    <1> DEFINE j == [job[h] EXCEPT !.pc = "listed", !.ans = set]
    <1>3. j.pc = "listed" /\ j.ans = set
        BY <1>1 DEF Jobs
    <1>4. job' = [job EXCEPT ![h] = j]
        BY DEF ServeList, Shape, JobsShape
    <1> QED BY <1>2, <1>3, <1>4

LEMMA SavingIs ==
    ASSUME NEW v \in Values2, NEW k \in SUBSET Fields
    PROVE  Saving(v, k).pc = "call" /\ Saving(v, k).value = v /\ Saving(v, k).mask = k
    BY DEF Saving, Call, Idle

LEMMA Same == ASSUME NEW v \in Values2, NEW w \in Values2, \A f \in Fields : v[f] = w[f] PROVE v = w
    BY DEF Values2

(* ---- the preferences ---- *)
PrefRest == ctx = set /\ own = set["a"]
PrefJob(h) ==
    /\ job[h].pc \in {"idle", "call", "done", "list", "listed"}
    /\ At(h, "call") => /\ ctx = set /\ own = job[h].value["a"]
                        /\ \A f \in Fields \ job[h].mask : job[h].value[f] = set[f]
    /\ At(h, "call") \/ At(h, "done") => job[h].mode # "silent"
    /\ At(h, "done") \/ At(h, "list") \/ At(h, "listed") => own = set["a"]
    /\ At(h, "listed") => job[h].ans = set
PrefInv == (Quiet /\ sect = "preferences") => (AtRest => PrefRest) /\ \A h \in Handlers : PrefJob(h)

LEMMA PrefOne ==
    ASSUME NEW h \in Handlers, PrefJob(h)', job'[h].pc = "idle" => PrefRest',
           \A g \in Handlers \ {h} : job'[g].pc = "idle"
    PROVE  PrefInv'
    BY DEF PrefInv, AtRest, Free, PrefJob, At

LEMMA PrefInit == Init => PrefInv
    BY IdleShape DEF Init, PrefInv, PrefRest, PrefJob, At, Tables, Queries, Fields

LEMMA PrefStep == Shape /\ Shape' /\ Alone /\ FormStep /\ sect' = sect /\ PrefInv => PrefInv'
    <1> SUFFICES ASSUME Shape, Shape', Alone, FormStep, PrefInv, sect = "preferences", sect' = sect, Quiet'
                 PROVE  PrefInv'
        BY DEF PrefInv
    <1>f. sect \in Forms /\ sect \notin Whole
        BY DEF Forms, Whole
    <1>s. JobsShape /\ ServerShape /\ ServerShape' /\ \A h \in Handlers : job[h] \in Jobs
        BY DEF Shape, JobsShape
    <1>1. ASSUME NEW h \in Handlers, ServeSave(h) PROVE PrefInv'
        <2>1. ~raced /\ ~blind /\ At(h, "call")
            BY <1>1, SaveServed DEF Quiet
        <2>2. PICK j \in Jobs : /\ job' = [job EXCEPT ![h] = j]
                                /\ j.pc = "done" /\ j.mode = job[h].mode /\ j.value = job[h].value /\ j.mask = job[h].mask
            BY <1>1, SaveServed DEF Quiet
        <2>3. job'[h] = j /\ \A g \in Handlers \ {h} : job'[g].pc = "idle"
            BY <1>f, <1>s, <2>1, <2>2, OthersAfter DEF At, Free
        <2>4. PrefJob(h)
            BY <2>1 DEF PrefInv, Quiet
        <2>5. set'["a"] = job[h].value["a"]
            BY <1>1, <2>1, <2>4, SaveServed DEF PrefJob, Quiet, Fields
        <2>6. own' = own
            BY <1>1 DEF ServeSave
        <2>7. PrefJob(h)'
            BY <2>1, <2>2, <2>3, <2>4, <2>5, <2>6 DEF PrefJob, At
        <2> QED BY <2>2, <2>3, <2>7, PrefOne
    <1>2. ASSUME NEW h \in Handlers, ServeList(h) PROVE PrefInv'
        <2>1. ~raced /\ ~blind /\ At(h, "list")
            BY <1>2 DEF ServeList, Quiet
        <2>2. PICK j \in Jobs : job' = [job EXCEPT ![h] = j] /\ j.pc = "listed" /\ j.ans = set
            BY <1>2, <1>f, ListServed
        <2>3. job'[h] = j /\ \A g \in Handlers \ {h} : job'[g].pc = "idle"
            BY <1>f, <1>s, <2>1, <2>2, OthersAfter DEF At, Free
        <2>4. PrefJob(h)' 
            BY <1>2, <2>1, <2>2, <2>3 DEF PrefInv, Quiet, PrefJob, At, ServeList, forms
        <2> QED BY <2>2, <2>3, <2>4, PrefOne
    <1>3. ASSUME NEW h \in Handlers, SavedFields(h) PROVE PrefInv'
        <2>1. ~raced /\ ~blind /\ At(h, "done")
            BY <1>3 DEF SavedFields, Quiet
        <2>2. job' = [job EXCEPT ![h] = List(job[h])] /\ List(job[h]) \in Jobs /\ List(job[h]).pc = "list"
            <3>1. job[h].mode # "silent"
                BY <2>1 DEF PrefInv, Quiet, PrefJob
            <3> QED BY <1>3, <1>s, <3>1, ListShape DEF SavedFields, Reread
        <2>3. job'[h] = List(job[h]) /\ \A g \in Handlers \ {h} : job'[g].pc = "idle"
            BY <1>f, <1>s, <2>1, <2>2, OthersAfter DEF At, Free
        <2>4. PrefJob(h)'
            BY <1>3, <2>1, <2>2, <2>3 DEF PrefInv, Quiet, PrefJob, At, SavedFields
        <2> QED BY <2>2, <2>3, <2>4, PrefOne
    <1>4. ASSUME NEW h \in Handlers, Fetched(h) PROVE PrefInv'
        <2>1. ~raced /\ ~blind /\ At(h, "listed")
            BY <1>4 DEF Fetched, Quiet
        <2>3. job'[h] = Idle /\ \A g \in Handlers \ {h} : job'[g].pc = "idle"
            BY <1>4, <1>f, <1>s, <2>1, IdleShape, OthersAfter DEF At, Free, Fetched, End
        <2>4. own = set["a"] /\ job[h].ans = set
            BY <2>1 DEF PrefInv, Quiet, PrefJob
        <2>5. PrefRest'
            BY <1>4, <2>4 DEF PrefRest, Fetched, TakeContext, InEffect
        <2>6. PrefJob(h)'
            BY <2>3, IdleShape DEF PrefJob, At
        <2> QED BY <2>3, <2>5, <2>6, PrefOne
    <1>5. ASSUME NEW h \in Handlers, SaveFailed(h) PROVE PrefInv'
        BY <1>5 DEF PrefInv, Quiet, PrefJob, At, SaveFailed
    <1>6. ASSUME NEW v \in Values, NEW f \in Fields, NEW h \in Handlers, Prefer(h, f, v) \/ (PreferMenu(f, v) /\ h = "submit")
          PROVE  PrefInv'
        <2> DEFINE c == [ctx EXCEPT ![f] = v]
        <2>1. c \in Values2 /\ {f} \in SUBSET Fields
            BY <1>s DEF ServerShape, Values2
        <2>2. /\ Saving(c, {f}).pc = "call" /\ Saving(c, {f}).value = c /\ Saving(c, {f}).mask = {f}
              /\ Saving(c, {f}).mode = "save"
              /\ LET j == [Saving(c, {f}) EXCEPT !.mode = "menu"] IN
                    j.pc = "call" /\ j.value = c /\ j.mask = {f} /\ j.mode = "menu"
            BY DEF Saving, Call, Idle
        <2>3. ~raced' /\ ~blind' /\ blind' = blind
            BY <1>6 DEF Prefer, PreferMenu, Quiet
        <2>4. /\ AtRest /\ ~raced /\ \A g \in Handlers \ {h} : job'[g].pc = "idle"
              /\ job'[h] = Saving(c, {f}) \/ job'[h] = [Saving(c, {f}) EXCEPT !.mode = "menu"]
            <3>1. CASE Prefer(h, f, v)
                <4>1. /\ job[h].pc = "idle" /\ job'[h] = Saving(c, {f})
                      /\ \A g \in Handlers \ {h} : job'[g].pc = job[g].pc
                      /\ raced' = (raced \/ \E g \in Handlers \ {h} : job[g].pc # "idle")
                    BY <3>1, Preferred
                <4> HIDE DEF c
                <4> QED BY <2>3, <4>1 DEF AtRest, Free
            <3>2. CASE PreferMenu(f, v) /\ h = "submit"
                <4> DEFINE j == [Saving(c, {f}) EXCEPT !.mode = "menu"]
                <4>1. Begin(h, j)
                    BY <3>2 DEF PreferMenu
                <4> HIDE DEF j
                <4>2. AtRest /\ job'[h] = j /\ ~raced /\ \A g \in Handlers \ {h} : job'[g].pc = "idle"
                    BY <1>s, <2>3, <4>1, OthersBegin DEF Begin
                <4> QED BY <4>2 DEF j
            <3> QED BY <1>6, <3>1, <3>2
        <2>5. job'[h].pc = "call" /\ job'[h].value = c /\ job'[h].mask = {f} /\ job'[h].mode # "silent"
            BY <2>2, <2>4
        <2>6. ctx = set /\ own = set["a"]
            BY <2>3, <2>4 DEF PrefInv, Quiet, PrefRest
        <2>7. own' = c["a"] /\ \A g \in Fields \ {f} : c[g] = set[g]
            BY <1>6, <2>6, <1>s DEF Prefer, PreferMenu, ServerShape, Values2, Fields
        <2> HIDE DEF c
        <2>8. UNCHANGED <<ctx, set>>
            BY <1>6 DEF Prefer, PreferMenu
        <2>9. PrefJob(h)'
            BY <2>5, <2>6, <2>7, <2>8 DEF PrefJob, At
        <2> QED BY <2>4, <2>5, <2>9, PrefOne
    <1>7. ASSUME NEW v \in Values, NEW f \in Fields, PreferMenu(f, v) PROVE PrefInv'
        BY <1>6, <1>7 DEF Handlers
    <1> QED
        BY <1>1, <1>2, <1>3, <1>4, <1>5, <1>6, <1>7, <1>f
        DEF FormStep, Quiet, Saved, Save, SaveAccount, SaveProfile, EditProfile, Edit

(* ---- the account ---- *)
\* A field not touched is what the server has.
AccountField(f) == f \in touched \/ form[f] = set[f]
AccountJob(h) ==
    /\ job[h].pc \in {"idle", "call", "done"}
    /\ At(h, "call") \/ At(h, "done") =>
          \A f \in Fields : f \in touched \/ (form[f] = job[h].value[f] /\ job[h].value[f] = set[f])
    /\ At(h, "done") => \A f \in job[h].mask : job[h].value[f] = set[f]
AccountInv ==
    (Quiet /\ sect = "account") => (AtRest => \A f \in Fields : AccountField(f)) /\ \A h \in Handlers : AccountJob(h)

LEMMA AccountOne ==
    ASSUME NEW h \in Handlers, AccountJob(h)', job'[h].pc = "idle" => \A f \in Fields : AccountField(f)',
           \A g \in Handlers \ {h} : job'[g].pc = "idle"
    PROVE  AccountInv'
    BY DEF AccountInv, AtRest, Free, AccountJob, At

LEMMA AccountInit == Init => AccountInv
    <1>1. Idle.pc = "idle"
        BY IdleShape
    <1>2. Init /\ sect = "account" => form = ctx /\ \A h \in Handlers : job[h].pc = "idle"
        BY <1>1 DEF Init, Tables, Queries
    <1>3. Init /\ sect = "account" => \A f \in Fields : form[f] = set[f]
        BY DEF Init
    <1> QED BY <1>2, <1>3 DEF AccountInv, AccountField, AccountJob, At

LEMMA AccountStep == Shape /\ Shape' /\ Alone /\ FormStep /\ sect' = sect /\ AccountInv => AccountInv'
    <1> SUFFICES ASSUME Shape, Shape', Alone, FormStep, AccountInv, sect = "account", sect' = sect, Quiet'
                 PROVE  AccountInv'
        BY DEF AccountInv
    <1>f. sect \in Forms /\ sect \notin Whole
        BY DEF Forms, Whole
    <1>s. JobsShape /\ ServerShape /\ ServerShape' /\ \A h \in Handlers : job[h] \in Jobs
        BY DEF Shape, JobsShape
    <1>1. ASSUME NEW h \in Handlers, ServeSave(h) PROVE AccountInv'
        <2>1. ~raced /\ ~blind /\ At(h, "call")
            BY <1>1, SaveServed DEF Quiet
        <2>2. PICK j \in Jobs : /\ job' = [job EXCEPT ![h] = j]
                                /\ j.pc = "done" /\ j.value = job[h].value /\ j.mask = job[h].mask
            BY <1>1, SaveServed DEF Quiet
        <2>3. job'[h] = j /\ \A g \in Handlers \ {h} : job'[g].pc = "idle"
            BY <1>f, <1>s, <2>1, <2>2, OthersAfter DEF At, Free
        <2>4. AccountJob(h) /\ job[h].mask \in SUBSET Fields
            BY <1>s, <2>1 DEF AccountInv, Quiet, Jobs
        <2>5. \A f \in Fields : set'[f] = IF f \in job[h].mask THEN job[h].value[f] ELSE set[f]
            BY <1>1, SaveServed DEF Quiet
        <2>6. UNCHANGED <<form, ctx, touched>>
            BY <1>1 DEF ServeSave
        <2>7. AccountJob(h)'
            BY <2>1, <2>2, <2>3, <2>4, <2>5, <2>6 DEF AccountJob, At
        <2> QED BY <2>2, <2>3, <2>7, AccountOne
    <1>2. ASSUME NEW h \in Handlers, SavedFields(h) PROVE AccountInv'
        <2>1. ~raced /\ ~blind /\ At(h, "done")
            BY <1>2 DEF SavedFields, Quiet
        <2>2. job' = [job EXCEPT ![h] = Idle]
            BY <1>2 DEF SavedFields, Reread
        <2>3. job'[h] = Idle /\ Idle.pc = "idle" /\ \A g \in Handlers \ {h} : job'[g].pc = "idle"
            BY <1>f, <1>s, <2>1, <2>2, IdleShape, OthersAfter DEF At, Free
        <2>4. AccountJob(h)
            BY <2>1 DEF AccountInv, Quiet
        <2>5. ASSUME NEW f \in Fields PROVE AccountField(f)'
            <3>1. f \in touched' <=> f \in touched /\ (f \notin job[h].mask \/ form[f] # job[h].value[f])
                BY <1>2 DEF SavedFields, Unsaved, Local
            <3>2. UNCHANGED <<form, ctx, set>>
                BY <1>2 DEF SavedFields
            <3> QED BY <2>1, <2>4, <3>1, <3>2 DEF AccountField, AccountJob, At
        <2>6. AccountJob(h)'
            BY <2>3 DEF AccountJob, At
        <2> QED BY <2>3, <2>5, <2>6, AccountOne
    <1>3. ASSUME NEW h \in Handlers, ServeList(h) \/ Fetched(h) \/ SaveFailed(h) PROVE AccountInv'
        BY <1>3 DEF AccountInv, Quiet, AccountJob, At, ServeList, Fetched, SaveFailed
    <1>4. ASSUME NEW v \in Values, NEW f \in Fields, Edit(f, v) PROVE AccountInv'
        <2>1. /\ ~raced /\ ~blind /\ UNCHANGED <<set, ctx, job>> /\ touched' = touched \cup {f}
              /\ \A g \in Fields \ {f} : form'[g] = form[g]
            BY <1>4, <1>s DEF Edit, Quiet, ServerShape, Values2
        <2>2. \A g \in Fields : AccountField(g) => AccountField(g)'
            BY <2>1 DEF AccountField
        <2>3. \A h \in Handlers : AccountJob(h) => AccountJob(h)'
            BY <2>1 DEF AccountJob, At
        <2> QED BY <2>1, <2>2, <2>3 DEF AccountInv, Quiet, AtRest, Free
    <1>5. CASE SaveAccount
        <2>1. Begin("submit", Saving(form, Masked)) /\ ~raced' /\ UNCHANGED <<set, ctx, form, touched>>
            BY <1>5 DEF SaveAccount, Quiet, forms
        <2>2. /\ AtRest /\ job'["submit"] = Saving(form, Masked)
              /\ \A g \in Handlers \ {"submit"} : job'[g].pc = "idle"
            BY <1>s, <2>1, OthersBegin DEF Handlers
        <2>3. ~raced /\ ~blind
            BY <1>5, <2>1 DEF SaveAccount, Begin, Quiet
        <2>4. \A f \in Fields : AccountField(f)
            BY <2>2, <2>3 DEF AccountInv, Quiet
        <2>5. /\ job'["submit"].pc = "call" /\ job'["submit"].value = form /\ job'["submit"].mask = Masked
            BY <2>2, <1>s, SavingIs DEF ServerShape, Masked
        <2>6. AccountJob("submit")'
            BY <2>1, <2>4, <2>5 DEF AccountJob, AccountField, At
        <2> QED BY <2>2, <2>5, <2>6, AccountOne DEF Handlers
    <1> QED
        BY <1>1, <1>2, <1>3, <1>4, <1>5, <1>f
        DEF FormStep, Quiet, Saved, Save, SaveProfile, EditProfile, Prefer, PreferMenu

(* ---- the settings written whole ---- *)
WholeField(f, v) == f \in touched \/ Local(f) = v[f]
WholeJob(h) ==
    /\ job[h].pc \in {"idle", "call", "done", "list", "listed"}
    /\ At(h, "call") => \A f \in Fields : f \in touched \/ job[h].value[f] = set[f]
    /\ At(h, "done") => job[h].value = set
    /\ At(h, "call") \/ At(h, "done") => job[h].mask = Fields /\ \A f \in Fields : WholeField(f, job[h].value)
    /\ At(h, "list") \/ At(h, "listed") => sect = "storage" \/ \A f \in Fields : WholeField(f, set)
    /\ At(h, "listed") => job[h].ans = set
WholeRest == ctx = set /\ \A f \in Fields : WholeField(f, set)
WholeInv ==
    (Quiet /\ sect \in Whole) =>
        /\ sect = "instance" => form["a"] = ctx["a"]
        /\ AtRest => WholeRest
        /\ \A h \in Handlers : WholeJob(h)

LEMMA WholeOne ==
    ASSUME NEW h \in Handlers, WholeJob(h)', job'[h].pc = "idle" => WholeRest',
           \A g \in Handlers \ {h} : job'[g].pc = "idle", sect' = "instance" => form'["a"] = ctx'["a"]
    PROVE  WholeInv'
    BY DEF WholeInv, AtRest, Free, WholeJob, At

LEMMA WholeInit == Init => WholeInv
    <1> SUFFICES ASSUME Init, sect \in Whole PROVE WholeInv
        BY DEF WholeInv
    <1>1. Idle.pc = "idle" /\ List(Idle).pc = "list"
        BY IdleShape, ListShape
    <1>2. /\ form = ctx /\ own = 1 /\ set["a"] = 1 /\ (sect # "storage" => ctx = set)
          /\ \A h \in Handlers : job[h].pc = "idle" \/ (job[h].pc = "list" /\ sect \in {"memo", "storage"})
          /\ sect = "storage" => job["load"].pc = "list"
        BY <1>1 DEF Init, Tables, Queries, Whole, Fields, Handlers
    <1>3. sect # "storage" => \A f \in Fields : WholeField(f, set)
        BY <1>2 DEF WholeField, Local
    <1>4. sect = "storage" => ~AtRest
        BY <1>2 DEF AtRest, Free, Handlers
    <1> QED BY <1>2, <1>3, <1>4 DEF WholeInv, WholeJob, WholeRest, At

LEMMA WholeStep == Shape /\ Shape' /\ Alone /\ FormStep /\ sect' = sect /\ WholeInv => WholeInv'
    <1> SUFFICES ASSUME Shape, Shape', Alone, FormStep, WholeInv, sect \in Whole, sect' = sect, Quiet'
                 PROVE  WholeInv'
        BY DEF WholeInv
    <1>f. sect \in Forms /\ sect \notin {"account", "preferences"}
        BY DEF Forms, Whole
    <1>s. JobsShape /\ ServerShape /\ ServerShape' /\ \A h \in Handlers : job[h] \in Jobs
        BY DEF Shape, JobsShape
    <1>i. WholeInv /\ Quiet => (sect = "instance" => form["a"] = ctx["a"]) /\ \A h \in Handlers : WholeJob(h)
        BY DEF WholeInv
    <1>1. ASSUME NEW h \in Handlers, ServeSave(h) PROVE WholeInv'
        <2>1. ~raced /\ ~blind /\ At(h, "call")
            BY <1>1, SaveServed DEF Quiet
        <2>2. PICK j \in Jobs : /\ job' = [job EXCEPT ![h] = j]
                                /\ j.pc = "done" /\ j.value = job[h].value /\ j.mask = job[h].mask
            BY <1>1, SaveServed DEF Quiet
        <2>3. job'[h] = j /\ \A g \in Handlers \ {h} : job'[g].pc = "idle"
            BY <1>f, <1>s, <2>1, <2>2, OthersAfter DEF At, Free
        <2>4. WholeJob(h) /\ job[h].value \in Values2
            BY <1>s, <1>i, <2>1 DEF Quiet, Jobs
        <2>5. \A f \in Fields : set'[f] = job[h].value[f]
            BY <1>1, <2>1, <2>4, SaveServed DEF Quiet, WholeJob
        <2>6. set' = job[h].value
            BY <1>s, <2>4, <2>5, Same DEF ServerShape
        <2>7. UNCHANGED <<form, ctx, own, touched>>
            BY <1>1 DEF ServeSave
        <2>8. \A f \in Fields : WholeField(f, job[h].value)'
            BY <2>1, <2>2, <2>3, <2>4, <2>7 DEF WholeJob, WholeField, Local
        <2>9. WholeJob(h)'
            BY <2>1, <2>2, <2>3, <2>4, <2>6, <2>8 DEF WholeJob, At
        <2> QED BY <1>i, <2>1, <2>2, <2>3, <2>7, <2>9, WholeOne DEF Quiet
    <1>2. ASSUME NEW h \in Handlers, ServeList(h) PROVE WholeInv'
        <2>1. ~raced /\ ~blind /\ At(h, "list") /\ UNCHANGED <<form, ctx, own, touched, set>>
            BY <1>2 DEF ServeList, Quiet, forms
        <2>2. PICK j \in Jobs : job' = [job EXCEPT ![h] = j] /\ j.pc = "listed" /\ j.ans = set
            BY <1>2, <1>f, ListServed
        <2>3. job'[h] = j /\ \A g \in Handlers \ {h} : job'[g].pc = "idle"
            BY <1>f, <1>s, <2>1, <2>2, OthersAfter DEF At, Free
        <2>4. WholeJob(h)
            BY <1>i, <2>1 DEF Quiet
        <2>5. WholeJob(h)'
            BY <2>1, <2>2, <2>3, <2>4 DEF WholeJob, At, WholeField, Local
        <2> QED BY <1>i, <2>1, <2>2, <2>3, <2>5, WholeOne DEF Quiet
    <1>3. ASSUME NEW h \in Handlers, Saved(h) PROVE WholeInv'
        <2> DEFINE j == IF h = "submit" THEN List(job[h]) ELSE Idle
                   v == job[h].value
        <2>1. ~raced /\ ~blind /\ At(h, "done")
            BY <1>3 DEF Saved, Quiet
        <2>2. job' = [job EXCEPT ![h] = j] /\ j \in Jobs /\ j.pc \in {"list", "idle"}
            BY <1>3, <1>s, ListShape, IdleShape DEF Saved, JobsShape
        <2> HIDE DEF j
        <2>3. job'[h] = j /\ \A g \in Handlers \ {h} : job'[g].pc = "idle"
            BY <1>f, <1>s, <2>1, <2>2, OthersAfter DEF At, Free
        <2>4. WholeJob(h) /\ v \in Values2
            BY <1>s, <1>i, <2>1 DEF Quiet, Jobs
        <2>5. set' = v /\ ctx' = v /\ form' = Synced(v) /\ own' = own /\ touched' = Unsaved(v, Fields)
            BY <1>3, <1>f, <2>1, <2>4 DEF WholeJob, Saved, TakeContext, InEffect
        <2>6. ASSUME NEW f \in Fields PROVE WholeField(f, set)'
            <3>1. CASE sect = "storage"
                BY <3>1, <2>5 DEF WholeField, Local, Synced
            <3>2. CASE sect # "storage"
                <4>1. Local(f)' = Local(f)
                    BY <3>2, <2>5, <1>s DEF Local, Synced, ServerShape, Values2, Fields
                <4>2. f \in touched \/ Local(f) = v[f]
                    BY <2>1, <2>4 DEF WholeJob, WholeField
                <4> QED BY <3>2, <4>1, <4>2, <2>5 DEF WholeField, Unsaved
            <3> QED BY <3>1, <3>2
        <2>7. WholeJob(h)' /\ WholeRest'
            BY <2>2, <2>3, <2>5, <2>6 DEF WholeJob, WholeRest, At
        <2>8. sect = "instance" => form'["a"] = ctx'["a"]
            BY <2>5, <1>s DEF Synced, ServerShape, Values2, Fields
        <2> QED BY <2>3, <2>7, <2>8, WholeOne
    <1>4. ASSUME NEW h \in Handlers, Fetched(h) PROVE WholeInv'
        <2>1. ~raced /\ ~blind /\ At(h, "listed")
            BY <1>4 DEF Fetched, Quiet
        <2>2. job' = [job EXCEPT ![h] = Idle] /\ Idle \in Jobs /\ Idle.pc = "idle"
            BY <1>4, IdleShape DEF Fetched, End
        <2>3. job'[h] = Idle /\ \A g \in Handlers \ {h} : job'[g].pc = "idle"
            BY <1>f, <1>s, <2>1, <2>2, OthersAfter DEF At, Free
        <2>4. WholeJob(h)
            BY <1>i, <2>1 DEF Quiet
        <2>5. /\ set' = set /\ ctx' = set /\ form' = Synced(set) /\ own' = own
              /\ touched' = IF sect = "storage" THEN {} ELSE touched
            BY <1>4, <1>f, <2>1, <2>4 DEF WholeJob, Fetched, TakeContext, InEffect
        <2>6. ASSUME NEW f \in Fields PROVE WholeField(f, set)'
            <3>1. CASE sect = "storage"
                BY <3>1, <2>5 DEF WholeField, Local, Synced
            <3>2. CASE sect # "storage"
                <4>1. Local(f)' = Local(f)
                    BY <3>2, <2>5, <1>s DEF Local, Synced, ServerShape, Values2, Fields
                <4>2. f \in touched \/ Local(f) = set[f]
                    BY <3>2, <2>1, <2>4 DEF WholeJob, WholeField
                <4> QED BY <3>2, <4>1, <4>2, <2>5 DEF WholeField
            <3> QED BY <3>1, <3>2
        <2>7. WholeJob(h)' /\ WholeRest'
            BY <2>2, <2>3, <2>5, <2>6 DEF WholeJob, WholeRest, At
        <2>8. sect = "instance" => form'["a"] = ctx'["a"]
            BY <2>5, <1>s DEF Synced, ServerShape, Values2, Fields
        <2> QED BY <2>3, <2>7, <2>8, WholeOne
    <1>5. ASSUME NEW h \in Handlers, SaveFailed(h) PROVE WholeInv'
        BY <1>5, <1>i DEF Quiet, WholeJob, At, SaveFailed
    <1>6. ASSUME NEW v \in Values, NEW f \in Fields, Edit(f, v) PROVE WholeInv'
        <2>1. /\ ~raced /\ ~blind /\ UNCHANGED <<set, ctx, own, job>> /\ touched' = touched \cup {f}
              /\ \A g \in Fields \ {f} : form'[g] = form[g]
              /\ sect = "instance" => f = "b"
            BY <1>6, <1>s DEF Edit, Quiet, ServerShape, Values2
        <2>2. \A g \in Fields : g \notin touched' => Local(g)' = Local(g)
            BY <2>1 DEF Local
        <2>3. sect = "instance" => form'["a"] = ctx'["a"]
            BY <1>i, <2>1 DEF Quiet, Fields
        <2>4. WholeRest => WholeRest'
            BY <2>1, <2>2 DEF WholeRest, WholeField
        <2>5. \A h \in Handlers : WholeJob(h) => WholeJob(h)'
            BY <2>1, <2>2 DEF WholeJob, WholeField, At
        <2> QED BY <2>1, <2>3, <2>4, <2>5 DEF WholeInv, Quiet, AtRest, Free
    <1>7. ASSUME NEW v \in Values, EditProfile(v) PROVE WholeInv'
        <2>1. ~raced /\ ~blind /\ UNCHANGED <<set, ctx, form, job>> /\ touched' = touched \cup {"a"}
            BY <1>7 DEF EditProfile, Quiet
        <2>2. \A g \in Fields : g \notin touched' => Local(g)' = Local(g)
            BY <2>1 DEF Local
        <2>3. WholeRest => WholeRest'
            BY <2>1, <2>2 DEF WholeRest, WholeField
        <2>4. \A h \in Handlers : WholeJob(h) => WholeJob(h)'
            BY <2>1, <2>2 DEF WholeJob, WholeField, At
        <2> QED BY <2>1, <2>3, <2>4 DEF WholeInv, Quiet, AtRest, Free
    <1>8. ASSUME NEW h \in {"submit", "row"}, NEW v \in Values2, Begin(h, Saving(v, Fields)),
                 \A f \in Fields : AtRest /\ WholeRest => WholeField(f, v) /\ (f \in touched \/ v[f] = set[f]),
                 UNCHANGED <<set, ctx, form, own, touched, blind>>
          PROVE  WholeInv'
        <2>1. h \in Handlers /\ ~raced'
            BY DEF Handlers, Quiet
        <2>2. AtRest /\ job'[h] = Saving(v, Fields) /\ \A g \in Handlers \ {h} : job'[g].pc = "idle"
            BY <1>8, <1>s, <2>1, OthersBegin
        <2>3. ~raced /\ ~blind
            BY <1>8, <2>1 DEF Begin, Quiet
        <2>4. WholeRest
            BY <2>2, <2>3 DEF WholeInv, Quiet
        <2>5. job'[h].pc = "call" /\ job'[h].value = v /\ job'[h].mask = Fields
            BY <2>2, SavingIs
        <2>6. \A f \in Fields : WholeField(f, v)' /\ (f \in touched' \/ v[f] = set'[f])
            BY <1>8, <2>2, <2>4 DEF WholeField, Local
        <2>7. WholeJob(h)'
            BY <2>5, <2>6 DEF WholeJob, WholeField, At
        <2>8. sect = "instance" => form'["a"] = ctx'["a"]
            BY <1>8, <1>i, <2>3 DEF Quiet
        <2> QED BY <2>1, <2>2, <2>5, <2>7, <2>8, WholeOne
    <1>9. CASE Save
        <2>1. ~raced /\ ~blind
            BY <1>9 DEF Save, Begin, Quiet
        <2>2. \A f \in Fields : WholeRest => WholeField(f, form) /\ (f \in touched \/ form[f] = set[f])
            BY <1>i, <2>1 DEF WholeRest, WholeField, Local, Quiet
        <2> QED BY <1>8, <1>9, <1>s, <2>2 DEF Save, forms, ServerShape
    <1>10. CASE SaveProfile
        <2> DEFINE v == [ctx EXCEPT !["a"] = own]
        <2>1. v \in Values2 /\ v["a"] = own /\ v["b"] = ctx["b"]
            BY <1>s DEF ServerShape, Values2, Fields
        <2> HIDE DEF v
        <2>2. \A f \in Fields : WholeRest => WholeField(f, v) /\ (f \in touched \/ v[f] = set[f])
            BY <1>10, <2>1 DEF SaveProfile, WholeRest, WholeField, Local, Fields
        <2> QED BY <1>8, <1>10, <2>1, <2>2 DEF SaveProfile, forms, v
    <1> QED
        BY <1>1, <1>2, <1>3, <1>4, <1>5, <1>6, <1>7, <1>9, <1>10, <1>f
        DEF FormStep, Quiet, SavedFields, SaveAccount, Prefer, PreferMenu

(* ---- the forms show what the server has ---- *)
FormsInv == Shape /\ Alone /\ (sect \in Forms => FormBase) /\ PrefInv /\ AccountInv /\ WholeInv

LEMMA FormsInit == Init => FormsInv
    BY ShapeInit, AloneInit, FormBaseInit, PrefInit, AccountInit, WholeInit DEF FormsInv

LEMMA FormsStill == FormsInv /\ UNCHANGED vars => FormsInv'
    <1> SUFFICES ASSUME FormsInv, UNCHANGED vars PROVE FormsInv'
        OBVIOUS
    <1>1. Shape' /\ Alone'
        BY ShapeStep, AloneStep DEF FormsInv, Shape
    <1>2. sect' \in Forms => FormBase'
        BY DEF FormsInv, FormBase, vars
    <1>3. UNCHANGED <<sect, set, ctx, form, own, job, touched, raced, blind>>
        BY DEF vars
    <1>4. PrefInv'
        BY <1>3 DEF FormsInv, PrefInv, Quiet, AtRest, Free, PrefRest, PrefJob, At
    <1>5. AccountInv'
        BY <1>3 DEF FormsInv, AccountInv, Quiet, AtRest, Free, AccountField, AccountJob, At
    <1>6. WholeInv'
        BY <1>3 DEF FormsInv, WholeInv, Quiet, AtRest, Free, WholeRest, WholeJob, WholeField, Local, At
    <1> QED BY <1>1, <1>2, <1>4, <1>5, <1>6 DEF FormsInv

LEMMA FormsStep == FormsInv /\ [Next]_vars => FormsInv'
    <1> SUFFICES ASSUME FormsInv, [Next]_vars, ~UNCHANGED vars PROVE FormsInv'
        BY FormsStill
    <1>1. Shape' /\ Alone' /\ sect' = sect
        BY ShapeStep, AloneStep, SectStays DEF FormsInv, Shape
    <1>2. CASE sect \in Forms
        <2>1. FormBase' /\ FormStep
            BY <1>2, FormSteps DEF FormsInv, Shape
        <2> QED BY <1>1, <2>1, PrefStep, AccountStep, WholeStep DEF FormsInv
    <1>3. CASE sect \notin Forms
        BY <1>1, <1>3 DEF FormsInv, PrefInv, AccountInv, WholeInv, Forms, Whole
    <1> QED BY <1>2, <1>3

\* What a form, its copies and its handlers hold, for the preferences, the account and the settings
\* written whole.
THEOREM FormsAreKept == Spec => []FormsInv
    <1> QED BY FormsInit, FormsStep, PTL DEF Spec

\* FormTrue: once nothing is in flight, a form shows what the server has in every field without
\* unsaved changes, and the theme in effect is the one the server keeps; when no two handlers
\* overlapped, no request failed and no other client wrote.
THEOREM FormsShowTheServer == Spec => []FormTrue
    <1>1. FormsInv => FormTrue
        <2> SUFFICES ASSUME FormsInv, AtRest, Quiet, sect \in Forms
                     PROVE  IF sect = "preferences" THEN own = set["a"] /\ ctx = set
                            ELSE \A f \in Fields : f \in touched \/ Local(f) = set[f]
            BY DEF FormTrue, Quiet
        <2>1. CASE sect = "preferences"
            BY <2>1 DEF FormsInv, PrefInv, PrefRest
        <2>2. CASE sect = "account"
            BY <2>2 DEF FormsInv, AccountInv, AccountField, Local
        <2>3. CASE sect \in Whole
            BY <2>3 DEF FormsInv, WholeInv, WholeRest, WholeField, Whole
        <2> QED BY <2>1, <2>2, <2>3 DEF Forms
    <1> QED BY <1>1, FormsAreKept, PTL

\* The first half of KeepsUntouched: a save changes no field that the user has not touched.
LEMMA FieldsKept ==
    ASSUME FormsInv, [Next]_vars, sect \in Whole \cup {"account"}, ~blind', ~raced',
           NEW f \in Fields, set'[f] # set[f]
    PROVE  \E h \in Handlers : job[h].pc = "call" /\ f \in touched
    <1>0. sect \in Forms /\ Shape
        BY DEF Forms, FormsInv
    <1>1. FormStep
        BY <1>0, FormSteps DEF FormsInv, Shape, vars
    <1>2. PICK h \in Handlers : ServeSave(h)
        BY <1>1
        DEF FormStep, ServeList, Saved, SavedFields, Fetched, SaveFailed, Save, SaveAccount, SaveProfile,
                    EditProfile, Edit, Prefer, PreferMenu, forms
    <1>3. At(h, "call") /\ Quiet
        BY <1>0, <1>2, SaveServed DEF Quiet
    <1>4. f \in job[h].mask /\ job[h].value[f] # set[f]
        BY <1>0, <1>2, SaveServed
    <1>5. CASE sect \in Whole
        BY <1>3, <1>4, <1>5 DEF FormsInv, WholeInv, WholeJob, At
    <1>6. CASE sect = "account"
        BY <1>3, <1>4, <1>6 DEF FormsInv, AccountInv, AccountJob, At
    <1> QED BY <1>5, <1>6


(* ---- the rows are known ---- *)
\* Every row that the server has, or that a client was told of, was created, and the rows of the
\* server have ids of their own.
KnownIds(S) == \A i \in S : i \in Nat /\ i <= last
KnownJob(j) ==
    /\ KnownIds(RowIds(j.seen))
    /\ (j.pc = "listed" /\ sect \in Tables) => KnownIds(RowIds(j.ans))
KnownJobs == \A h \in Handlers : KnownJob(job[h])
KnownInv == Distinct(rows) /\ KnownIds(RowIds(rows)) /\ KnownIds(RowIds(view)) /\ KnownJobs

LEMMA NoRows == RowIds(<<>>) = {} /\ \A S : S = {} => KnownIds(S)
    BY DEF RowIds, KnownIds

\* A page has rows of the server, and what is shown is what was shown or answered.
LEMMA PageIds ==
    ASSUME NEW n \in Nat, rows \in Seq(Row)
    PROVE  /\ \A k \in DOMAIN PageFrom(n) : \E m \in DOMAIN rows : PageFrom(n)[k] = rows[m]
           /\ RowIds(PageFrom(n)) \subseteq RowIds(rows)
    <1>1. CASE Len(rows) > n
        <2>1. PageFrom(n) = SubSeq(rows, n + 1, n + 1) /\ n + 1 \in 1..Len(rows)
            BY <1>1 DEF PageFrom
        <2>2. Len(SubSeq(rows, n + 1, n + 1)) = 1 /\ SubSeq(rows, n + 1, n + 1)[1] = rows[n + 1]
            BY <2>1
        <2>3. DOMAIN PageFrom(n) = 1..1
            BY <2>1, <2>2, PageRows, ListDomain
        <2> QED BY <2>1, <2>2, <2>3, ListDomain DEF RowIds
    <1>2. CASE ~(Len(rows) > n)
        <2>1. PageFrom(n) = <<>>
            BY <1>2, SubSeqEmpty DEF PageFrom
        <2> QED BY <2>1, NoRows
    <1> QED BY <1>1, <1>2

LEMMA ShownIds ==
    ASSUME Shape, NEW h \in Handlers, job[h].pc = "listed", sect \in Tables
    PROVE  /\ \A k \in DOMAIN Shown(h) : \/ \E m \in DOMAIN view : Shown(h)[k] = view[m]
                                         \/ \E m \in DOMAIN job[h].ans : Shown(h)[k] = job[h].ans[m]
           /\ RowIds(Shown(h)) \subseteq RowIds(view) \cup RowIds(job[h].ans)
    <1> DEFINE a == job[h].ans
               s == view \o a
    <1>1. view \in Seq(Row) /\ a \in Seq(Row)
        BY Apart DEF Shape, ServerShape, JobsShape
    <1>2. /\ DOMAIN view = 1..Len(view) /\ DOMAIN a = 1..Len(a) /\ DOMAIN s = 1..Len(s)
          /\ Len(view) \in Nat /\ Len(a) \in Nat
        BY <1>1, ConcatProperties, ListDomain
    <1>3. /\ Len(s) = Len(view) + Len(a)
          /\ \A n \in 1..(Len(view) + Len(a)) : s[n] = IF n <= Len(view) THEN view[n] ELSE a[n - Len(view)]
        BY <1>1, ConcatProperties
    <1>4. Shown(h) = IF job[h].mode = "more" THEN s ELSE a
        BY DEF Shown
    <1> HIDE DEF s, a
    <1>5. \A n \in DOMAIN s : (\E m \in DOMAIN view : s[n] = view[m]) \/ (\E m \in DOMAIN a : s[n] = a[m])
        <2> SUFFICES ASSUME NEW n \in DOMAIN s
                     PROVE  (\E m \in DOMAIN view : s[n] = view[m]) \/ (\E m \in DOMAIN a : s[n] = a[m])
            OBVIOUS
        <2>1. CASE n <= Len(view)
            BY <2>1, <1>2, <1>3
        <2>2. CASE ~(n <= Len(view))
            <3>1. n - Len(view) \in DOMAIN a /\ s[n] = a[n - Len(view)]
                BY <2>2, <1>2, <1>3
            <3> QED BY <3>1
        <2> QED BY <2>1, <2>2
    <1>6. \A k \in DOMAIN Shown(h) : \/ \E m \in DOMAIN view : Shown(h)[k] = view[m]
                                     \/ \E m \in DOMAIN a : Shown(h)[k] = a[m]
        BY <1>4, <1>5
    <1> QED BY <1>6 DEF RowIds, a

LEMMA KnownMoves ==
    ASSUME KnownJobs, NEW h \in Handlers, \A g \in Handlers \ {h} : job'[g] = job[g],
           KnownJob(job'[h]), sect' = sect, last' = last
    PROVE  KnownJobs'
    BY DEF KnownJobs, KnownJob, KnownIds

LEMMA KnownTwo ==
    ASSUME KnownJobs, NEW h \in Handlers, \A g \in Handlers \ {h, "load"} : job'[g] = job[g],
           KnownJob(job'[h]), KnownJob(job'["load"]), sect' = sect, last' = last
    PROVE  KnownJobs'
    BY DEF KnownJobs, KnownJob, KnownIds

LEMMA KnownStill ==
    ASSUME KnownInv, UNCHANGED <<sect, rows, view, last, job>>
    PROVE  KnownInv'
    BY DEF KnownInv, KnownJobs, KnownJob, KnownIds

LEMMA KnownBegins ==
    ASSUME KnownInv, JobsShape, NEW h \in Handlers, NEW j, Begin(h, j), sect' = sect, last' = last,
           j.pc # "listed", j.seen = <<>> \/ j.seen = view
    PROVE  KnownJobs'
    BY NoRows DEF KnownInv, KnownJobs, KnownJob, KnownIds, Begin, JobsShape

LEMMA KnownStays ==
    ASSUME KnownInv, KnownJobs', UNCHANGED <<rows, view, last>>
    PROVE  KnownInv'
    BY DEF KnownInv, KnownIds

LEMMA KnownInit == Init => KnownInv
    <1> SUFFICES ASSUME Init PROVE KnownInv
        OBVIOUS
    <1>1. Distinct(rows) /\ KnownIds(RowIds(rows))
        <2>1. CASE sect \in Tables
            <3>1. DOMAIN rows = 1..2 /\ rows[1].id = 1 /\ rows[2].id = 2 /\ last = 2
                BY <2>1 DEF Init
            <3> QED BY <3>1 DEF Distinct, KnownIds, RowIds
        <2>2. CASE sect \notin Tables
            BY <2>2, NoRows DEF Init, Distinct
        <2> QED BY <2>1, <2>2
    <1>3. KnownIds(RowIds(view))
        BY NoRows DEF Init
    <1>2. \A h \in Handlers : job[h].seen = <<>> /\ job[h].pc # "listed"
        BY DEF Init, List, Idle
    <1> QED BY <1>1, <1>2, <1>3, NoRows DEF KnownInv, KnownJobs, KnownJob

LEMMA KnownStep == Shape /\ KnownInv /\ [Next]_vars => KnownInv'
    <1> SUFFICES ASSUME Shape, ServerShape, JobsShape, KnownInv, [Next]_vars, sect' = sect PROVE KnownInv'
        BY SectStays DEF Shape
    <1>r. \A h \in Handlers : job[h] \in Jobs
        BY DEF JobsShape
    <1>c. last \in Nat => [id |-> last + 1, marked |-> FALSE] \in Row
        BY DEF Row
    <1>l. "listed" \notin {"done", "refused"}
        OBVIOUS
    <1>i. KnownJob(Idle) /\ KnownJob(List(Idle)) /\ \A h \in Handlers : KnownJob(List(job[h]))
        <2>1. Idle.seen = <<>> /\ Idle.pc = "idle" /\ List(Idle).seen = <<>> /\ List(Idle).pc = "list"
            BY DEF List, Idle
        <2>2. \A h \in Handlers : List(job[h]).seen = job[h].seen /\ List(job[h]).pc = "list"
            BY <1>r DEF List, Jobs
        <2> QED BY <2>1, <2>2, NoRows DEF KnownJob, KnownInv, KnownJobs
    <1>a. \A h \in Handlers : KnownJob(Again(job[h])) /\ KnownJob(List(Again(job[h])))
        BY <1>r, AgainShape, NoRows DEF KnownJob
    <1>b. KnownJob(Refetch(job)["load"])
        BY <1>a, RefetchShape DEF KnownInv, KnownJobs, Handlers
    <1>0. CASE UNCHANGED vars
        BY <1>0 DEF vars, KnownInv, KnownJobs, KnownJob, KnownIds
    <1>1. ASSUME NEW h \in Handlers, ServeMark(h) PROVE KnownInv'
        <2>1. RowIds(rows') = RowIds(rows) /\ Distinct(rows')
            BY <1>1, MarkRows DEF ServeMark, KnownInv, ServerShape
        <2>2. KnownJobs'
            BY <1>1, <1>r, <1>l, KnownMoves DEF ServeMark, Goto, KnownInv, KnownJobs, KnownJob, Jobs, JobsShape
        <2> QED BY <1>1, <2>1, <2>2 DEF ServeMark, KnownInv, KnownIds
    <1>2. ASSUME NEW h \in Handlers, ServeCreate(h) PROVE KnownInv'
        <2>1. RowIds(rows') = RowIds(rows) \cup {last + 1} /\ last' = last + 1
            BY <1>2, <1>c, AppendRows DEF ServeCreate, ServerShape
        <2>2. last + 1 \notin RowIds(rows)
            BY DEF KnownInv, KnownIds, ServerShape
        <2>3. Distinct(rows')
            BY <1>2, <2>2, <1>c, AppendRows DEF ServeCreate, ServerShape, KnownInv
        <2>4. \A h_1 \in Handlers \ {h} : job'[h_1] = job[h_1]
            BY <1>2 DEF ServeCreate, Goto, JobsShape
        <2>5. job'[h].seen = job[h].seen /\ job'[h].pc # "listed"
            BY <1>2, <1>r DEF ServeCreate, Goto, Jobs, JobsShape
        <2>6. \A S : KnownIds(S) => KnownIds(S)'
            BY <2>1 DEF KnownIds, ServerShape
        <2>7. KnownJobs'
            BY <2>4, <2>5, <2>6, <1>2 DEF ServeCreate, KnownInv, KnownJobs, KnownJob
        <2>8. KnownIds(RowIds(rows))'
            BY <2>1 DEF KnownInv, KnownIds, ServerShape
        <2>9. KnownIds(RowIds(view))'
            BY <1>2, <2>6 DEF ServeCreate, KnownInv
        <2> QED BY <2>3, <2>7, <2>8, <2>9 DEF KnownInv
    <1>3. ASSUME NEW h \in Handlers, ServeSave(h) PROVE KnownInv'
        <2>1. KnownJobs'
            BY <1>3, <1>r, KnownMoves DEF ServeSave, Goto, KnownInv, KnownJobs, KnownJob, Jobs, JobsShape, table
        <2> QED BY <1>3, <2>1, KnownStays DEF ServeSave, table
    <1>4. ASSUME NEW h \in Handlers, ServeList(h) PROVE KnownInv'
        <2>1. job'[h].seen = job[h].seen /\ \A g \in Handlers \ {h} : job'[g] = job[g]
            BY <1>4, <1>r DEF ServeList, Jobs, JobsShape
        <2>2. sect \in Tables => KnownIds(RowIds(job'[h].ans))
            <3>1. job'[h].ans = IF sect \in Forms THEN set ELSE IF sect # "attachments" THEN rows ELSE PageFrom(job[h].from)
                BY <1>4, <1>r DEF ServeList, Jobs, JobsShape
            <3>2. RowIds(PageFrom(job[h].from)) \subseteq RowIds(rows)
                BY <1>r, PageIds DEF Jobs, ServerShape
            <3> QED BY <3>1, <3>2, Apart DEF KnownInv, KnownIds
        <2>3. KnownJobs'
            BY <1>4, <2>1, <2>2, KnownMoves DEF ServeList, KnownInv, KnownJobs, KnownJob, table
        <2> QED BY <1>4, <2>3, KnownStays DEF ServeList, table
    <1>5. ASSUME NEW h \in Handlers, Loaded(h) PROVE KnownInv'
        <2>1. KnownJobs'
            BY <1>5, <1>i, KnownMoves DEF Loaded, End, KnownInv, JobsShape
        <2>2. RowIds(view') \subseteq RowIds(view) \cup RowIds(job[h].ans)
            BY <1>5, ShownIds DEF Loaded, At, Tables
        <2>3. KnownIds(RowIds(job[h].ans))
            BY <1>5 DEF Loaded, At, Tables, KnownInv, KnownJobs, KnownJob
        <2> QED BY <1>5, <2>1, <2>2, <2>3 DEF Loaded, KnownInv, KnownIds
    <1>6. ASSUME NEW h \in Handlers, LoadFailed(h) PROVE KnownInv'
        <2>1. KnownJobs'
            <3> DEFINE j == [List(job[h]) EXCEPT !.retried = TRUE]
            <3>1. j.seen = job[h].seen /\ j.pc = "list"
                BY <1>r DEF List, Jobs
            <3>2. job' = [job EXCEPT ![h] = IF sect \in Queries /\ ~job[h].retried THEN j ELSE Again(job[h])]
                BY <1>6 DEF LoadFailed, JobsShape
            <3> HIDE DEF j
            <3>3. KnownJob(job'[h])
                BY <1>a, <3>1, <3>2 DEF KnownInv, KnownJobs, KnownJob, JobsShape
            <3> QED BY <1>6, <3>2, <3>3, KnownMoves DEF LoadFailed, KnownInv, JobsShape
        <2> QED BY <1>6, <2>1, KnownStays DEF LoadFailed, table
    <1>7. ASSUME NEW h \in Handlers, ReloadedClosing(h) PROVE KnownInv'
        <2>1. KnownJobs'
            BY <1>7, <1>i, KnownMoves DEF ReloadedClosing, End, KnownInv, JobsShape
        <2>2. RowIds(view') \subseteq RowIds(view) \cup RowIds(job[h].ans)
            BY <1>7, ShownIds DEF ReloadedClosing, At, Tables
        <2>3. KnownIds(RowIds(job[h].ans))
            BY <1>7 DEF ReloadedClosing, At, Tables, KnownInv, KnownJobs, KnownJob
        <2> QED BY <1>7, <2>1, <2>2, <2>3 DEF ReloadedClosing, KnownInv, KnownIds
    <1>8. ASSUME NEW h \in Handlers, Saved(h) PROVE KnownInv'
        <2>1. KnownJobs'
            BY <1>8, <1>i, KnownMoves DEF Saved, Reread, KnownInv, Handlers, JobsShape, table
        <2> QED BY <1>8, <2>1, KnownStays DEF Saved, table
    <1>9. ASSUME NEW h \in Handlers, SavedFields(h) PROVE KnownInv'
        <2>1. KnownJobs'
            BY <1>9, <1>i, KnownMoves DEF SavedFields, Reread, KnownInv, Handlers, JobsShape, table
        <2> QED BY <1>9, <2>1, KnownStays DEF SavedFields, table
    <1>10. ASSUME NEW h \in Handlers, Fetched(h) PROVE KnownInv'
        <2>1. KnownJobs'
            BY <1>10, <1>i, KnownMoves DEF Fetched, End, KnownInv, JobsShape, Handlers, table
        <2> QED BY <1>10, <2>1, KnownStays DEF Fetched, table
    <1>11. ASSUME NEW h \in Handlers, SaveFailed(h) PROVE KnownInv'
        <2>1. KnownJobs'
            <3> DEFINE j == [job[h] EXCEPT !.pc = "call", !.retried = TRUE]
            <3>1. j.seen = job[h].seen /\ j.pc = "call"
                BY <1>r DEF Jobs
            <3> HIDE DEF j
            <3>2. KnownJob(j)
                BY <3>1 DEF KnownInv, KnownJobs, KnownJob
            <3>3. KnownJob(job'[h]) /\ \A g \in Handlers \ {h} : job'[g] = job[g]
                BY <1>11, <1>i, <3>2 DEF SaveFailed, JobsShape, j
            <3> QED BY <1>11, <3>3, KnownMoves DEF SaveFailed, KnownInv, table
        <2> QED BY <1>11, <2>1, KnownStays DEF SaveFailed, table
    <1>12. ASSUME NEW h \in Handlers, Lose(h) PROVE KnownInv'
        <2>1. KnownJobs'
            <3>1. KnownJob(job'[h])
                BY <1>12, Lost DEF KnownInv, KnownJobs, KnownJob
            <3> QED BY <1>12, <3>1, Lost, KnownMoves DEF Lose, KnownInv, table
        <2> QED BY <1>12, <2>1, KnownStays DEF Lose, table
    <1>13. ASSUME NEW h \in Handlers, NEW i \in Ids, ServeDelete(h, i) PROVE KnownInv'
        <2>1. RowIds(rows') \subseteq RowIds(rows) /\ Distinct(rows')
            BY <1>13, WithoutRows DEF ServeDelete, KnownInv, ServerShape
        <2>2. KnownJobs'
            BY <1>13, <1>r, KnownMoves DEF ServeDelete, KnownInv, KnownJobs, KnownJob, Jobs, JobsShape
        <2> QED BY <1>13, <2>1, <2>2 DEF ServeDelete, KnownInv, KnownIds
    <1>14. CASE Deleted
        <2>1. KnownJobs'
            BY <1>14, <1>i, KnownMoves DEF Deleted, End, KnownInv, JobsShape, Handlers
        <2>2. job["confirm"].seen \in Seq(Row) /\ KnownIds(RowIds(job["confirm"].seen))
            BY <1>r DEF Jobs, KnownInv, KnownJobs, KnownJob, Handlers
        <2>3. RowIds(view') \subseteq RowIds(view) \cup RowIds(job["confirm"].seen)
            BY <1>14, <2>2, WithoutRows DEF Deleted, ServerShape
        <2> QED BY <1>14, <2>1, <2>2, <2>3 DEF Deleted, KnownInv, KnownIds
    <1>15. CASE ShortcutDeleted
        <2>1. KnownJobs'
            BY <1>15, <1>i, KnownMoves DEF ShortcutDeleted, Reread, KnownInv, Handlers, JobsShape, table
        <2> QED BY <1>15, <2>1, KnownStays DEF ShortcutDeleted, table
    <1>16. CASE ReloadAnyway
        <2>1. KnownJobs'
            BY <1>16, <1>i, KnownMoves DEF ReloadAnyway, Reread, KnownInv, Handlers, JobsShape, table
        <2> QED BY <1>16, <2>1, KnownStays DEF ReloadAnyway, table
    <1>17. CASE MemberArchived
        <2>1. KnownJobs'
            <3>1. KnownJob(job'["confirm"])
                BY <1>17, Archived DEF KnownInv, KnownJobs, KnownJob, Handlers
            <3> QED BY <1>17, <1>b, <3>1, Archived, KnownTwo DEF MemberArchived, KnownInv, Handlers
        <2> QED BY <1>17, <2>1, KnownStays DEF MemberArchived, table
    <1>18. CASE ArchiveEnds
        <2>1. KnownJobs'
            BY <1>18, <1>i, KnownMoves DEF ArchiveEnds, End, KnownInv, JobsShape, Handlers, table
        <2> QED BY <1>18, <2>1, KnownStays DEF ArchiveEnds, table
    <1>19. CASE UserDeleted
        <2>1. KnownJobs'
            <3>1. job' = [Refetch(job) EXCEPT !["confirm"] = Idle]
                BY <1>19 DEF UserDeleted
            <3>2. /\ job'["confirm"] = Idle /\ job'["load"] = Refetch(job)["load"]
                  /\ \A g \in Handlers \ {"confirm", "load"} : job'[g] = job[g]
                BY <3>1, Refetched DEF Handlers
            <3> QED BY <1>19, <1>i, <1>b, <3>2, KnownTwo DEF UserDeleted, KnownInv, Handlers
        <2> QED BY <1>19, <2>1, KnownStays DEF UserDeleted, table
    <1>20. CASE ConfirmFailed
        <2>1. KnownJobs'
            BY <1>20, <1>i, <1>r, KnownMoves
            DEF ConfirmFailed, List, KnownInv, KnownJobs, KnownJob, Handlers, Jobs, JobsShape, table
        <2> QED BY <1>20, <2>1, KnownStays DEF ConfirmFailed, table
    <1>21. CASE Submitted
        <2>1. KnownJobs'
            <3>1. CASE sect = "members"
                <4>1. job' = [Refetch(job) EXCEPT !["submit"] = Idle]
                    BY <1>21, <3>1 DEF Submitted
                <4>2. /\ job'["submit"] = Idle /\ job'["load"] = Refetch(job)["load"]
                      /\ \A g \in Handlers \ {"submit", "load"} : job'[g] = job[g]
                    BY <4>1, Refetched DEF Handlers
                <4> QED BY <1>21, <1>i, <1>b, <4>2, KnownTwo DEF Submitted, KnownInv, Handlers
            <3>2. CASE sect # "members"
                BY <1>21, <3>2, <1>i, KnownMoves DEF Submitted, KnownInv, Handlers, JobsShape
            <3> QED BY <3>1, <3>2
        <2> QED BY <1>21, <2>1, KnownStays DEF Submitted, table
    <1>22. CASE SubmitFailed
        <2>1. KnownJobs'
            BY <1>22, <1>i, KnownMoves DEF SubmitFailed, End, KnownInv, JobsShape, Handlers, table
        <2> QED BY <1>22, <2>1, KnownStays DEF SubmitFailed, table
    <1>23. CASE Restored
        <2>1. KnownJobs'
            <3>1. job' = [Refetch(job) EXCEPT !["row"] = Idle]
                BY <1>23 DEF Restored
            <3>2. /\ job'["row"] = Idle /\ job'["load"] = Refetch(job)["load"]
                  /\ \A g \in Handlers \ {"row", "load"} : job'[g] = job[g]
                BY <3>1, Refetched DEF Handlers
            <3> QED BY <1>23, <1>i, <1>b, <3>2, KnownTwo DEF Restored, KnownInv, Handlers
        <2> QED BY <1>23, <2>1, KnownStays DEF Restored, table
    <1>24. CASE RowDone
        <2>1. KnownJobs'
            BY <1>24, <1>i, KnownMoves DEF RowDone, End, KnownInv, JobsShape, Handlers, table
        <2> QED BY <1>24, <2>1, KnownStays DEF RowDone, table
    <1>25. CASE Age
        BY <1>25, KnownStill DEF Age, table
    <1>26. CASE Focus
        <2>1. KnownJobs'
            <3>1. job'["load"] = Refetch(job)["load"] /\ \A g \in Handlers \ {"load"} : job'[g] = job[g]
                BY <1>26, RefetchShape DEF Focus
            <3> QED BY <1>26, <1>b, <3>1, KnownMoves DEF Focus, KnownInv, Handlers
        <2> QED BY <1>26, <2>1, KnownStays DEF Focus, table
    <1>27. CASE OpenCreate
        BY <1>27, KnownStill DEF OpenCreate, table
    <1>28. CASE Cancel
        BY <1>28, KnownStill DEF Cancel, table
    <1>29. CASE Confirm
        <2>1. KnownJobs'
            BY <1>29, KnownBegins DEF Confirm, Saving, Call, List, Idle, Handlers, table
        <2> QED BY <1>29, <2>1, KnownStays DEF Confirm, table
    <1>30. CASE ConfirmDeleteUser
        <2>1. KnownJobs'
            BY <1>30, KnownBegins DEF ConfirmDeleteUser, Saving, Call, List, Idle, Handlers, table
        <2> QED BY <1>30, <2>1, KnownStays DEF ConfirmDeleteUser, table
    <1>31. CASE DeleteUnused
        <2>1. KnownJobs'
            BY <1>31, KnownBegins DEF DeleteUnused, Saving, Call, List, Idle, Handlers, table
        <2> QED BY <1>31, <2>1, KnownStays DEF DeleteUnused, table
    <1>32. CASE Submit
        <2>1. KnownJobs'
            BY <1>32, KnownBegins DEF Submit, Saving, Call, List, Idle, Handlers, table
        <2> QED BY <1>32, <2>1, KnownStays DEF Submit, table
    <1>33. CASE More
        <2>1. KnownJobs'
            BY <1>33, KnownBegins DEF More, Saving, Call, List, Idle, Handlers, table
        <2> QED BY <1>33, <2>1, KnownStays DEF More, table
    <1>34. CASE Save
        <2>1. KnownJobs'
            BY <1>34, KnownBegins DEF Save, Saving, Call, List, Idle, Handlers, table
        <2> QED BY <1>34, <2>1, KnownStays DEF Save, table
    <1>35. CASE SaveAccount
        <2>1. KnownJobs'
            BY <1>35, KnownBegins DEF SaveAccount, Saving, Call, List, Idle, Handlers, table
        <2> QED BY <1>35, <2>1, KnownStays DEF SaveAccount, table
    <1>36. CASE SaveProfile
        <2>1. KnownJobs'
            BY <1>36, KnownBegins DEF SaveProfile, Saving, Call, List, Idle, Handlers, table
        <2> QED BY <1>36, <2>1, KnownStays DEF SaveProfile, table
    <1>37. ASSUME NEW i \in Ids, OtherDelete(i) PROVE KnownInv'
        <2>1. RowIds(rows') \subseteq RowIds(rows) /\ Distinct(rows')
            BY <1>37, WithoutRows, MarkRows DEF OtherDelete, KnownInv, ServerShape
        <2> QED BY <1>37, <2>1 DEF OtherDelete, KnownInv, KnownJobs, KnownJob, KnownIds
    <1>38. ASSUME NEW i \in Ids, OtherMark(i) PROVE KnownInv'
        <2>1. RowIds(rows') \subseteq RowIds(rows) /\ Distinct(rows')
            BY <1>38, WithoutRows, MarkRows DEF OtherMark, KnownInv, ServerShape
        <2> QED BY <1>38, <2>1 DEF OtherMark, KnownInv, KnownJobs, KnownJob, KnownIds
    <1>39. ASSUME NEW i \in Ids, NEW mode \in Modes, Open(mode, i) PROVE KnownInv'
        BY <1>39, KnownStill DEF Open, table
    <1>40. ASSUME NEW i \in Ids, NEW mode \in Modes, RowButton(mode, i) PROVE KnownInv'
        <2>1. KnownJobs'
            BY <1>40, KnownBegins DEF RowButton, Saving, Call, List, Idle, Handlers, table
        <2> QED BY <1>40, <2>1, KnownStays DEF RowButton, table
    <1>41. ASSUME NEW v \in Values, EditProfile(v) PROVE KnownInv'
        BY <1>41, KnownStill DEF EditProfile, table
    <1>42. ASSUME NEW v \in Values, NEW f \in Fields, Edit(f, v) PROVE KnownInv'
        BY <1>42, KnownStill DEF Edit, table
    <1>43. ASSUME NEW v \in Values, NEW f \in Fields, OtherSave(f, v) PROVE KnownInv'
        BY <1>43, KnownStill DEF OtherSave, table
    <1>44. ASSUME NEW v \in Values, NEW f \in Fields, NEW h \in Handlers, Prefer(h, f, v)
           PROVE  KnownInv'
        <2>1. KnownJobs'
            <3>1. KnownJob(job'[h])
                BY <1>44, Preferred, NoRows DEF KnownJob
            <3>2. \A g \in Handlers \ {h} : KnownJob(job'[g])
                BY <1>44, Preferred DEF KnownInv, KnownJobs, KnownJob
            <3> QED BY <1>44, <3>1, <3>2, Preferred DEF KnownJobs, KnownJob, KnownIds
        <2> QED BY <1>44, <2>1, Preferred, KnownStays
    <1>45. ASSUME NEW v \in Values, NEW f \in Fields, PreferMenu(f, v)
           PROVE  KnownInv'
        <2>1. KnownJobs'
            BY <1>45, KnownBegins DEF PreferMenu, Saving, Call, List, Idle, Handlers, table
        <2> QED BY <1>45, <2>1, KnownStays DEF PreferMenu, table
    <1> QED
        BY <1>0, <1>1, <1>2, <1>3, <1>4, <1>5, <1>6, <1>7, <1>8, <1>9, <1>10, <1>11, <1>12, <1>13,
           <1>14, <1>15, <1>16, <1>17, <1>18, <1>19, <1>20, <1>21, <1>22, <1>23, <1>24, <1>25,
           <1>26, <1>27, <1>28, <1>29, <1>30, <1>31, <1>32, <1>33, <1>34, <1>35, <1>36, <1>37,
           <1>38, <1>39, <1>40, <1>41, <1>42, <1>43, <1>44, <1>45
        DEF Next, Progress, Choices


(* ---- what the user is told is deleted ---- *)
\* The dialog of a confirmation names a row that was shown, and that of the unused attachments is
\* open only while they are being deleted.
DialogOf ==
    dialog.kind = "confirm" =>
        /\ IF sect = "attachments" THEN ~Free("confirm") ELSE dialog.id \in Nat /\ dialog.id <= last
        /\ dialog.mode = "delete" \/ (dialog.mode = "archive" /\ sect = "members")

\* What has been asked for and is not to be deleted any more is gone, as long as no request failed.
ConfirmJob(j) ==
    /\ j.pc # "idle" => j.mode = "delete" \/ (j.mode = "archive" /\ sect = "members" /\ j.left = {})
    /\ j.left \subseteq j.ids /\ KnownIds(j.ids)
    /\ j.pc = "done" => j.left = {}
    /\ sect = "members" /\ j.pc # "idle" => \E i \in j.ids : j.ids = {i}
    /\ sect # "members" /\ j.pc \in {"call", "done"} => (j.ids \ j.left) \cap RowIds(rows) = {}

SaidOf ==
    /\ KnownIds(said)
    /\ IF sect # "members" THEN said \cap RowIds(rows) = {}
       ELSE ~blind => \A i \in said \cap RowIds(rows) : job["confirm"].pc = "call" /\ job["confirm"].left = {i}

ConfirmInv == sect \in Tables => DialogOf /\ ConfirmJob(job["confirm"]) /\ SaidOf

\* The confirmation stays; rows may go, and one may come.
LEMMA ConfirmStays ==
    ASSUME ConfirmInv, ServerShape, sect \in Tables, sect' = sect, job'["confirm"] = job["confirm"], said' = said,
           dialog' = dialog \/ dialog'.kind # "confirm",
           \/ RowIds(rows') \subseteq RowIds(rows) /\ last' = last
           \/ RowIds(rows') = RowIds(rows) \cup {last + 1} /\ last' = last + 1,
           blind => blind'
    PROVE  ConfirmInv'
    <1>1. last \in Nat /\ last' \in Nat /\ last <= last'
        BY DEF ServerShape
    <1>2. \A S : KnownIds(S) => KnownIds(S)'
        BY <1>1 DEF KnownIds
    <1>3. \A S : KnownIds(S) => S \cap RowIds(rows') \subseteq S \cap RowIds(rows)
        BY <1>1 DEF KnownIds
    <1>4. DialogOf'
        BY <1>1 DEF ConfirmInv, DialogOf, Free
    <1>5. ConfirmJob(job["confirm"]) /\ SaidOf
        BY DEF ConfirmInv
    <1> DEFINE c == job["confirm"]
    <1>6. ConfirmJob(job["confirm"])'
        <2>1. KnownIds(c.ids \ c.left)
            BY <1>5 DEF ConfirmJob, KnownIds
        <2> QED BY <1>2, <1>3, <1>5, <2>1 DEF ConfirmJob
    <1>7. SaidOf'
        BY <1>2, <1>3, <1>5 DEF SaidOf
    <1> QED BY <1>4, <1>6, <1>7 DEF ConfirmInv

\* The confirmation goes on, no longer asking the server.
LEMMA ConfirmMoves ==
    ASSUME ConfirmInv, sect \in Tables, sect' = sect, UNCHANGED <<rows, last>>, blind => blind',
           job["confirm"].pc # "idle", job["confirm"].pc # "call" \/ blind',
           \/ said' = said
           \/ said' = said \cup job["confirm"].ids /\ job["confirm"].pc = "done" /\ sect # "members",
           \/ dialog' = dialog /\ (sect = "attachments" => job'["confirm"].pc # "idle")
           \/ dialog'.kind # "confirm",
           \/ job'["confirm"] = Idle
           \/ /\ job'["confirm"].pc \notin {"idle", "call", "done"} /\ job'["confirm"].ids = job["confirm"].ids
              /\ job'["confirm"].mode = job["confirm"].mode /\ job'["confirm"].left \subseteq job["confirm"].left
    PROVE  ConfirmInv'
    <1> DEFINE c == job["confirm"]
               d == job'["confirm"]
    <1>1. ConfirmJob(c) /\ SaidOf /\ DialogOf
        BY DEF ConfirmInv
    <1>2. Idle.ids = {} /\ Idle.left = {} /\ Idle.pc = "idle"
        BY DEF Idle
    <1>3. ConfirmJob(job["confirm"])'
        BY <1>1, <1>2 DEF ConfirmJob, KnownIds
    <1>4. SaidOf'
        BY <1>1, <1>2 DEF ConfirmJob, SaidOf, KnownIds
    <1>5. DialogOf'
        BY <1>1, <1>2 DEF DialogOf, Free
    <1> QED BY <1>3, <1>4, <1>5 DEF ConfirmInv

LEMMA ConfirmInit == Init => ConfirmInv
    <1> SUFFICES ASSUME Init PROVE ConfirmInv
        OBVIOUS
    <1>1. job["confirm"] = Idle /\ dialog.kind = "none" /\ said = {}
        BY DEF Init, NoDialog, Handlers
    <1>2. Idle.ids = {} /\ Idle.left = {} /\ Idle.pc = "idle"
        BY DEF Idle
    <1> QED BY <1>1, <1>2 DEF ConfirmInv, DialogOf, ConfirmJob, SaidOf, KnownIds

LEMMA ConfirmStep == Shape /\ Alone /\ KnownInv /\ ConfirmInv /\ [Next]_vars => ConfirmInv'
    <1> SUFFICES ASSUME Shape, ServerShape, JobsShape, Alone, KnownInv, ConfirmInv, [Next]_vars, sect' = sect, sect \in Tables
                 PROVE  ConfirmInv'
        BY SectStays DEF Shape, ConfirmInv
    <1>f. sect \notin Forms
        BY Apart
    <1>r. \A h \in Handlers : job[h] \in Jobs
        BY DEF JobsShape
    <1>c. last \in Nat => [id |-> last + 1, marked |-> FALSE] \in Row
        BY DEF Row
    <1>n. NoDialog.kind = "none"
        BY DEF NoDialog
    <1>0. CASE UNCHANGED vars
        BY <1>0, ConfirmStays DEF vars
    <1>1. ASSUME NEW h \in Handlers, ServeMark(h) PROVE ConfirmInv'
        <2>0. RowIds(rows') = RowIds(rows)
            BY <1>1, MarkRows DEF ServeMark, ServerShape
        <2>1. CASE h # "confirm"
            <3>1. job'["confirm"] = job["confirm"]
                BY <1>1, <2>1 DEF ServeMark, Goto, JobsShape, Handlers
            <3> QED BY <1>1, <2>0, <3>1, ConfirmStays DEF ServeMark
        <2>2. CASE h = "confirm"
            <3>1. job["confirm"].pc = "call" /\ job["confirm"].mode # "delete"
                BY <1>1, <2>2 DEF ServeMark, At, Marks
            <3>2. job["confirm"].left = {} /\ sect = "members"
                BY <3>1 DEF ConfirmInv, ConfirmJob
            <3>3. /\ job'["confirm"].pc \in {"done", "refused"} /\ job'["confirm"].ids = job["confirm"].ids
                  /\ job'["confirm"].left = {} /\ job'["confirm"].mode = job["confirm"].mode
                BY <1>1, <1>r, <2>2, <3>2 DEF ServeMark, Goto, Jobs, JobsShape
            <3> QED BY <1>1, <2>0, <3>1, <3>2, <3>3
                    DEF ServeMark, ConfirmInv, ConfirmJob, SaidOf, DialogOf, KnownIds
        <2> QED BY <2>1, <2>2
    <1>2. ASSUME NEW h \in Handlers, ServeCreate(h) PROVE ConfirmInv'
        <2>1. h # "confirm"
            BY <1>2 DEF ServeCreate, At, Creates, ConfirmInv, ConfirmJob
        <2>2. job'["confirm"] = job["confirm"]
            BY <1>2, <2>1 DEF ServeCreate, Goto, JobsShape, Handlers
        <2>3. RowIds(rows') = RowIds(rows) \cup {last + 1} /\ last' = last + 1
            BY <1>2, <1>c, AppendRows DEF ServeCreate, ServerShape
        <2> QED BY <1>2, <2>2, <2>3, ConfirmStays DEF ServeCreate
    <1>3. ASSUME NEW h \in Handlers, ServeSave(h) PROVE ConfirmInv'
        <2>1. h # "confirm" => job'["confirm"] = job["confirm"]
            BY <1>3 DEF ServeSave, Goto, JobsShape, Handlers
        <2>2. h # "confirm"
            BY <1>3 DEF ServeSave, At, ConfirmInv, ConfirmJob
        <2> QED BY <1>3, <2>1, <2>2, ConfirmStays DEF ServeSave, table
    <1>4. ASSUME NEW h \in Handlers, ServeList(h) PROVE ConfirmInv'
        <2>1. CASE h # "confirm"
            <3>1. job'["confirm"] = job["confirm"]
                BY <1>4, <2>1 DEF ServeList, JobsShape, Handlers
            <3> QED BY <1>4, <3>1, ConfirmStays DEF ServeList, table
        <2>2. CASE h = "confirm"
            <3>1. /\ job'["confirm"].ids = job["confirm"].ids /\ job'["confirm"].left = job["confirm"].left
                  /\ job'["confirm"].mode = job["confirm"].mode /\ job'["confirm"].pc = "listed" /\ job["confirm"].pc = "list"
                BY <1>4, <1>r, <2>2 DEF ServeList, At, Jobs, JobsShape
            <3> QED BY <1>4, <3>1, ConfirmMoves DEF ServeList, table
        <2> QED BY <2>1, <2>2
    <1>5. ASSUME NEW h \in Handlers, Loaded(h) PROVE ConfirmInv'
        <2>1. CASE h # "confirm"
            <3>1. job'["confirm"] = job["confirm"]
                BY <1>5, <2>1 DEF Loaded, End, JobsShape, Handlers
            <3> QED BY <1>5, <1>n, <3>1, ConfirmStays DEF Loaded
        <2>2. CASE h = "confirm"
            <3>1. job'["confirm"] = Idle /\ job["confirm"].pc = "listed"
                BY <1>5, <2>2 DEF Loaded, End, At, JobsShape
            <3> QED BY <1>5, <1>n, <2>2, <3>1, ConfirmMoves DEF Loaded
        <2> QED BY <2>1, <2>2
    <1>6. ASSUME NEW h \in Handlers, LoadFailed(h) PROVE ConfirmInv'
        <2>1. CASE h # "confirm"
            <3>1. job'["confirm"] = job["confirm"]
                BY <1>6, <2>1 DEF LoadFailed, JobsShape, Handlers
            <3> QED BY <1>6, <1>n, <3>1, ConfirmStays DEF LoadFailed
        <2>2. CASE h = "confirm"
            <3> DEFINE j == [List(job["confirm"]) EXCEPT !.retried = TRUE]
            <3>1. /\ j.ids = job["confirm"].ids /\ j.left = job["confirm"].left /\ j.mode = job["confirm"].mode
                  /\ j.pc = "list" /\ job["confirm"].pc = "unlisted"
                BY <1>6, <1>r, <2>2 DEF LoadFailed, At, List, Jobs, Handlers
            <3>0. Again(job["confirm"]) = Idle
                BY <3>1, AgainIdle DEF ConfirmInv, ConfirmJob
            <3>2. job'["confirm"] = (IF sect \in Queries /\ ~job["confirm"].retried THEN j ELSE Idle)
                BY <1>6, <2>2, <3>0 DEF LoadFailed, JobsShape
            <3> HIDE DEF j
            <3>3. sect = "attachments" => sect \notin Queries
                BY DEF Queries
            <3> QED BY <1>6, <1>n, <2>2, <3>1, <3>2, <3>3, ConfirmMoves DEF LoadFailed
        <2> QED BY <2>1, <2>2
    <1>7. ASSUME NEW h \in Handlers, ReloadedClosing(h) PROVE ConfirmInv'
        <2>1. CASE h # "confirm"
            <3>1. job'["confirm"] = job["confirm"]
                BY <1>7, <2>1 DEF ReloadedClosing, End, JobsShape, Handlers
            <3> QED BY <1>7, <1>n, <3>1, ConfirmStays DEF ReloadedClosing
        <2>2. CASE h = "confirm"
            <3>1. job'["confirm"] = Idle /\ job["confirm"].pc = "listed"
                BY <1>7, <2>2 DEF ReloadedClosing, End, At, JobsShape
            <3> QED BY <1>7, <1>n, <2>2, <3>1, ConfirmMoves DEF ReloadedClosing
        <2> QED BY <2>1, <2>2
    <1>8. ASSUME NEW h \in Handlers, Saved(h) PROVE ConfirmInv'
        BY <1>8, <1>f DEF Saved, Forms, Whole
    <1>9. ASSUME NEW h \in Handlers, SavedFields(h) PROVE ConfirmInv'
        BY <1>9, <1>f DEF SavedFields, Forms, Whole
    <1>10. ASSUME NEW h \in Handlers, Fetched(h) PROVE ConfirmInv'
        BY <1>10, <1>f DEF Fetched, Forms, Whole
    <1>11. ASSUME NEW h \in Handlers, SaveFailed(h) PROVE ConfirmInv'
        BY <1>11, <1>f DEF SaveFailed, Forms, Whole
    <1>12. ASSUME NEW h \in Handlers, Lose(h) PROVE ConfirmInv'
        <2>1. CASE h # "confirm"
            <3>1. job'["confirm"] = job["confirm"]
                BY <1>12, <2>1 DEF Lose, JobsShape, Handlers
            <3> QED BY <1>12, <3>1, ConfirmStays DEF Lose, table
        <2>2. CASE h = "confirm"
            <3>1. /\ job'["confirm"].ids = job["confirm"].ids /\ job'["confirm"].left \subseteq job["confirm"].left
                  /\ job'["confirm"].mode = job["confirm"].mode /\ job'["confirm"].pc \in {"unlisted", "refused"}
                  /\ job["confirm"].pc # "idle"
                BY <1>12, <1>r, <2>2 DEF Lose, Jobs, JobsShape
            <3> QED BY <1>12, <3>1, ConfirmMoves DEF Lose, table
        <2> QED BY <2>1, <2>2
    <1>13. ASSUME NEW h \in Handlers, NEW i \in Ids, ServeDelete(h, i) PROVE ConfirmInv'
        <2>0. RowIds(rows') \subseteq RowIds(rows) /\ i \notin RowIds(rows')
            BY <1>13, WithoutRows DEF ServeDelete, ServerShape, KnownInv
        <2>1. CASE h # "confirm"
            <3>1. job'["confirm"] = job["confirm"]
                BY <1>13, <2>1 DEF ServeDelete, JobsShape, Handlers
            <3> QED BY <1>13, <2>0, <3>1, ConfirmStays DEF ServeDelete
        <2>2. CASE h = "confirm"
            <3> DEFINE c == job["confirm"]
                       d == job'["confirm"]
            <3>1. /\ d.ids = c.ids /\ d.left = c.left \ {i} /\ d.mode = c.mode
                  /\ d.pc = IF c.pc # "call" THEN c.pc ELSE IF i \notin RowIds(rows) THEN "refused"
                            ELSE IF c.left = {i} THEN "done" ELSE "call"
                BY <1>13, <1>r, <2>2 DEF ServeDelete, Jobs, JobsShape
            <3>2. i \in c.left /\ UNCHANGED <<said, dialog, last, blind>>
                BY <1>13, <2>2 DEF ServeDelete
            <3>3. ConfirmJob(c) /\ c.pc # "idle" /\ c.mode = "delete"
                BY <3>2 DEF ConfirmInv, ConfirmJob, Alone, Free, Handlers
            <3> HIDE DEF c, d
            <3>4. ConfirmJob(job["confirm"])'
                BY <2>0, <3>1, <3>2, <3>3 DEF ConfirmJob, KnownIds, c, d
            <3>5. SaidOf'
                BY <2>0, <3>1, <3>2, <3>3 DEF ConfirmInv, SaidOf, KnownIds, c, d
            <3>6. DialogOf'
                BY <3>1, <3>2, <3>3 DEF ConfirmInv, DialogOf, Free, c, d
            <3> QED BY <3>4, <3>5, <3>6 DEF ConfirmInv, d
        <2> QED BY <2>1, <2>2
    <1>14. CASE Deleted
        <2>1. job'["confirm"] = Idle /\ job["confirm"].pc = "done"
            BY <1>14 DEF Deleted, End, At, JobsShape, Handlers
        <2> QED BY <1>14, <1>n, <2>1, ConfirmMoves DEF Deleted, Told
    <1>15. CASE ShortcutDeleted
        <2>1. job'["confirm"] = List(job["confirm"]) /\ job["confirm"].pc \in {"done", "refused"}
            BY <1>15 DEF ShortcutDeleted, At, JobsShape, Handlers
        <2>2. /\ job'["confirm"].ids = job["confirm"].ids /\ job'["confirm"].left = job["confirm"].left
              /\ job'["confirm"].mode = job["confirm"].mode /\ job'["confirm"].pc = "list"
            BY <1>r, <2>1 DEF List, Jobs, Handlers
        <2> QED BY <1>15, <1>n, <2>1, <2>2, ConfirmMoves DEF ShortcutDeleted, Told, At
    <1>16. CASE ReloadAnyway
        <2>1. job'["confirm"] = List(job["confirm"]) /\ job["confirm"].pc \in {"done", "refused"}
            BY <1>16 DEF ReloadAnyway, At, JobsShape, Handlers
        <2>2. /\ job'["confirm"].ids = job["confirm"].ids /\ job'["confirm"].left = job["confirm"].left
              /\ job'["confirm"].mode = job["confirm"].mode /\ job'["confirm"].pc = "list"
            BY <1>r, <2>1 DEF List, Jobs, Handlers
        <2> QED BY <1>16, <1>n, <2>1, <2>2, ConfirmMoves DEF ReloadAnyway, Told, At
    <1>17. CASE MemberArchived
        <2>1. /\ job'["confirm"].ids = job["confirm"].ids /\ job'["confirm"].left = job["confirm"].left
              /\ job'["confirm"].mode = job["confirm"].mode /\ job'["confirm"].pc = "await"
              /\ job["confirm"].pc = "done"
            BY <1>17, <1>r, RefetchShape DEF MemberArchived, At, Jobs, Handlers
        <2> QED BY <1>17, <1>n, <2>1, ConfirmMoves DEF MemberArchived
    <1>18. CASE ArchiveEnds
        <2>1. job'["confirm"] = Idle /\ job["confirm"].pc \in {"await", "done"}
            BY <1>18, RefetchShape DEF ArchiveEnds, End, At, JobsShape, Handlers
        <2> QED BY <1>18, <1>n, <2>1, ConfirmMoves DEF ArchiveEnds, table
    <1>19. CASE UserDeleted
        <2>1. job'["confirm"] = Idle /\ job["confirm"].pc \in {"await", "done"}
            BY <1>19, RefetchShape DEF UserDeleted, End, At, JobsShape, Handlers
        <2> QED BY <1>19, <1>n, <2>1, ConfirmMoves DEF UserDeleted, table
    <1>20. CASE ConfirmFailed
        <2> DEFINE c == job["confirm"]
                   d == [c EXCEPT !.pc = "call", !.retried = TRUE, !.left = c.ids]
        <2>1. c.pc = "refused" /\ UNCHANGED <<rows, last, said, dialog, blind>> /\ sect # "attachments"
            BY <1>20 DEF ConfirmFailed, At, table
        <2>2. CASE job'["confirm"] = Idle
            BY <1>n, <2>1, <2>2, ConfirmMoves
        <2>3. CASE job'["confirm"] # Idle
            <3>1. job'["confirm"] = d /\ sect = "members" /\ c.mode = "delete"
                BY <1>20, <2>3 DEF ConfirmFailed, JobsShape, Handlers
            <3>2. d.pc = "call" /\ d.ids = c.ids /\ d.left = c.ids /\ d.mode = c.mode
                BY <1>r DEF Jobs, Handlers
            <3> HIDE DEF d
            <3>3. ConfirmJob(job["confirm"])'
                BY <2>1, <3>1, <3>2 DEF ConfirmInv, ConfirmJob, KnownIds
            <3>4. SaidOf'
                BY <2>1, <3>1 DEF ConfirmInv, SaidOf, KnownIds
            <3>5. DialogOf'
                BY <2>1 DEF ConfirmInv, DialogOf
            <3> QED BY <3>1, <3>3, <3>4, <3>5 DEF ConfirmInv
        <2> QED BY <2>2, <2>3
    <1>21. CASE Submitted
        <2>1. job'["confirm"] = job["confirm"]
            BY <1>21, RefetchShape DEF Submitted, Handlers, JobsShape
        <2> QED BY <1>21, <2>1, <1>n, ConfirmStays DEF Submitted
    <1>22. CASE SubmitFailed
        BY <1>22, ConfirmStays DEF SubmitFailed, End, Handlers, JobsShape, table
    <1>23. CASE Restored
        BY <1>23, RefetchShape, ConfirmStays DEF Restored, Handlers, JobsShape, table
    <1>24. CASE RowDone
        BY <1>24, ConfirmStays DEF RowDone, End, Handlers, JobsShape, table
    <1>25. CASE Age
        BY <1>25, ConfirmStays DEF Age
    <1>26. CASE Focus
        BY <1>26, RefetchShape, ConfirmStays DEF Focus, Handlers, JobsShape, table
    <1>27. CASE OpenCreate
        BY <1>27, ConfirmStays DEF OpenCreate
    <1>28. CASE Cancel
        BY <1>28, <1>n, ConfirmStays DEF Cancel
    <1>29. CASE Confirm
        <2> DEFINE j == [Call(dialog.mode) EXCEPT !.ids = {dialog.id}, !.seen = view,
                           !.left = IF dialog.mode = "delete" THEN {dialog.id} ELSE {}]
        <2>1. j.pc = "call" /\ j.ids = {dialog.id}
                 /\ j.left = (IF dialog.mode = "delete" THEN {dialog.id} ELSE {}) /\ j.mode = dialog.mode
            BY DEF Call, Idle
        <2>2. job["confirm"].pc = "idle" /\ job'["confirm"] = j
            BY <1>29 DEF Confirm, Begin, Free, JobsShape, Handlers
        <2> HIDE DEF j
        <2>7. Free("confirm") /\ (dialog.kind = "confirm" /\ DialogOf => sect # "attachments")
            BY <1>29 DEF Confirm, Begin, DialogOf
        <2>3. DialogOf /\ dialog.kind = "confirm" /\ sect # "attachments" /\ UNCHANGED <<said, dialog>>
                 /\ UNCHANGED <<rows, last, blind>>
            BY <1>29, <1>n, <2>7 DEF Confirm, ConfirmInv, table
        <2>4. ConfirmJob(job["confirm"])'
            BY <2>1, <2>2, <2>3 DEF ConfirmJob, KnownIds, DialogOf
        <2>5. SaidOf'
            BY <2>1, <2>2, <2>3 DEF ConfirmInv, SaidOf, KnownIds, DialogOf
        <2>6. DialogOf'
            BY <2>1, <2>2, <2>3 DEF DialogOf, Free
        <2> QED BY <2>2, <2>4, <2>5, <2>6 DEF ConfirmInv
    <1>30. CASE ConfirmDeleteUser
        <2> DEFINE j == [Call("delete") EXCEPT !.ids = {dialog.id}, !.left = {dialog.id}]
        <2>1. j.pc = "call" /\ j.ids = {dialog.id} /\ j.left = {dialog.id} /\ j.mode = "delete"
            BY DEF Call, Idle
        <2>2. job["confirm"].pc = "idle" /\ job'["confirm"] = j
            BY <1>30 DEF ConfirmDeleteUser, Begin, Free, JobsShape, Handlers
        <2> HIDE DEF j
        <2>3. DialogOf /\ dialog.kind = "confirm" /\ sect = "members" /\ said' = said \cup {dialog.id}
                 /\ dialog'.kind = "none" /\ UNCHANGED <<rows, last, blind>>
            BY <1>30, <1>n DEF ConfirmDeleteUser, ConfirmInv, table
        <2>4. ConfirmJob(job["confirm"])'
            BY <2>1, <2>2, <2>3 DEF ConfirmJob, KnownIds, DialogOf
        <2>5. SaidOf'
            BY <2>1, <2>2, <2>3 DEF ConfirmInv, SaidOf, KnownIds, DialogOf
        <2>6. DialogOf'
            BY <2>1, <2>2, <2>3 DEF DialogOf, Free
        <2> QED BY <2>2, <2>4, <2>5, <2>6 DEF ConfirmInv
    <1>31. CASE DeleteUnused
        <2> DEFINE j == [Call("delete") EXCEPT !.ids = Unused, !.left = Unused]
        <2>1. j.pc = "call" /\ j.ids = Unused /\ j.left = Unused /\ j.mode = "delete"
            BY DEF Call, Idle
        <2>2. job["confirm"].pc = "idle" /\ job'["confirm"] = j
            BY <1>31 DEF DeleteUnused, Begin, Free, JobsShape, Handlers
        <2> HIDE DEF j
        <2>7. KnownIds(Unused)
            <3>1. Unused \subseteq RowIds(view)
                BY DEF Unused, RowIds
            <3> QED BY <3>1 DEF KnownInv, KnownIds
        <2>3. KnownIds(Unused) /\ sect = "attachments" /\ said' = said /\ dialog'.mode = "delete"
                 /\ UNCHANGED <<rows, last, blind>>
            BY <1>31, <1>n, <2>7 DEF DeleteUnused, ConfirmInv, table
        <2>4. ConfirmJob(job["confirm"])'
            BY <2>1, <2>2, <2>3 DEF ConfirmJob, KnownIds, DialogOf
        <2>5. SaidOf'
            BY <2>1, <2>2, <2>3 DEF ConfirmInv, SaidOf, KnownIds, DialogOf
        <2>6. DialogOf'
            BY <2>1, <2>2, <2>3 DEF DialogOf, Free
        <2> QED BY <2>2, <2>4, <2>5, <2>6 DEF ConfirmInv
    <1>32. CASE Submit
        BY <1>32, ConfirmStays DEF Submit, Begin, Handlers, JobsShape, table
    <1>33. CASE More
        BY <1>33, ConfirmStays DEF More, Begin, Handlers, JobsShape, table
    <1>34. CASE Save
        BY <1>34, <1>f DEF Save, Forms, Whole
    <1>35. CASE SaveAccount
        BY <1>35, <1>f DEF SaveAccount, Forms, Whole
    <1>36. CASE SaveProfile
        BY <1>36, <1>f DEF SaveProfile, Forms, Whole
    <1>37. ASSUME NEW i \in Ids, OtherDelete(i) PROVE ConfirmInv'
        <2>1. RowIds(rows') \subseteq RowIds(rows)
            BY <1>37, WithoutRows, MarkRows DEF OtherDelete, ServerShape
        <2> QED BY <1>37, <2>1, ConfirmStays DEF OtherDelete
    <1>38. ASSUME NEW i \in Ids, OtherMark(i) PROVE ConfirmInv'
        <2>1. RowIds(rows') \subseteq RowIds(rows)
            BY <1>38, WithoutRows, MarkRows DEF OtherMark, ServerShape
        <2> QED BY <1>38, <2>1, ConfirmStays DEF OtherMark
    <1>39. ASSUME NEW i \in Ids, NEW mode \in Modes, Open(mode, i) PROVE ConfirmInv'
        <2>1. dialog'.kind = "confirm" => CanAsk(mode, i) /\ mode # "edit" /\ dialog'.mode = mode /\ dialog'.id = i
            BY <1>39 DEF Open
        <2>2. CanAsk(mode, i) => i \in RowIds(view)
            BY DEF CanAsk, Visible, RowIds
        <2>3. dialog'.kind = "confirm" => i \in Nat /\ i <= last
            BY <2>1, <2>2 DEF KnownInv, KnownIds
        <2>4. dialog'.kind = "confirm" => sect # "attachments" /\ (mode = "delete" \/ (mode = "archive" /\ sect = "members"))
            BY <2>1 DEF CanAsk
        <2>5. DialogOf'
            BY <1>39, <2>1, <2>3, <2>4 DEF DialogOf, Open
        <2> QED BY <1>39, <2>5 DEF Open, ConfirmInv, ConfirmJob, SaidOf, KnownIds
    <1>40. ASSUME NEW i \in Ids, NEW mode \in Modes, RowButton(mode, i) PROVE ConfirmInv'
        BY <1>40, ConfirmStays DEF RowButton, Begin, Handlers, JobsShape, table
    <1>41. ASSUME NEW v \in Values, EditProfile(v) PROVE ConfirmInv'
        BY <1>41, <1>f DEF EditProfile, Forms, Whole
    <1>42. ASSUME NEW v \in Values, NEW f \in Fields, Edit(f, v) PROVE ConfirmInv'
        BY <1>42, <1>f DEF Edit, Forms, Whole
    <1>43. ASSUME NEW v \in Values, NEW f \in Fields, OtherSave(f, v) PROVE ConfirmInv'
        BY <1>43, <1>f DEF OtherSave, Forms, Whole
    <1>44. ASSUME NEW v \in Values, NEW f \in Fields, NEW h \in Handlers, Prefer(h, f, v)
           PROVE  ConfirmInv'
        BY <1>44, <1>f DEF Prefer, Silenced, Forms, Whole
    <1>45. ASSUME NEW v \in Values, NEW f \in Fields, PreferMenu(f, v)
           PROVE  ConfirmInv'
        BY <1>45, <1>f DEF PreferMenu, Forms, Whole
    <1> QED
        BY <1>0, <1>1, <1>2, <1>3, <1>4, <1>5, <1>6, <1>7, <1>8, <1>9, <1>10, <1>11, <1>12, <1>13,
           <1>14, <1>15, <1>16, <1>17, <1>18, <1>19, <1>20, <1>21, <1>22, <1>23, <1>24, <1>25,
           <1>26, <1>27, <1>28, <1>29, <1>30, <1>31, <1>32, <1>33, <1>34, <1>35, <1>36, <1>37,
           <1>38, <1>39, <1>40, <1>41, <1>42, <1>43, <1>44, <1>45
        DEF Next, Progress, Choices

TableInv == Shape /\ Alone /\ KnownInv /\ ConfirmInv

LEMMA TableInit == Init => TableInv
    BY ShapeInit, AloneInit, KnownInit, ConfirmInit DEF TableInv

LEMMA TableStep == TableInv /\ [Next]_vars => TableInv'
    BY ShapeStep, AloneStep, KnownStep, ConfirmStep DEF TableInv, Shape

\* The rows a client was told of were created, and those confirmed and not to be deleted any more
\* are gone.
THEOREM TablesAreKept == Spec => []TableInv
    <1> QED BY TableInit, TableStep, PTL DEF Spec

\* SaidDeleted: a row that the user was told is deleted is gone from the server; but for a member,
\* who is told of before the server is asked, when the deletion is under way or has failed.
THEOREM DeletedIsGone == Spec => []SaidDeleted
    <1>1. FormsInv /\ TableInv => SaidDeleted
        <2> SUFFICES ASSUME FormsInv, TableInv, NEW i \in said \cap RowIds(rows)
                     PROVE  sect = "members" /\ (blind \/ ~Free("confirm"))
            BY DEF SaidDeleted
        <2>1. sect \in Tables
            BY DEF FormsInv, FormBase, Shape
        <2> QED BY <2>1 DEF TableInv, ConfirmInv, SaidOf, Free
    <1> QED BY <1>1, FormsAreKept, TablesAreKept, PTL

(* ---- the attachments ---- *)
\* Nothing is created and nothing updated, and a page is loaded or the unused ones are deleted.
AttMode(j) == j.mode \in {"none", "delete", "more"} /\ j.pc # "await"
AttBase == dialog.kind # "submit" /\ Free("submit") /\ \A h \in Handlers : AttMode(job[h])

AttStep ==
    \/ \E h \in Handlers : \/ ServeList(h) \/ Loaded(h) \/ LoadFailed(h) \/ ReloadedClosing(h)
                           \/ \E i \in Ids : ServeDelete(h, i)
    \/ ReloadAnyway \/ Cancel \/ DeleteUnused \/ More
    \/ blind'

LEMMA AttMoves ==
    ASSUME AttBase, NEW h \in Handlers \ {"submit"}, \A g \in Handlers \ {h} : job'[g] = job[g],
           AttMode(job'[h]), dialog' = dialog \/ dialog'.kind # "submit"
    PROVE  AttBase'
    BY DEF AttBase, AttMode, Free, Handlers

LEMMA AttBaseInit == Init /\ sect = "attachments" => AttBase
    <1>1. AttMode(Idle) /\ AttMode(List(Idle)) /\ Idle.pc = "idle"
        BY IdleShape DEF AttMode, List, Idle
    <1> QED BY <1>1 DEF Init, Queries, AttBase, NoDialog, Free, Handlers

LEMMA AttSteps == TableInv /\ AttBase /\ sect = "attachments" /\ [Next]_vars => AttBase' /\ (AttStep \/ UNCHANGED vars)
    <1> SUFFICES ASSUME TableInv, JobsShape, AttBase, sect = "attachments", [Next]_vars
                 PROVE  AttBase' /\ (AttStep \/ UNCHANGED vars)
        BY DEF TableInv, Shape
    <1>r. \A h \in Handlers : job[h] \in Jobs
        BY DEF JobsShape
    <1>t. /\ sect \notin Forms /\ sect \notin Queries /\ sect \notin Whole /\ sect \in Tables
          /\ sect \notin {"webhooks", "tokens", "idps", "shortcuts", "members", "inbox", "account", "preferences", "instance"}
          /\ dialog.kind = "confirm" => ~Free("confirm")
        BY DEF Tables, Queries, Forms, Whole, TableInv, ConfirmInv, DialogOf
    <1>d. NoDialog.kind = "none"
        BY DEF NoDialog
    <1>0. CASE UNCHANGED vars
        BY <1>0 DEF vars, AttBase, Free
    <1>1. ASSUME NEW h \in Handlers, ServeMark(h) PROVE AttBase' /\ (AttStep \/ UNCHANGED vars)
        BY <1>1, <1>t DEF ServeMark, At, Free, AttBase, AttMode, Marks, Creates, CanAsk, Begin, Handlers
    <1>2. ASSUME NEW h \in Handlers, ServeCreate(h) PROVE AttBase' /\ (AttStep \/ UNCHANGED vars)
        BY <1>2, <1>t DEF ServeCreate, At, Free, AttBase, AttMode, Marks, Creates, CanAsk, Begin, Handlers
    <1>3. ASSUME NEW h \in Handlers, ServeSave(h) PROVE AttBase' /\ (AttStep \/ UNCHANGED vars)
        BY <1>3, <1>t DEF ServeSave, At, Free, AttBase, AttMode, Marks, Creates, CanAsk, Begin, Handlers
    <1>4. ASSUME NEW h \in Handlers, ServeList(h) PROVE AttBase' /\ (AttStep \/ UNCHANGED vars)
        <2>1. h # "submit" /\ job'[h].mode = job[h].mode /\ job'[h].pc # "await"
            BY <1>4, <1>r DEF ServeList, At, Free, AttBase, Jobs, JobsShape
        <2>2. AttMode(job'[h])
            BY <2>1 DEF AttBase, AttMode
        <2> QED BY <1>4, <2>1, <2>2, AttMoves DEF ServeList, AttStep, JobsShape, table
    <1>5. ASSUME NEW h \in Handlers, Loaded(h) PROVE AttBase' /\ (AttStep \/ UNCHANGED vars)
        <2>1. h # "submit" /\ job'[h] = Idle
            BY <1>5 DEF Loaded, At, Free, AttBase, End, JobsShape
        <2> QED BY <1>5, <1>d, <2>1, IdleShape, AttMoves DEF Loaded, End, AttStep, AttMode, JobsShape
    <1>6. ASSUME NEW h \in Handlers, LoadFailed(h) PROVE AttBase' /\ (AttStep \/ UNCHANGED vars)
        <2>1. h # "submit" /\ job'[h] = Idle
            BY <1>6, <1>t, AgainIdle DEF LoadFailed, At, Free, AttBase, AttMode, JobsShape
        <2> QED BY <1>6, <1>d, <2>1, IdleShape, AttMoves DEF LoadFailed, AttStep, AttMode, JobsShape
    <1>7. ASSUME NEW h \in Handlers, ReloadedClosing(h) PROVE AttBase' /\ (AttStep \/ UNCHANGED vars)
        <2>1. h # "submit" /\ job'[h] = Idle
            BY <1>7 DEF ReloadedClosing, At, Free, AttBase, End, JobsShape
        <2> QED BY <1>7, <1>d, <2>1, IdleShape, AttMoves DEF ReloadedClosing, End, AttStep, AttMode, JobsShape
    <1>8. ASSUME NEW h \in Handlers, Saved(h) PROVE AttBase' /\ (AttStep \/ UNCHANGED vars)
        BY <1>8, <1>t DEF Saved, At, Free, AttBase, AttMode, Marks, Creates, CanAsk, Begin, Handlers
    <1>9. ASSUME NEW h \in Handlers, SavedFields(h) PROVE AttBase' /\ (AttStep \/ UNCHANGED vars)
        BY <1>9, <1>t DEF SavedFields, At, Free, AttBase, AttMode, Marks, Creates, CanAsk, Begin, Handlers
    <1>10. ASSUME NEW h \in Handlers, Fetched(h) PROVE AttBase' /\ (AttStep \/ UNCHANGED vars)
        BY <1>10, <1>t DEF Fetched, At, Free, AttBase, AttMode, Marks, Creates, CanAsk, Begin, Handlers
    <1>11. ASSUME NEW h \in Handlers, SaveFailed(h) PROVE AttBase' /\ (AttStep \/ UNCHANGED vars)
        BY <1>11, <1>t DEF SaveFailed, At, Free, AttBase, AttMode, Marks, Creates, CanAsk, Begin, Handlers
    <1>12. ASSUME NEW h \in Handlers, Lose(h) PROVE AttBase' /\ (AttStep \/ UNCHANGED vars)
        <2>1. h # "submit" /\ job'[h].mode = job[h].mode /\ job'[h].pc # "await"
            BY <1>12, <1>r DEF Lose, Free, AttBase, Jobs, JobsShape
        <2>2. AttMode(job'[h])
            BY <2>1 DEF AttBase, AttMode
        <2> QED BY <1>12, <2>1, <2>2, AttMoves DEF Lose, AttStep, JobsShape, table
    <1>13. ASSUME NEW h \in Handlers, NEW i \in Ids, ServeDelete(h, i)
           PROVE  AttBase' /\ (AttStep \/ UNCHANGED vars)
        <2>1. h # "submit"
            BY <1>13 DEF ServeDelete, AttBase, TableInv, Alone
        <2>2. job'[h].mode = job[h].mode /\ (job'[h].pc = "await" => job[h].pc = "await")
            BY <1>13, <1>r DEF ServeDelete, Jobs, JobsShape
        <2>3. AttMode(job'[h])
            BY <2>2 DEF AttBase, AttMode
        <2> QED BY <1>13, <2>1, <2>3, AttMoves DEF ServeDelete, AttStep, JobsShape
    <1>14. CASE Deleted
        BY <1>14, <1>t DEF Deleted, At, Free, AttBase, AttMode, Marks, Creates, CanAsk, Begin, Handlers
    <1>15. CASE ShortcutDeleted
        BY <1>15, <1>t DEF ShortcutDeleted, At, Free, AttBase, AttMode, Marks, Creates, CanAsk, Begin, Handlers
    <1>16. CASE ReloadAnyway
        <2>1. job' = [job EXCEPT !["confirm"] = List(job["confirm"])] 
            BY <1>16 DEF ReloadAnyway
        <2>2. List(job["confirm"]).mode = job["confirm"].mode /\ List(job["confirm"]).pc = "list"
            BY <1>r DEF List, Jobs, Handlers
        <2>3. AttMode(List(job["confirm"]))
            BY <2>2 DEF AttBase, AttMode, Handlers
        <2> QED BY <1>16, <2>1, <2>3, AttMoves DEF ReloadAnyway, AttStep, JobsShape, Handlers
    <1>17. CASE MemberArchived
        BY <1>17, <1>t DEF MemberArchived, At, Free, AttBase, AttMode, Marks, Creates, CanAsk, Begin, Handlers
    <1>18. CASE ArchiveEnds
        BY <1>18, <1>t DEF ArchiveEnds, At, Free, AttBase, AttMode, Marks, Creates, CanAsk, Begin, Handlers
    <1>19. CASE UserDeleted
        BY <1>19, <1>t DEF UserDeleted, At, Free, AttBase, AttMode, Marks, Creates, CanAsk, Begin, Handlers
    <1>20. CASE ConfirmFailed
        BY <1>20, <1>t DEF ConfirmFailed, At, Free, AttBase, AttMode, Marks, Creates, CanAsk, Begin, Handlers
    <1>21. CASE Submitted
        BY <1>21, <1>t DEF Submitted, At, Free, AttBase, AttMode, Marks, Creates, CanAsk, Begin, Handlers
    <1>22. CASE SubmitFailed
        BY <1>22, <1>t DEF SubmitFailed, At, Free, AttBase, AttMode, Marks, Creates, CanAsk, Begin, Handlers
    <1>23. CASE Restored
        BY <1>23, <1>t DEF Restored, At, Free, AttBase, AttMode, Marks, Creates, CanAsk, Begin, Handlers
    <1>24. CASE RowDone
        BY <1>24, <1>t DEF RowDone, At, Free, AttBase, AttMode, Marks, Creates, CanAsk, Begin, Handlers
    <1>25. CASE Age
        BY <1>25, <1>t DEF Age, At, Free, AttBase, AttMode, Marks, Creates, CanAsk, Begin, Handlers
    <1>26. CASE Focus
        BY <1>26, <1>t DEF Focus, At, Free, AttBase, AttMode, Marks, Creates, CanAsk, Begin, Handlers
    <1>27. CASE OpenCreate
        BY <1>27, <1>t DEF OpenCreate, At, Free, AttBase, AttMode, Marks, Creates, CanAsk, Begin, Handlers
    <1>28. CASE Cancel
        BY <1>28, <1>d DEF Cancel, AttBase, AttStep, Free
    <1>29. CASE Confirm
        BY <1>29, <1>t DEF Confirm, At, Free, AttBase, AttMode, Marks, Creates, CanAsk, Begin, Handlers
    <1>30. CASE ConfirmDeleteUser
        BY <1>30, <1>t
        DEF ConfirmDeleteUser, At, Free, AttBase, AttMode, Marks, Creates, CanAsk, Begin, Handlers
    <1>31. CASE DeleteUnused
        <2> DEFINE j == [Call("delete") EXCEPT !.ids = Unused, !.left = Unused]
        <2>1. j.mode = "delete" /\ j.pc = "call"
            BY DEF Call, Idle
        <2> HIDE DEF j
        <2>2. job' = [job EXCEPT !["confirm"] = j] /\ dialog'.kind = "confirm"
            BY <1>31 DEF DeleteUnused, Begin, j
        <2> QED BY <1>31, <2>1, <2>2, AttMoves DEF AttStep, AttMode, JobsShape, Handlers
    <1>32. CASE Submit
        BY <1>32, <1>t DEF Submit, At, Free, AttBase, AttMode, Marks, Creates, CanAsk, Begin, Handlers
    <1>33. CASE More
        <2> DEFINE j == [List(Idle) EXCEPT !.mode = "more", !.from = page]
        <2>1. j.mode = "more" /\ j.pc = "list"
            BY DEF List, Idle
        <2> HIDE DEF j
        <2>2. job' = [job EXCEPT !["row"] = j] /\ dialog' = dialog
            BY <1>33 DEF More, Begin, j, table
        <2> QED BY <1>33, <2>1, <2>2, AttMoves DEF AttStep, AttMode, JobsShape, Handlers
    <1>34. CASE Save
        BY <1>34, <1>t DEF Save, At, Free, AttBase, AttMode, Marks, Creates, CanAsk, Begin, Handlers
    <1>35. CASE SaveAccount
        BY <1>35, <1>t DEF SaveAccount, At, Free, AttBase, AttMode, Marks, Creates, CanAsk, Begin, Handlers
    <1>36. CASE SaveProfile
        BY <1>36, <1>t DEF SaveProfile, At, Free, AttBase, AttMode, Marks, Creates, CanAsk, Begin, Handlers
    <1>37. ASSUME NEW i \in Ids, OtherDelete(i) PROVE AttBase' /\ (AttStep \/ UNCHANGED vars)
        BY <1>37 DEF OtherDelete, AttBase, AttStep, Free
    <1>38. ASSUME NEW i \in Ids, OtherMark(i) PROVE AttBase' /\ (AttStep \/ UNCHANGED vars)
        BY <1>38 DEF OtherMark, AttBase, AttStep, Free
    <1>39. ASSUME NEW i \in Ids, NEW mode \in Modes, Open(mode, i) PROVE AttBase' /\ (AttStep \/ UNCHANGED vars)
        BY <1>39, <1>t DEF Open, At, Free, AttBase, AttMode, Marks, Creates, CanAsk, Begin, Handlers
    <1>40. ASSUME NEW i \in Ids, NEW mode \in Modes, RowButton(mode, i)
           PROVE  AttBase' /\ (AttStep \/ UNCHANGED vars)
        BY <1>40, <1>t DEF RowButton, At, Free, AttBase, AttMode, Marks, Creates, CanAsk, Begin, Handlers
    <1>41. ASSUME NEW v \in Values, EditProfile(v) PROVE AttBase' /\ (AttStep \/ UNCHANGED vars)
        BY <1>41, <1>t DEF EditProfile, At, Free, AttBase, AttMode, Marks, Creates, CanAsk, Begin, Handlers
    <1>42. ASSUME NEW v \in Values, NEW f \in Fields, Edit(f, v) PROVE AttBase' /\ (AttStep \/ UNCHANGED vars)
        BY <1>42, <1>t DEF Edit, At, Free, AttBase, AttMode, Marks, Creates, CanAsk, Begin, Handlers
    <1>43. ASSUME NEW v \in Values, NEW f \in Fields, OtherSave(f, v)
           PROVE  AttBase' /\ (AttStep \/ UNCHANGED vars)
        BY <1>43, <1>t DEF OtherSave, At, Free, AttBase, AttMode, Marks, Creates, CanAsk, Begin, Handlers
    <1>44. ASSUME NEW v \in Values, NEW f \in Fields, NEW h \in Handlers, Prefer(h, f, v)
           PROVE  AttBase' /\ (AttStep \/ UNCHANGED vars)
        BY <1>44, <1>t DEF Prefer, Silenced, At, Free, AttBase, AttMode, Marks, Creates, CanAsk, Begin, Handlers
    <1>45. ASSUME NEW v \in Values, NEW f \in Fields, PreferMenu(f, v)
           PROVE  AttBase' /\ (AttStep \/ UNCHANGED vars)
        BY <1>45, <1>t DEF PreferMenu, At, Free, AttBase, AttMode, Marks, Creates, CanAsk, Begin, Handlers
    <1> QED
        BY <1>0, <1>1, <1>2, <1>3, <1>4, <1>5, <1>6, <1>7, <1>8, <1>9, <1>10, <1>11, <1>12, <1>13,
           <1>14, <1>15, <1>16, <1>17, <1>18, <1>19, <1>20, <1>21, <1>22, <1>23, <1>24, <1>25,
           <1>26, <1>27, <1>28, <1>29, <1>30, <1>31, <1>32, <1>33, <1>34, <1>35, <1>36, <1>37,
           <1>38, <1>39, <1>40, <1>41, <1>42, <1>43, <1>44, <1>45
        DEF Next, Progress, Choices

\* The first attachment is the memo's, and no other: it is shown so, and nothing asks to delete it.
Marked(s) == \A n \in DOMAIN s : s[n].marked <=> s[n].id = 1
MarkJob(j) == 1 \notin j.left /\ (j.pc = "listed" => Marked(j.ans))
MarkInv ==
    sect = "attachments" => AttBase /\ (~blind => Marked(rows) /\ Marked(view) /\ \A h \in Handlers : MarkJob(job[h]))

LEMMA MarkMoves ==
    ASSUME NEW h \in Handlers, \A g \in Handlers : MarkJob(job[g]), \A g \in Handlers \ {h} : job'[g] = job[g],
           MarkJob(job'[h])
    PROVE  \A g \in Handlers : MarkJob(job'[g])
    OBVIOUS

LEMMA MarkInit == Init => MarkInv
    <1> SUFFICES ASSUME Init, sect = "attachments" PROVE MarkInv
        BY DEF MarkInv
    <1>1. sect \in Tables
        BY DEF Tables
    <1>2. Marked(rows) /\ Marked(view)
        <2> DEFINE m(i) == i = 1 /\ sect \in {"members", "attachments"}
                   r(i) == [id |-> i, marked |-> m(i)]
        <2>1. DOMAIN rows = 1..2 /\ \A i \in 1..2 : rows[i] = r(i)
            BY <1>1 DEF Init
        <2>2. \A i \in 1..2 : r(i).id = i /\ r(i).marked = m(i)
            OBVIOUS
        <2>3. \A i \in 1..2 : m(i) = (i = 1)
            OBVIOUS
        <2> HIDE DEF m, r
        <2>4. \A i \in DOMAIN rows : rows[i].id = i /\ rows[i].marked = (i = 1)
            BY <2>1, <2>2, <2>3
        <2>5. Marked(rows)
            BY <2>4 DEF Marked
        <2> QED BY <2>5 DEF Init, Marked
    <1>3. MarkJob(Idle) /\ MarkJob(List(Idle))
        BY IdleShape, ListShape DEF MarkJob, List, Idle
    <1> QED BY <1>2, <1>3, AttBaseInit DEF Init, Queries, MarkInv

LEMMA MarkStep == TableInv /\ TableInv' /\ MarkInv /\ [Next]_vars => MarkInv'
    <1> SUFFICES ASSUME TableInv, Shape, ServerShape, JobsShape, MarkInv, [Next]_vars, sect = "attachments"
                 PROVE  MarkInv'
        BY SectStays DEF TableInv, Shape, MarkInv
    <1>a. AttBase' /\ (AttStep \/ UNCHANGED vars)
        BY AttSteps DEF MarkInv
    <1>b. blind \in BOOLEAN /\ (blind => blind')
        BY SectStays DEF TableInv, Shape, FlagsShape
    <1> SUFFICES ASSUME ~blind', AttStep
                 PROVE  Marked(rows') /\ Marked(view') /\ \A h \in Handlers : MarkJob(job'[h])
        <2>1. UNCHANGED vars => MarkInv'
            BY <1>a DEF MarkInv, vars, Marked, MarkJob
        <2> QED BY <1>a, <2>1 DEF MarkInv, Marked, MarkJob
    <1>m. Marked(rows) /\ Marked(view) /\ \A h \in Handlers : MarkJob(job[h])
        BY <1>b DEF MarkInv
    <1>r. \A h \in Handlers : job[h] \in Jobs
        BY DEF JobsShape
    <1>t. sect \in Tables /\ sect \notin Forms
        BY DEF Tables, Forms, Whole
    <1>i. MarkJob(Idle)
        BY IdleShape DEF MarkJob
    <1>1. ASSUME NEW h \in Handlers, ServeList(h)
          PROVE  Marked(rows') /\ Marked(view') /\ \A g \in Handlers : MarkJob(job'[g])
        <2>0. job[h].from \in Nat
            BY <1>r DEF Jobs
        <2> DEFINE p == PageFrom(job[h].from)
        <2>1. /\ job'[h].left = job[h].left /\ job'[h].ans = p
              /\ UNCHANGED <<rows, view>> /\ \A g \in Handlers \ {h} : job'[g] = job[g]
            BY <1>1, <1>r, <1>t DEF ServeList, table, Jobs, JobsShape
        <2>2. Marked(p)
            BY <1>m, <2>0, PageIds DEF Marked, ServerShape
        <2> HIDE DEF p
        <2>3. MarkJob(job'[h])
            BY <1>m, <2>1, <2>2 DEF MarkJob
        <2> QED BY <1>m, <2>1, <2>3, MarkMoves
    <1>2. ASSUME NEW h \in Handlers, Loaded(h) \/ ReloadedClosing(h)
          PROVE  Marked(rows') /\ Marked(view') /\ \A g \in Handlers : MarkJob(job'[g])
        <2>1. /\ job[h].pc = "listed" /\ job'[h] = Idle /\ view' = Shown(h)
              /\ rows' = rows /\ \A g \in Handlers \ {h} : job'[g] = job[g]
            BY <1>2 DEF Loaded, ReloadedClosing, At, End, JobsShape
        <2>2. Marked(job[h].ans)
            BY <1>m, <2>1 DEF MarkJob
        <2>3. Marked(Shown(h))
            BY <1>m, <1>t, <2>1, <2>2, ShownIds DEF Marked
        <2> QED BY <1>m, <1>i, <2>1, <2>3, MarkMoves
    <1>3. ASSUME NEW h \in Handlers, LoadFailed(h)
          PROVE  Marked(rows') /\ Marked(view') /\ \A g \in Handlers : MarkJob(job'[g])
        <2>1. /\ job'[h] = Again(job[h]) /\ UNCHANGED <<rows, view>>
              /\ \A g \in Handlers \ {h} : job'[g] = job[g]
            BY <1>3 DEF LoadFailed, JobsShape, Queries
        <2>2. MarkJob(job'[h])
            BY <1>r, <2>1, AgainShape DEF MarkJob
        <2> QED BY <1>m, <2>1, <2>2, MarkMoves
    <1>4. ASSUME NEW h \in Handlers, NEW i \in Ids, ServeDelete(h, i)
          PROVE  Marked(rows') /\ Marked(view') /\ \A g \in Handlers : MarkJob(job'[g])
        <2>1. job'[h].left \subseteq job[h].left /\ job'[h].ans = job[h].ans /\ (job'[h].pc = "listed" => job[h].pc = "listed")
            BY <1>4, <1>r DEF ServeDelete, Jobs, JobsShape
        <2>2. MarkJob(job'[h])
            BY <1>m, <2>1 DEF MarkJob
        <2>3. rows' = Without(rows, i) /\ view' = view /\ \A g \in Handlers \ {h} : job'[g] = job[g]
            BY <1>4 DEF ServeDelete, JobsShape
        <2>4. Marked(Without(rows, i))
            BY <1>m, WithoutRows DEF Marked, ServerShape
        <2> QED BY <1>m, <2>2, <2>3, <2>4, MarkMoves
    <1>5. CASE ReloadAnyway
        <2>1. /\ job'["confirm"] = List(job["confirm"])
              /\ UNCHANGED <<rows, view>> /\ \A g \in Handlers \ {"confirm"} : job'[g] = job[g]
            BY <1>5 DEF ReloadAnyway, JobsShape, Handlers
        <2>2. List(job["confirm"]).left = job["confirm"].left /\ List(job["confirm"]).pc = "list"
            BY <1>r DEF List, Jobs, Handlers
        <2>3. MarkJob(job'["confirm"])
            BY <1>m, <2>1, <2>2 DEF MarkJob, Handlers
        <2> QED BY <1>m, <2>1, <2>3, MarkMoves DEF Handlers
    <1>6. CASE Cancel
        BY <1>6, <1>m DEF Cancel
    <1>7. CASE DeleteUnused
        <2> DEFINE j == [Call("delete") EXCEPT !.ids = Unused, !.left = Unused]
        <2>1. j.left = Unused /\ j.pc = "call"
            BY DEF Call, Idle
        <2>2. 1 \notin Unused
            BY <1>m DEF Unused, Marked
        <2> HIDE DEF j
        <2>3. /\ job'["confirm"] = j
              /\ UNCHANGED <<rows, view>> /\ \A g \in Handlers \ {"confirm"} : job'[g] = job[g]
            BY <1>7 DEF DeleteUnused, Begin, j, JobsShape, Handlers
        <2> QED BY <1>m, <2>1, <2>2, <2>3, MarkMoves DEF MarkJob, Handlers
    <1>8. CASE More
        <2> DEFINE j == [List(Idle) EXCEPT !.mode = "more", !.from = page]
        <2>1. j.left = {} /\ j.pc = "list"
            BY DEF List, Idle
        <2> HIDE DEF j
        <2>3. /\ job'["row"] = j
              /\ UNCHANGED <<rows, view>> /\ \A g \in Handlers \ {"row"} : job'[g] = job[g]
            BY <1>8 DEF More, Begin, j, table, JobsShape, Handlers
        <2> QED BY <1>m, <2>1, <2>3, MarkMoves DEF MarkJob, Handlers
    <1> QED BY <1>1, <1>2, <1>3, <1>4, <1>5, <1>6, <1>7, <1>8 DEF AttStep

\* The second half of KeepsUntouched: an attachment of a memo is not deleted.
LEMMA MemosKept ==
    ASSUME TableInv, MarkInv, [Next]_vars, sect = "attachments", ~blind', NEW n \in DOMAIN rows, rows[n].marked
    PROVE  rows[n].id \in RowIds(rows')
    <1>0. Shape /\ rows \in Seq(Row) /\ ~blind
        BY SectStays DEF TableInv, Shape, ServerShape, FlagsShape
    <1>1. Marked(rows) /\ \A h \in Handlers : MarkJob(job[h])
        BY <1>0 DEF MarkInv
    <1>2. rows' = rows \/ \E h \in Handlers, i \in Ids : ServeDelete(h, i)
        BY AttSteps DEF MarkInv, AttStep, ServeList, Loaded, LoadFailed, ReloadedClosing, ReloadAnyway, Cancel,
                        DeleteUnused, More, table, vars
    <1>3. ASSUME NEW h \in Handlers, NEW i \in Ids, ServeDelete(h, i) PROVE rows[n].id \in RowIds(rows')
        <2>1. i \in job[h].left /\ rows' = Without(rows, i)
            BY <1>3 DEF ServeDelete
        <2>2. rows[n].id # i
            BY <1>1, <2>1 DEF Marked, MarkJob
        <2> QED BY <1>0, <2>1, <2>2, WithoutRows DEF RowIds
    <1> QED BY <1>2, <1>3 DEF RowIds

\* KeepsUntouched: with no other client and no failure, saving a form changes no field that the user
\* has not touched, and handleDeleteUnusedAttachments deletes no attachment of a memo.
THEOREM UntouchedIsKept == Spec => KeepsUntouched
    <1>1. TableInv /\ [Next]_vars => TableInv'
        BY TableStep
    <1>2. Spec => []MarkInv
        BY TablesAreKept, MarkInit, MarkStep, PTL DEF Spec
    <1>3. FormsInv /\ TableInv /\ MarkInv /\ [Next]_vars
          => [/\ \A f \in Fields : (sect \in Whole \cup {"account"} /\ ~blind' /\ ~raced' /\ set'[f] # set[f])
                    => \E h \in Handlers : job[h].pc = "call" /\ f \in touched
              /\ \A n \in DOMAIN rows : (sect = "attachments" /\ rows[n].marked /\ ~blind')
                    => rows[n].id \in RowIds(rows')]_vars
        BY FieldsKept, MemosKept
    <1> QED BY <1>2, <1>3, FormsAreKept, TablesAreKept, PTL DEF Spec, KeepsUntouched


(* ---- the tables that are read again when they change ---- *)
\* The dialog of a creation creates or edits.
SubmitOf == dialog.kind = "submit" => dialog.mode \in {"create", "edit"}

LEMMA SubmitStep == SubmitOf /\ [Next]_vars => SubmitOf'
    <1> SUFFICES ASSUME SubmitOf, [Next]_vars PROVE SubmitOf'
        OBVIOUS
    <1>n. NoDialog.kind = "none"
        BY DEF NoDialog
    <1>0. CASE UNCHANGED vars
        BY <1>0 DEF vars, SubmitOf
    <1>1. ASSUME NEW h \in Handlers, ServeMark(h) PROVE SubmitOf'
        BY <1>1, <1>n DEF ServeMark, SubmitOf, table
    <1>2. ASSUME NEW h \in Handlers, ServeCreate(h) PROVE SubmitOf'
        BY <1>2, <1>n DEF ServeCreate, SubmitOf, table
    <1>3. ASSUME NEW h \in Handlers, ServeSave(h) PROVE SubmitOf'
        BY <1>3, <1>n DEF ServeSave, SubmitOf, table
    <1>4. ASSUME NEW h \in Handlers, ServeList(h) PROVE SubmitOf'
        BY <1>4, <1>n DEF ServeList, SubmitOf, table
    <1>5. ASSUME NEW h \in Handlers, Loaded(h) PROVE SubmitOf'
        BY <1>5, <1>n DEF Loaded, SubmitOf, table
    <1>6. ASSUME NEW h \in Handlers, LoadFailed(h) PROVE SubmitOf'
        BY <1>6, <1>n DEF LoadFailed, SubmitOf, table
    <1>7. ASSUME NEW h \in Handlers, ReloadedClosing(h) PROVE SubmitOf'
        BY <1>7, <1>n DEF ReloadedClosing, SubmitOf, table
    <1>8. ASSUME NEW h \in Handlers, Saved(h) PROVE SubmitOf'
        BY <1>8, <1>n DEF Saved, SubmitOf, table
    <1>9. ASSUME NEW h \in Handlers, SavedFields(h) PROVE SubmitOf'
        BY <1>9, <1>n DEF SavedFields, SubmitOf, table
    <1>10. ASSUME NEW h \in Handlers, Fetched(h) PROVE SubmitOf'
        BY <1>10, <1>n DEF Fetched, SubmitOf, table
    <1>11. ASSUME NEW h \in Handlers, SaveFailed(h) PROVE SubmitOf'
        BY <1>11, <1>n DEF SaveFailed, SubmitOf, table
    <1>12. ASSUME NEW h \in Handlers, Lose(h) PROVE SubmitOf'
        BY <1>12, <1>n DEF Lose, SubmitOf, table
    <1>13. ASSUME NEW h \in Handlers, NEW i \in Ids, ServeDelete(h, i) PROVE SubmitOf'
        BY <1>13, <1>n DEF ServeDelete, SubmitOf, table
    <1>14. CASE Deleted
        BY <1>14, <1>n DEF Deleted, SubmitOf, table
    <1>15. CASE ShortcutDeleted
        BY <1>15, <1>n DEF ShortcutDeleted, SubmitOf, table
    <1>16. CASE ReloadAnyway
        BY <1>16, <1>n DEF ReloadAnyway, SubmitOf, table
    <1>17. CASE MemberArchived
        BY <1>17, <1>n DEF MemberArchived, SubmitOf, table
    <1>18. CASE ArchiveEnds
        BY <1>18, <1>n DEF ArchiveEnds, SubmitOf, table
    <1>19. CASE UserDeleted
        BY <1>19, <1>n DEF UserDeleted, SubmitOf, table
    <1>20. CASE ConfirmFailed
        BY <1>20, <1>n DEF ConfirmFailed, SubmitOf, table
    <1>21. CASE Submitted
        BY <1>21, <1>n DEF Submitted, SubmitOf, table
    <1>22. CASE SubmitFailed
        BY <1>22, <1>n DEF SubmitFailed, SubmitOf, table
    <1>23. CASE Restored
        BY <1>23, <1>n DEF Restored, SubmitOf, table
    <1>24. CASE RowDone
        BY <1>24, <1>n DEF RowDone, SubmitOf, table
    <1>25. CASE Age
        BY <1>25, <1>n DEF Age, SubmitOf, table
    <1>26. CASE Focus
        BY <1>26, <1>n DEF Focus, SubmitOf, table
    <1>27. CASE OpenCreate
        BY <1>27, <1>n DEF OpenCreate, SubmitOf, table
    <1>28. CASE Cancel
        BY <1>28, <1>n DEF Cancel, SubmitOf, table
    <1>29. CASE Confirm
        BY <1>29, <1>n DEF Confirm, SubmitOf, table
    <1>30. CASE ConfirmDeleteUser
        BY <1>30, <1>n DEF ConfirmDeleteUser, SubmitOf, table
    <1>31. CASE DeleteUnused
        BY <1>31, <1>n DEF DeleteUnused, SubmitOf, table
    <1>32. CASE Submit
        BY <1>32, <1>n DEF Submit, SubmitOf, table
    <1>33. CASE More
        BY <1>33, <1>n DEF More, SubmitOf, table
    <1>34. CASE Save
        BY <1>34, <1>n DEF Save, SubmitOf, table
    <1>35. CASE SaveAccount
        BY <1>35, <1>n DEF SaveAccount, SubmitOf, table
    <1>36. CASE SaveProfile
        BY <1>36, <1>n DEF SaveProfile, SubmitOf, table
    <1>37. ASSUME NEW i \in Ids, OtherDelete(i) PROVE SubmitOf'
        BY <1>37, <1>n DEF OtherDelete, SubmitOf, table
    <1>38. ASSUME NEW i \in Ids, OtherMark(i) PROVE SubmitOf'
        BY <1>38, <1>n DEF OtherMark, SubmitOf, table
    <1>39. ASSUME NEW i \in Ids, NEW mode \in Modes, Open(mode, i) PROVE SubmitOf'
        BY <1>39, <1>n DEF Open, SubmitOf, table
    <1>40. ASSUME NEW i \in Ids, NEW mode \in Modes, RowButton(mode, i) PROVE SubmitOf'
        BY <1>40, <1>n DEF RowButton, SubmitOf, table
    <1>41. ASSUME NEW v \in Values, EditProfile(v) PROVE SubmitOf'
        BY <1>41, <1>n DEF EditProfile, SubmitOf, table
    <1>42. ASSUME NEW v \in Values, NEW f \in Fields, Edit(f, v) PROVE SubmitOf'
        BY <1>42, <1>n DEF Edit, SubmitOf, table
    <1>43. ASSUME NEW v \in Values, NEW f \in Fields, OtherSave(f, v) PROVE SubmitOf'
        BY <1>43, <1>n DEF OtherSave, SubmitOf, table
    <1>44. ASSUME NEW v \in Values, NEW f \in Fields, NEW h \in Handlers, Prefer(h, f, v)
           PROVE  SubmitOf'
        BY <1>44, <1>n DEF Prefer, Silenced, SubmitOf, table
    <1>45. ASSUME NEW v \in Values, NEW f \in Fields, PreferMenu(f, v)
           PROVE  SubmitOf'
        BY <1>45, <1>n DEF PreferMenu, SubmitOf, table
    <1> QED
        BY <1>0, <1>1, <1>2, <1>3, <1>4, <1>5, <1>6, <1>7, <1>8, <1>9, <1>10, <1>11, <1>12, <1>13,
           <1>14, <1>15, <1>16, <1>17, <1>18, <1>19, <1>20, <1>21, <1>22, <1>23, <1>24, <1>25,
           <1>26, <1>27, <1>28, <1>29, <1>30, <1>31, <1>32, <1>33, <1>34, <1>35, <1>36, <1>37,
           <1>38, <1>39, <1>40, <1>41, <1>42, <1>43, <1>44, <1>45
        DEF Next, Progress, Choices

\* Without overlap, failure and other clients: what is shown is what the server has, until a change
\* is asked for; once it was made, the handler that asked for it shows it or reads the list again.
Steady == {"webhooks", "tokens", "idps", "shortcuts"}
ConfirmAsks ==
    LET j == job["confirm"] IN
    /\ j.pc = "call" => dialog.kind = "confirm" /\ j.left = {dialog.id} /\ j.seen = view
    /\ (j.pc = "done" /\ sect \in {"webhooks", "tokens"}) =>
          dialog.kind = "confirm" /\ rows = Without(view, dialog.id) /\ (sect = "webhooks" => j.seen = view)
    /\ j.pc # "call" => j.left = {}
SteadyJob(h) ==
    LET j == job[h] IN
    /\ h = "row" => j.pc = "idle"
    /\ h = "load" => j.pc \in {"idle", "list", "listed"}
    /\ j.pc \in {"idle", "call", "done", "refused", "list", "listed"}
    /\ j.mode \in {"none", "delete", "create", "edit"}
    /\ j.pc \in {"call", "refused"} => view = rows
    /\ j.pc = "listed" => j.ans = rows
    /\ IF h = "confirm" THEN ConfirmAsks ELSE j.left = {}
SteadyAll == (AtRest => view = rows) /\ \A h \in Handlers : SteadyJob(h)
SteadyInv == (sect \in Steady /\ Quiet) => SteadyAll

LEMMA SteadyMoves ==
    ASSUME TableInv, SteadyAll, sect \in Steady, sect' = sect, ~raced, NEW h \in Handlers, ~Free(h),
           \A g \in Handlers \ {h} : job'[g] = job[g], SteadyJob(h)', job'[h].pc = "idle" => view' = rows'
    PROVE  SteadyAll'
    <1>1. \A g \in Handlers \ {h} : job[g].pc = "idle" /\ job[g].left = {}
        BY DEF TableInv, Alone, Free, Steady, Queries
    <1>2. \A g \in Handlers \ {h} : SteadyJob(g)'
        BY <1>1 DEF SteadyAll, SteadyJob, ConfirmAsks
    <1> QED BY <1>1, <1>2 DEF SteadyAll, AtRest, Free

LEMMA SteadyBegins ==
    ASSUME TableInv, JobsShape, SteadyAll, sect' = sect, ~raced', NEW h \in Handlers, NEW j, Begin(h, j), SteadyJob(h)',
           j.pc # "idle"
    PROVE  SteadyAll'
    <1>1. AtRest /\ job'[h] = j /\ \A g \in Handlers \ {h} : job'[g] = job[g]
        BY OthersBegin DEF Begin, JobsShape
    <1>2. \A g \in Handlers \ {h} : job[g].pc = "idle" /\ job[g].left = {}
        BY <1>1 DEF TableInv, Alone, AtRest, Free
    <1>3. \A g \in Handlers \ {h} : SteadyJob(g)'
        BY <1>1, <1>2 DEF SteadyAll, SteadyJob, ConfirmAsks
    <1> QED BY <1>1, <1>3 DEF SteadyAll, AtRest, Free

LEMMA SteadyStays ==
    ASSUME SteadyAll, UNCHANGED <<sect, job, rows, view>>,
           \/ dialog' = dialog
           \/ job["confirm"].pc # "call" /\ (job["confirm"].pc = "done" => sect \notin {"webhooks", "tokens"})
    PROVE  SteadyAll'
    <1>1. (AtRest => view = rows)'
        BY DEF SteadyAll, AtRest, Free
    <1>2. \A h \in Handlers : SteadyJob(h)'
        BY DEF SteadyAll, SteadyJob, ConfirmAsks
    <1> QED BY <1>1, <1>2 DEF SteadyAll

LEMMA SteadyInit == Init => SteadyInv
    <1> SUFFICES ASSUME Init, sect \in Steady PROVE SteadyAll
        BY DEF SteadyInv
    <1>1. sect \in Tables /\ sect \notin Forms /\ sect \notin Queries
        BY DEF Tables, Forms, Whole, Steady, Queries
    <1>2. /\ Idle.pc = "idle" /\ Idle.mode = "none" /\ Idle.left = {}
          /\ List(Idle).pc = "list" /\ List(Idle).mode = "none" /\ List(Idle).left = {}
        BY DEF List, Idle
    <1>3. job["load"] = List(Idle) /\ \A h \in Handlers \ {"load"} : job[h] = Idle
        BY <1>1 DEF Init, Handlers
    <1>4. ~AtRest
        BY <1>2, <1>3 DEF AtRest, Free, Handlers
    <1>5. \A h \in Handlers : SteadyJob(h)
        BY <1>2, <1>3 DEF SteadyJob, ConfirmAsks
    <1> QED BY <1>4, <1>5 DEF SteadyAll

LEMMA SteadyStep == TableInv /\ SubmitOf /\ SteadyInv /\ [Next]_vars => SteadyInv'
    <1> SUFFICES ASSUME TableInv, JobsShape, ServerShape, SubmitOf, [Next]_vars, SteadyInv, sect \in Steady, sect' = sect,
                        Quiet, Quiet'
                 PROVE  SteadyAll'
        BY SectStays DEF TableInv, Shape, SteadyInv, Quiet
    <1>s. SteadyAll /\ \A h \in Handlers : SteadyJob(h)
        BY DEF SteadyInv, SteadyAll
    <1>t. /\ sect \in {"webhooks", "tokens", "idps", "shortcuts"}
          /\ sect \notin Forms /\ sect \notin Queries /\ sect \notin Whole /\ sect \in Tables
          /\ sect \notin {"attachments", "members", "inbox", "account", "preferences", "instance"}
        BY DEF Steady, Tables, Queries, Forms, Whole
    <1>q. ~blind /\ ~raced /\ ~blind' /\ ~raced'
        BY DEF Quiet
    <1>k. /\ \A h \in Handlers : /\ job[h].pc \notin {"unlisted", "await"}
                                 /\ job[h].mode \notin {"save", "silent", "menu", "more", "archive", "restore"}
          /\ "confirm" \in Handlers
        BY <1>s DEF SteadyJob, Handlers
    <1>c. DialogOf /\ ConfirmJob(job["confirm"])
        BY <1>t DEF TableInv, ConfirmInv
    <1>d. dialog.kind = "confirm" => dialog.mode = "delete"
        BY <1>c, <1>t DEF DialogOf
    <1>r. \A h \in Handlers : job[h] \in Jobs
        BY DEF JobsShape
    <1>n. NoDialog.kind = "none"
        BY DEF NoDialog
    <1>j. Idle.pc = "idle" /\ Idle.mode = "none" /\ Idle.left = {}
        BY DEF Idle
    <1>i. \A h \in Handlers : (job'[h] = Idle => SteadyJob(h)')
        BY <1>j DEF SteadyJob, ConfirmAsks
    <1>0. CASE UNCHANGED vars
        BY <1>0, <1>s, SteadyStays DEF vars
    <1>1. ASSUME NEW h \in Handlers, ServeMark(h) PROVE SteadyAll'
        <2>1. job[h].pc = "call" /\ Marks(h)
            BY <1>1 DEF ServeMark, At
        <2>2. h # "confirm" /\ h # "row" /\ view = rows /\ job[h].left = {}
            BY <2>1, <1>s, <1>t, <1>k, <1>c DEF Marks, SteadyJob, ConfirmJob
        <2>3. /\ job'[h].pc \in {"done", "refused"} /\ job'[h].mode = job[h].mode /\ job'[h].left = job[h].left
              /\ job'[h].pc = "refused" => rows' = rows
            BY <1>1, <1>r DEF ServeMark, Goto, Jobs, JobsShape
        <2>4. SteadyJob(h)'
            BY <1>1, <1>s, <2>1, <2>2, <2>3 DEF ServeMark, SteadyJob
        <2> QED BY <1>1, <2>1, <2>3, <2>4, <1>q, <1>s, SteadyMoves DEF ServeMark, Goto, Free, JobsShape
    <1>2. ASSUME NEW h \in Handlers, ServeCreate(h) PROVE SteadyAll'
        <2>1. job[h].pc = "call" /\ Creates(h)
            BY <1>2 DEF ServeCreate, At
        <2>2. h # "confirm" /\ h # "row" /\ job[h].left = {}
            BY <2>1, <1>s, <1>c DEF Creates, SteadyJob, ConfirmJob
        <2>3. job'[h].pc = "done" /\ job'[h].mode = job[h].mode /\ job'[h].left = job[h].left
            BY <1>2, <1>r DEF ServeCreate, Goto, Jobs, JobsShape
        <2>4. SteadyJob(h)'
            BY <1>s, <2>1, <2>2, <2>3 DEF SteadyJob
        <2> QED BY <1>2, <2>1, <2>3, <2>4, <1>q, <1>s, SteadyMoves DEF ServeCreate, Goto, Free, JobsShape
    <1>3. ASSUME NEW h \in Handlers, ServeSave(h) PROVE SteadyAll'
        BY <1>3, <1>t, <1>q, <1>k DEF ServeSave, At, Begin
    <1>4. ASSUME NEW h \in Handlers, ServeList(h) PROVE SteadyAll'
        <2>1. job[h].pc = "list" /\ job[h].left = {}
            BY <1>4, <1>s DEF ServeList, At, SteadyJob, ConfirmAsks
        <2>2. /\ job'[h].pc = "listed" /\ job'[h].mode = job[h].mode /\ job'[h].left = job[h].left
              /\ job'[h].ans = rows
            BY <1>4, <1>r, <1>t DEF ServeList, Jobs, JobsShape
        <2>3. rows' = rows /\ view' = view
            BY <1>4 DEF ServeList, table
        <2>4. SteadyJob(h)'
            BY <1>s, <2>1, <2>2, <2>3 DEF SteadyJob, ConfirmAsks
        <2> QED BY <1>4, <2>1, <2>2, <2>4, <1>q, <1>s, SteadyMoves DEF ServeList, Free, JobsShape
    <1>5. ASSUME NEW h \in Handlers, Loaded(h) PROVE SteadyAll'
        <2>1. job[h].pc = "listed" /\ job'[h] = Idle /\ view' = Shown(h) /\ rows' = rows
            BY <1>5 DEF Loaded, At, End, JobsShape
        <2>2. Shown(h) = rows
            BY <2>1, <1>s DEF Shown, SteadyJob
        <2> QED BY <1>5, <2>1, <2>2, <1>i, <1>q, <1>s, SteadyMoves DEF Loaded, End, Free, JobsShape
    <1>6. ASSUME NEW h \in Handlers, LoadFailed(h) PROVE SteadyAll'
        BY <1>6, <1>t, <1>q, <1>k DEF LoadFailed, At, Begin
    <1>7. ASSUME NEW h \in Handlers, ReloadedClosing(h) PROVE SteadyAll'
        <2>1. job[h].pc = "listed" /\ job'[h] = Idle /\ view' = Shown(h) /\ rows' = rows
            BY <1>7 DEF ReloadedClosing, At, End, JobsShape
        <2>2. Shown(h) = rows
            BY <2>1, <1>s DEF Shown, SteadyJob
        <2> QED BY <1>7, <2>1, <2>2, <1>i, <1>q, <1>s, SteadyMoves DEF ReloadedClosing, End, Free, JobsShape
    <1>8. ASSUME NEW h \in Handlers, Saved(h) PROVE SteadyAll'
        BY <1>8, <1>t, <1>q, <1>k DEF Saved, At, Begin
    <1>9. ASSUME NEW h \in Handlers, SavedFields(h) PROVE SteadyAll'
        BY <1>9, <1>t, <1>q, <1>k DEF SavedFields, At, Begin
    <1>10. ASSUME NEW h \in Handlers, Fetched(h) PROVE SteadyAll'
        BY <1>10, <1>t, <1>q, <1>k DEF Fetched, At, Begin
    <1>11. ASSUME NEW h \in Handlers, SaveFailed(h) PROVE SteadyAll'
        BY <1>11, <1>t, <1>q, <1>k DEF SaveFailed, At, Begin
    <1>12. ASSUME NEW h \in Handlers, Lose(h) PROVE SteadyAll'
        BY <1>12, <1>t, <1>q, <1>k DEF Lose, At, Begin
    <1>13. ASSUME NEW h \in Handlers, NEW i \in Ids, ServeDelete(h, i) PROVE SteadyAll'
        <2>1. h = "confirm" /\ job[h].pc = "call" /\ i \in job[h].left
            BY <1>13, <1>s DEF ServeDelete, SteadyJob, ConfirmAsks
        <2>2. job[h].left = {i} /\ dialog.id = i /\ dialog.kind = "confirm" /\ job[h].seen = view /\ view = rows
            BY <2>1, <1>s DEF SteadyJob, ConfirmAsks
        <2>3. /\ job'[h].left = {} /\ job'[h].mode = job[h].mode /\ job'[h].seen = job[h].seen
              /\ job'[h].pc = IF i \notin RowIds(rows) THEN "refused" ELSE "done"
            BY <1>13, <1>r, <2>1, <2>2 DEF ServeDelete, Jobs, JobsShape
        <2>4. rows' = Without(rows, i) /\ view' = view /\ dialog' = dialog
            BY <1>13 DEF ServeDelete
        <2>5. i \notin RowIds(rows) => rows' = rows
            BY <2>4, WithoutRows DEF ServerShape
        <2>6. Without(view, dialog.id)' = rows'
            BY <2>2, <2>4
        <2>7. SteadyJob(h)'
            <3>1. view' = view /\ dialog' = dialog
                BY <2>4
            <3> QED BY <1>s, <2>1, <2>2, <2>3, <2>5, <2>6, <3>1 DEF SteadyJob, ConfirmAsks
        <2>8. \A g \in Handlers \ {h} : job'[g] = job[g]
            BY <1>13 DEF ServeDelete, JobsShape
        <2>9. ~Free(h) /\ job'[h].pc # "idle"
            BY <2>1, <2>3 DEF Free
        <2> QED BY <2>7, <2>8, <2>9, <1>q, <1>s, SteadyMoves
    <1>14. CASE Deleted
        <2>1. job["confirm"].pc = "done" /\ job'["confirm"] = Idle /\ sect \in {"webhooks", "tokens"} /\ rows' = rows
            BY <1>14 DEF Deleted, At, End, JobsShape, Handlers
        <2>2. view' = rows
            BY <1>14, <1>s, <2>1 DEF Deleted, SteadyJob, ConfirmAsks, Handlers
        <2> QED BY <1>14, <2>1, <2>2, <1>i, <1>q, <1>s, SteadyMoves DEF Deleted, End, Free, JobsShape, Handlers
    <1>15. CASE ShortcutDeleted
        <2>1. job["confirm"].pc \in {"done", "refused"} /\ job'["confirm"] = List(job["confirm"])
            BY <1>15 DEF ShortcutDeleted, At, JobsShape, Handlers
        <2>2. List(job["confirm"]).pc = "list" /\ List(job["confirm"]).mode = job["confirm"].mode
              /\ List(job["confirm"]).left = job["confirm"].left
            BY <1>r DEF List, Jobs, Handlers
        <2>3. SteadyJob("confirm")'
            BY <1>s, <2>1, <2>2 DEF SteadyJob, ConfirmAsks, Handlers
        <2> QED BY <1>15, <2>1, <2>2, <2>3, <1>q, <1>s, SteadyMoves
                DEF ShortcutDeleted, Free, JobsShape, Handlers
    <1>16. CASE ReloadAnyway
        <2>1. job["confirm"].pc \in {"done", "refused"} /\ job'["confirm"] = List(job["confirm"])
            BY <1>16 DEF ReloadAnyway, At, JobsShape, Handlers
        <2>2. List(job["confirm"]).pc = "list" /\ List(job["confirm"]).mode = job["confirm"].mode
              /\ List(job["confirm"]).left = job["confirm"].left
            BY <1>r DEF List, Jobs, Handlers
        <2>3. SteadyJob("confirm")'
            BY <1>s, <2>1, <2>2 DEF SteadyJob, ConfirmAsks, Handlers
        <2> QED BY <1>16, <2>1, <2>2, <2>3, <1>q, <1>s, SteadyMoves DEF ReloadAnyway, Free, JobsShape, Handlers
    <1>17. CASE MemberArchived
        BY <1>17, <1>t, <1>q, <1>k DEF MemberArchived, At, Begin
    <1>18. CASE ArchiveEnds
        BY <1>18, <1>t, <1>q, <1>k DEF ArchiveEnds, At, Begin
    <1>19. CASE UserDeleted
        BY <1>19, <1>t, <1>q, <1>k DEF UserDeleted, At, Begin
    <1>20. CASE ConfirmFailed
        <2>1. job["confirm"].pc = "refused" /\ job'["confirm"] = Idle /\ UNCHANGED <<rows, view>>
            BY <1>20, <1>t DEF ConfirmFailed, At, End, table, JobsShape, Handlers
        <2>2. view = rows
            BY <1>s, <2>1 DEF SteadyJob, Handlers
        <2> QED BY <1>20, <2>1, <2>2, <1>i, <1>q, <1>s, SteadyMoves
                DEF ConfirmFailed, End, Free, JobsShape, Handlers
    <1>21. CASE Submitted
        <2>1. job["submit"].pc \in {"done", "refused"} /\ job' = [job EXCEPT !["submit"] = List(job["submit"])]
            BY <1>21, <1>t DEF Submitted, At, Handlers
        <2>2. List(job["submit"]).pc = "list" /\ List(job["submit"]).mode = job["submit"].mode
              /\ List(job["submit"]).left = job["submit"].left
            BY <1>r DEF List, Jobs, Handlers
        <2>3. SteadyJob("submit")'
            BY <1>s, <2>1, <2>2 DEF SteadyJob, JobsShape, Handlers
        <2> QED BY <2>1, <2>2, <2>3, <1>q, <1>s, SteadyMoves DEF Free, JobsShape, Handlers
    <1>22. CASE SubmitFailed
        <2>1. job["submit"].pc = "refused" /\ job'["submit"] = Idle /\ UNCHANGED <<rows, view>>
            BY <1>22, <1>t DEF SubmitFailed, At, End, table, JobsShape, Handlers
        <2>2. view = rows
            BY <1>s, <2>1 DEF SteadyJob, Handlers
        <2> QED BY <1>22, <2>1, <2>2, <1>i, <1>q, <1>s, SteadyMoves
                DEF SubmitFailed, End, Free, JobsShape, Handlers
    <1>23. CASE Restored
        BY <1>23, <1>t, <1>q, <1>k DEF Restored, At, Begin
    <1>24. CASE RowDone
        BY <1>24, <1>t, <1>q, <1>k DEF RowDone, At, Begin
    <1>25. CASE Age
        BY <1>25, <1>t, <1>q, <1>k DEF Age, At, Begin
    <1>26. CASE Focus
        BY <1>26, <1>t, <1>q, <1>k DEF Focus, At, Begin
    <1>27. CASE OpenCreate
        BY <1>27, <1>n, <1>s, SteadyStays DEF OpenCreate, SteadyJob, ConfirmAsks, Handlers
    <1>28. CASE Cancel
        <2>1. dialog.kind # "confirm" \/ job["confirm"].pc = "idle" \/ (sect = "shortcuts" /\ job["confirm"].pc # "call")
            BY <1>28, <1>t DEF Cancel, Free, Background
        <2> QED BY <1>28, <1>s, <2>1, SteadyStays DEF Cancel, SteadyJob, ConfirmAsks, Handlers
    <1>29. CASE Confirm
        <2> DEFINE j == [Call(dialog.mode) EXCEPT !.ids = {dialog.id}, !.seen = view,
                           !.left = IF dialog.mode = "delete" THEN {dialog.id} ELSE {}]
        <2>1. dialog.kind = "confirm" /\ dialog.mode = "delete"
            BY <1>29, <1>t, <1>d DEF Confirm, DialogOf
        <2>2. j.pc = "call" /\ j.mode = "delete" /\ j.left = {dialog.id} /\ j.seen = view
            BY <2>1 DEF Call, Idle
        <2>3. Begin("confirm", j) /\ UNCHANGED <<rows, view, dialog>>
            BY <1>29 DEF Confirm, table
        <2> HIDE DEF j
        <2>4. AtRest /\ job'["confirm"] = j
            BY <2>3, <1>q, OthersBegin DEF Handlers
        <2>5. SteadyJob("confirm")'
            BY <1>s, <2>1, <2>2, <2>3, <2>4 DEF SteadyAll, SteadyJob, ConfirmAsks
        <2> QED BY <2>2, <2>3, <2>5, <1>q, <1>s, SteadyBegins DEF Handlers
    <1>30. CASE ConfirmDeleteUser
        BY <1>30, <1>t, <1>q, <1>k DEF ConfirmDeleteUser, At, Begin
    <1>31. CASE DeleteUnused
        BY <1>31, <1>t, <1>q, <1>k DEF DeleteUnused, At, Begin
    <1>32. CASE Submit
        <2> DEFINE j == [Call(dialog.mode) EXCEPT !.ids = IF dialog.id = None THEN {} ELSE {dialog.id}]
        <2>1. dialog.mode \in {"create", "edit"}
            BY <1>32 DEF Submit, SubmitOf
        <2>2. j.pc = "call" /\ j.mode = dialog.mode /\ j.left = {}
            BY DEF Call, Idle
        <2>3. Begin("submit", j) /\ UNCHANGED <<rows, view>>
            BY <1>32 DEF Submit, table
        <2> HIDE DEF j
        <2>4. AtRest /\ job'["submit"] = j
            BY <2>3, <1>q, OthersBegin DEF Handlers
        <2>5. SteadyJob("submit")'
            BY <1>s, <2>1, <2>2, <2>3, <2>4 DEF SteadyAll, SteadyJob
        <2> QED BY <2>2, <2>3, <2>5, <1>q, <1>s, SteadyBegins DEF Handlers
    <1>33. CASE More
        BY <1>33, <1>t, <1>q, <1>k DEF More, At, Begin
    <1>34. CASE Save
        BY <1>34, <1>t, <1>q, <1>k DEF Save, At, Begin
    <1>35. CASE SaveAccount
        BY <1>35, <1>t, <1>q, <1>k DEF SaveAccount, At, Begin
    <1>36. CASE SaveProfile
        BY <1>36, <1>t, <1>q, <1>k DEF SaveProfile, At, Begin
    <1>37. ASSUME NEW i \in Ids, OtherDelete(i) PROVE SteadyAll'
        BY <1>37, <1>t, <1>q, <1>k DEF OtherDelete, At, Begin
    <1>38. ASSUME NEW i \in Ids, OtherMark(i) PROVE SteadyAll'
        BY <1>38, <1>t, <1>q, <1>k DEF OtherMark, At, Begin
    <1>39. ASSUME NEW i \in Ids, NEW mode \in Modes, Open(mode, i) PROVE SteadyAll'
        BY <1>39, <1>n, <1>s, SteadyStays DEF Open, SteadyJob, ConfirmAsks, Handlers
    <1>40. ASSUME NEW i \in Ids, NEW mode \in Modes, RowButton(mode, i) PROVE SteadyAll'
        BY <1>40, <1>t, <1>q, <1>k DEF RowButton, At, Begin
    <1>41. ASSUME NEW v \in Values, EditProfile(v) PROVE SteadyAll'
        BY <1>41, <1>t, <1>q, <1>k DEF EditProfile, At, Begin
    <1>42. ASSUME NEW v \in Values, NEW f \in Fields, Edit(f, v) PROVE SteadyAll'
        BY <1>42, <1>t, <1>q, <1>k DEF Edit, At, Begin
    <1>43. ASSUME NEW v \in Values, NEW f \in Fields, OtherSave(f, v) PROVE SteadyAll'
        BY <1>43, <1>t, <1>q, <1>k DEF OtherSave, At, Begin
    <1>44. ASSUME NEW v \in Values, NEW f \in Fields, NEW h \in Handlers, Prefer(h, f, v)
           PROVE  SteadyAll'
        BY <1>44, <1>t, <1>q, <1>k DEF Prefer, Silenced, At, Begin
    <1>45. ASSUME NEW v \in Values, NEW f \in Fields, PreferMenu(f, v)
           PROVE  SteadyAll'
        BY <1>45, <1>t, <1>q, <1>k DEF PreferMenu, At, Begin
    <1> QED
        BY <1>0, <1>1, <1>2, <1>3, <1>4, <1>5, <1>6, <1>7, <1>8, <1>9, <1>10, <1>11, <1>12, <1>13,
           <1>14, <1>15, <1>16, <1>17, <1>18, <1>19, <1>20, <1>21, <1>22, <1>23, <1>24, <1>25,
           <1>26, <1>27, <1>28, <1>29, <1>30, <1>31, <1>32, <1>33, <1>34, <1>35, <1>36, <1>37,
           <1>38, <1>39, <1>40, <1>41, <1>42, <1>43, <1>44, <1>45
        DEF Next, Progress, Choices


(* ---- the members ---- *)
\* Without failure and other clients, whatever overlaps: once the server has changed, a handler has
\* its answer still to come, or the list is read again from the start, unless a first fetch served
\* before the change was joined.
MemberJob(h) ==
    LET j == job[h] IN
    /\ IF h = "load" THEN j.pc \in {"idle", "list", "listed"} ELSE j.pc \in {"idle", "call", "done", "refused", "await"}
    /\ j.mode \in {"none", "first", "delete", "archive", "restore", "create", "edit"}
    /\ j.left # {} => h = "confirm" /\ j.pc = "call" /\ \E i \in j.left : j.left = {i}
Following ==
    \/ \E h \in Handlers : At(h, "done")
    \/ At("load", "list")
    \/ At("load", "listed") /\ job["load"].ans = rows
    \/ Free("load") /\ view = rows
    \/ missed
MemberAll == Following /\ \A h \in Handlers : MemberJob(h)
MembersInv == (sect = "members" /\ ~blind) => MemberAll

\* A handler other than the fetch moves: the rows change only when it gets its answer.
LEMMA MemberMoves ==
    ASSUME MemberAll, NEW h \in Handlers \ {"load"}, \A g \in Handlers \ {h} : job'[g] = job[g], MemberJob(h)',
           view' = view, missed' = missed, job'[h].pc = "done" \/ (rows' = rows /\ job[h].pc # "done")
    PROVE  MemberAll'
    <1>1. \A g \in Handlers : MemberJob(g)'
        BY DEF MemberAll, MemberJob
    <1>2. job'["load"] = job["load"]
        BY DEF Handlers
    <1>3. Following'
        <2>1. CASE job'[h].pc = "done"
            <3>1. h \in Handlers /\ At(h, "done")'
                BY <2>1 DEF At
            <3> QED BY <3>1 DEF Following
        <2>2. CASE rows' = rows /\ job[h].pc # "done"
            <3>1. \A g \in Handlers : At(g, "done") => At(g, "done")'
                BY <2>2 DEF At
            <3>2. CASE \E g \in Handlers : At(g, "done")
                BY <3>1, <3>2 DEF Following
            <3>3. CASE ~\E g \in Handlers : At(g, "done")
                BY <3>3, <1>2, <2>2 DEF MemberAll, Following, At, Free
            <3> QED BY <3>2, <3>3
        <2> QED BY <2>1, <2>2
    <1> QED BY <1>1, <1>3 DEF MemberAll

LEMMA MemberRefetches ==
    ASSUME JobsShape, MemberAll, NEW h \in Handlers \ {"load"}, \A g \in Handlers \ {h, "load"} : job'[g] = job[g],
           MemberJob(h)', job'["load"] = Refetch(job)["load"], Misses
    PROVE  MemberAll'
    <1>1. job["load"] \in Jobs /\ MemberJob("load")
        BY DEF JobsShape, MemberAll, Handlers
    <1>2. MemberJob("load")' /\ Following'
        <2>1. CASE Joins
            <3>1. job'["load"] = job["load"] /\ job["load"].pc \in {"list", "listed"}
                BY <1>1, <2>1, RefetchShape DEF MemberJob, Joins, Free
            <3>2. job["load"].pc = "listed" => missed'
                BY <2>1 DEF Misses, At
            <3> QED BY <1>1, <3>1, <3>2 DEF MemberJob, Following, At
        <2>2. CASE ~Joins
            <3>1. job'["load"] = List(Again(job["load"]))
                BY <2>2, RefetchShape
            <3>2. job'["load"].pc = "list" /\ job'["load"].left = {} /\ job'["load"].mode \in {"none", "first"}
                BY <1>1, <3>1, AgainShape
            <3> QED BY <3>2 DEF MemberJob, Following, At
        <2> QED BY <2>1, <2>2
    <1>3. \A g \in Handlers \ {h, "load"} : MemberJob(g)'
        BY DEF MemberAll, MemberJob
    <1> QED BY <1>2, <1>3 DEF MemberAll

LEMMA MemberStays ==
    ASSUME MemberAll, UNCHANGED <<job, rows, view, missed>>
    PROVE  MemberAll'
    BY DEF MemberAll, Following, MemberJob, At, Free

LEMMA MembersInit == Init => MembersInv
    <1> SUFFICES ASSUME Init, sect = "members" PROVE MemberAll
        BY DEF MembersInv
    <1>2. Idle.pc = "idle" /\ Idle.mode = "none" /\ Idle.left = {}
        BY DEF Idle
    <1>3. job["load"] = List([Idle EXCEPT !.mode = "first"]) /\ \A h \in Handlers \ {"load"} : job[h] = Idle
        BY DEF Init, Handlers, Queries
    <1>4. job["load"].pc = "list" /\ job["load"].mode = "first" /\ job["load"].left = {}
        BY <1>3, FirstShape
    <1> QED BY <1>2, <1>3, <1>4 DEF MemberAll, Following, MemberJob, At

LEMMA MembersStep == TableInv /\ SubmitOf /\ MembersInv /\ [Next]_vars => MembersInv'
    <1> SUFFICES ASSUME TableInv, JobsShape, ServerShape, SubmitOf, [Next]_vars, MembersInv, sect = "members", sect' = sect,
                        ~blind, ~blind'
                 PROVE  MemberAll'
        BY SectStays DEF TableInv, Shape, MembersInv
    <1>s. MemberAll /\ \A h \in Handlers : MemberJob(h)
        BY DEF MembersInv, MemberAll
    <1>t. /\ sect \notin Forms /\ sect \in Queries /\ sect \notin Whole /\ sect \in Tables
          /\ sect \notin {"webhooks", "tokens", "idps", "shortcuts", "attachments", "inbox", "account", "preferences", "instance"}
        BY DEF Tables, Queries, Forms, Whole
    <1>q. ~blind /\ ~blind'
        OBVIOUS
    <1>k. /\ \A h \in Handlers : job[h].pc # "unlisted" /\ job[h].mode \notin {"save", "silent", "menu", "more"}
          /\ "confirm" \in Handlers
        BY <1>s DEF MemberJob, Handlers
    <1>c. DialogOf /\ ConfirmJob(job["confirm"])
        BY <1>t DEF TableInv, ConfirmInv
    <1>r. \A h \in Handlers : job[h] \in Jobs
        BY DEF JobsShape
    <1>j. Idle.pc = "idle" /\ Idle.mode = "none" /\ Idle.left = {}
        BY DEF Idle
    <1>0. CASE UNCHANGED vars
        BY <1>0, <1>s, MemberStays DEF vars
    <1>1. ASSUME NEW h \in Handlers, ServeMark(h) PROVE MemberAll'
        <2>1. job[h].pc = "call" /\ h # "load" /\ job[h].mode # "delete"
            BY <1>1, <1>s DEF ServeMark, At, Marks, MemberJob
        <2>2. job[h].left = {}
            BY <2>1, <1>s, <1>c DEF ConfirmJob, MemberJob
        <2>3. /\ job'[h].pc \in {"done", "refused"} /\ job'[h].mode = job[h].mode /\ job'[h].left = job[h].left
              /\ job'[h].pc = "refused" => rows' = rows
            BY <1>1, <1>r DEF ServeMark, Goto, Jobs, JobsShape
        <2>4. MemberJob(h)'
            BY <1>s, <2>1, <2>2, <2>3 DEF MemberJob
        <2> QED BY <1>1, <2>1, <2>3, <2>4, <1>s, MemberMoves DEF ServeMark, Goto, JobsShape
    <1>2. ASSUME NEW h \in Handlers, ServeCreate(h) PROVE MemberAll'
        <2>1. job[h].pc = "call" /\ h # "load" /\ job[h].mode # "delete"
            BY <1>2, <1>s DEF ServeCreate, At, Creates, MemberJob
        <2>2. job[h].left = {}
            BY <2>1, <1>s, <1>c DEF ConfirmJob, MemberJob
        <2>3. job'[h].pc = "done" /\ job'[h].mode = job[h].mode /\ job'[h].left = job[h].left
            BY <1>2, <1>r DEF ServeCreate, Goto, Jobs, JobsShape
        <2>4. MemberJob(h)'
            BY <1>s, <2>1, <2>2, <2>3 DEF MemberJob
        <2> QED BY <1>2, <2>1, <2>3, <2>4, <1>s, MemberMoves DEF ServeCreate, Goto, JobsShape
    <1>3. ASSUME NEW h \in Handlers, ServeSave(h) PROVE MemberAll'
        BY <1>3, <1>t, <1>q, <1>k DEF ServeSave, At, Begin
    <1>4. ASSUME NEW h \in Handlers, ServeList(h) PROVE MemberAll'
        <2>1. job[h].pc = "list" /\ h = "load" /\ job[h].left = {}
            BY <1>4, <1>s DEF ServeList, At, MemberJob
        <2>2. /\ job'[h].pc = "listed" /\ job'[h].mode = job[h].mode /\ job'[h].left = job[h].left
              /\ job'[h].ans = rows
            BY <1>4, <1>r, <1>t DEF ServeList, Jobs, JobsShape
        <2>3. UNCHANGED <<rows, missed>> /\ \A g \in Handlers \ {h} : job'[g] = job[g]
            BY <1>4 DEF ServeList, table, JobsShape
        <2>4. MemberJob(h)'
            BY <1>s, <2>1, <2>2 DEF MemberJob
        <2>5. Following'
            BY <2>1, <2>2, <2>3 DEF Following, At
        <2> QED BY <2>3, <2>4, <2>5, <1>s DEF MemberAll, MemberJob
    <1>5. ASSUME NEW h \in Handlers, Loaded(h) PROVE MemberAll'
        <2>1. job[h].pc = "listed" /\ h = "load" /\ job'[h] = Idle /\ view' = Shown(h) /\ UNCHANGED <<rows, missed>>
            BY <1>5, <1>s DEF Loaded, At, End, MemberJob, JobsShape
        <2>2. Shown(h) = job["load"].ans
            BY <2>1, <1>k DEF Shown
        <2>3. \A g \in Handlers \ {h} : job'[g] = job[g]
            BY <1>5 DEF Loaded, End, JobsShape
        <2>4. MemberJob(h)'
            BY <2>1, <1>j DEF MemberJob
        <2>5. Following'
            <3>1. CASE \E g \in Handlers : At(g, "done")
                <4>1. PICK g \in Handlers : At(g, "done")
                    BY <3>1
                <4> QED BY <4>1, <2>1, <2>3 DEF Following, At
            <3>2. CASE job["load"].ans = rows
                BY <3>2, <2>1, <2>2, <1>j DEF Following, Free
            <3>3. CASE missed
                BY <3>3, <2>1 DEF Following
            <3> QED BY <3>1, <3>2, <3>3, <2>1, <1>s DEF Following, MemberAll, At, Free
        <2> QED BY <2>3, <2>4, <2>5, <1>s DEF MemberAll, MemberJob
    <1>6. ASSUME NEW h \in Handlers, LoadFailed(h) PROVE MemberAll'
        BY <1>6, <1>t, <1>q, <1>k DEF LoadFailed, At, Begin
    <1>7. ASSUME NEW h \in Handlers, ReloadedClosing(h) PROVE MemberAll'
        BY <1>7, <1>t, <1>q, <1>k DEF ReloadedClosing, At, Begin
    <1>8. ASSUME NEW h \in Handlers, Saved(h) PROVE MemberAll'
        BY <1>8, <1>t, <1>q, <1>k DEF Saved, At, Begin
    <1>9. ASSUME NEW h \in Handlers, SavedFields(h) PROVE MemberAll'
        BY <1>9, <1>t, <1>q, <1>k DEF SavedFields, At, Begin
    <1>10. ASSUME NEW h \in Handlers, Fetched(h) PROVE MemberAll'
        BY <1>10, <1>t, <1>q, <1>k DEF Fetched, At, Begin
    <1>11. ASSUME NEW h \in Handlers, SaveFailed(h) PROVE MemberAll'
        BY <1>11, <1>t, <1>q, <1>k DEF SaveFailed, At, Begin
    <1>12. ASSUME NEW h \in Handlers, Lose(h) PROVE MemberAll'
        BY <1>12, <1>t, <1>q, <1>k DEF Lose, At, Begin
    <1>13. ASSUME NEW h \in Handlers, NEW i \in Ids, ServeDelete(h, i) PROVE MemberAll'
        <2>1. h = "confirm" /\ job[h].pc = "call" /\ i \in job[h].left
            BY <1>13, <1>s DEF ServeDelete, MemberJob
        <2>2. job[h].left = {i}
            BY <2>1, <1>s DEF MemberJob
        <2>3. /\ job'[h].left = {} /\ job'[h].mode = job[h].mode
              /\ job'[h].pc = IF i \notin RowIds(rows) THEN "refused" ELSE "done"
            BY <1>13, <1>r, <2>1, <2>2 DEF ServeDelete, Jobs, JobsShape
        <2>4. rows' = Without(rows, i) /\ UNCHANGED <<view, missed>> /\ \A g \in Handlers \ {h} : job'[g] = job[g]
            BY <1>13 DEF ServeDelete, JobsShape
        <2>5. i \notin RowIds(rows) => rows' = rows
            BY <2>4, WithoutRows DEF ServerShape
        <2>6. MemberJob(h)'
            BY <1>s, <2>1, <2>3 DEF MemberJob
        <2>7. view' = view /\ missed' = missed
            BY <2>4
        <2> QED BY <2>1, <2>3, <2>4, <2>5, <2>6, <2>7, <1>s, MemberMoves
    <1>14. CASE Deleted
        BY <1>14, <1>t, <1>q, <1>k DEF Deleted, At, Begin
    <1>15. CASE ShortcutDeleted
        BY <1>15, <1>t, <1>q, <1>k DEF ShortcutDeleted, At, Begin
    <1>16. CASE ReloadAnyway
        BY <1>16, <1>t, <1>q, <1>k DEF ReloadAnyway, At, Begin
    <1>17. CASE MemberArchived
        <2>1. /\ job["confirm"].pc = "done" /\ job'["confirm"] = [job["confirm"] EXCEPT !.pc = "await"]
              /\ job'["load"] = Refetch(job)["load"] /\ Misses
              /\ \A g \in Handlers \ {"confirm", "load"} : job'[g] = job[g]
            BY <1>17, RefetchShape DEF MemberArchived, At, JobsShape, Handlers
        <2>2. job'["confirm"].pc \in {"idle", "await"}
                 /\ job'["confirm"].mode \in {"none", job["confirm"].mode} /\ job'["confirm"].left = {}
            BY <2>1, <1>j, <1>r, <1>s DEF MemberJob, Jobs, Handlers
        <2>3. MemberJob("confirm")'
            BY <2>2, <1>s DEF MemberJob, Handlers
        <2> QED BY <1>s, <2>1, <2>3, MemberRefetches DEF Handlers
    <1>18. CASE ArchiveEnds
        <2>1. job["confirm"].pc # "done" /\ job'["confirm"] = Idle /\ UNCHANGED <<rows, view, missed>>
            BY <1>18, <1>t DEF ArchiveEnds, At, End, table, JobsShape, Handlers
        <2>2. MemberJob("confirm")'
            BY <2>1, <1>j DEF MemberJob
        <2> QED BY <1>18, <2>1, <2>2, <1>s, MemberMoves DEF ArchiveEnds, End, JobsShape, Handlers
    <1>19. CASE UserDeleted
        <2>0. job["confirm"].pc = "done" /\ Misses /\ job' = [Refetch(job) EXCEPT !["confirm"] = Idle]
            BY <1>19, <1>t DEF UserDeleted, At
        <2>1. /\ job["confirm"].pc = "done" /\ job'["confirm"] = Idle /\ job'["load"] = Refetch(job)["load"] /\ Misses
              /\ \A g \in Handlers \ {"confirm", "load"} : job'[g] = job[g]
            BY <2>0, Refetched DEF Handlers
        <2>2. job'["confirm"].pc \in {"idle", "await"}
                 /\ job'["confirm"].mode \in {"none", job["confirm"].mode} /\ job'["confirm"].left = {}
            BY <2>1, <1>j, <1>r, <1>s DEF MemberJob, Jobs, Handlers
        <2>3. MemberJob("confirm")'
            BY <2>2, <1>s DEF MemberJob, Handlers
        <2> QED BY <1>s, <2>1, <2>3, MemberRefetches DEF Handlers
    <1>20. CASE ConfirmFailed
        <2> DEFINE c == job["confirm"]
                   d == [c EXCEPT !.pc = "call", !.retried = TRUE, !.left = c.ids]
        <2>1. c.pc = "refused" /\ UNCHANGED <<rows, view, missed>> /\ \A g \in Handlers \ {"confirm"} : job'[g] = job[g]
            BY <1>20 DEF ConfirmFailed, At, table, JobsShape, Handlers
        <2>2. job'["confirm"] = Idle \/ job'["confirm"] = d
            BY <1>20 DEF ConfirmFailed, JobsShape, Handlers
        <2>3. d.pc = "call" /\ d.left = c.ids /\ d.mode = c.mode
            BY <1>r DEF Jobs, Handlers
        <2> HIDE DEF d
        <2>4. c.mode \in {"delete", "archive"} /\ \E i \in c.ids : c.ids = {i}
            BY <2>1, <1>c, <1>t DEF ConfirmJob
        <2>5. MemberJob("confirm")'
            BY <2>2, <2>3, <2>4, <1>j DEF MemberJob
        <2> QED BY <2>1, <2>5, <1>s, MemberMoves DEF Handlers
    <1>21. CASE Submitted
        <2>0. job["submit"].pc = "done" /\ Misses /\ job' = [Refetch(job) EXCEPT !["submit"] = Idle]
            BY <1>21, <1>t DEF Submitted, At
        <2>1. /\ job["submit"].pc = "done" /\ job'["submit"] = Idle /\ job'["load"] = Refetch(job)["load"] /\ Misses
              /\ \A g \in Handlers \ {"submit", "load"} : job'[g] = job[g]
            BY <2>0, Refetched DEF Handlers
        <2>2. job'["submit"].pc \in {"idle", "await"}
                 /\ job'["submit"].mode \in {"none", job["submit"].mode} /\ job'["submit"].left = {}
            BY <2>1, <1>j, <1>r, <1>s DEF MemberJob, Jobs, Handlers
        <2>3. MemberJob("submit")'
            BY <2>2, <1>s DEF MemberJob, Handlers
        <2> QED BY <1>s, <2>1, <2>3, MemberRefetches DEF Handlers
    <1>22. CASE SubmitFailed
        <2>1. job["submit"].pc # "done" /\ job'["submit"] = Idle /\ UNCHANGED <<rows, view, missed>>
            BY <1>22, <1>t DEF SubmitFailed, At, End, table, JobsShape, Handlers
        <2>2. MemberJob("submit")'
            BY <2>1, <1>j DEF MemberJob
        <2> QED BY <1>22, <2>1, <2>2, <1>s, MemberMoves DEF SubmitFailed, End, JobsShape, Handlers
    <1>23. CASE Restored
        <2>0. job["row"].pc = "done" /\ Misses /\ job' = [Refetch(job) EXCEPT !["row"] = Idle]
            BY <1>23, <1>t DEF Restored, At
        <2>1. /\ job["row"].pc = "done" /\ job'["row"] = Idle /\ job'["load"] = Refetch(job)["load"] /\ Misses
              /\ \A g \in Handlers \ {"row", "load"} : job'[g] = job[g]
            BY <2>0, Refetched DEF Handlers
        <2>2. job'["row"].pc \in {"idle", "await"} /\ job'["row"].mode \in {"none", job["row"].mode} /\ job'["row"].left = {}
            BY <2>1, <1>j, <1>r, <1>s DEF MemberJob, Jobs, Handlers
        <2>3. MemberJob("row")'
            BY <2>2, <1>s DEF MemberJob, Handlers
        <2> QED BY <1>s, <2>1, <2>3, MemberRefetches DEF Handlers
    <1>24. CASE RowDone
        <2>1. job["row"].pc # "done" /\ job'["row"] = Idle /\ UNCHANGED <<rows, view, missed>>
            BY <1>24, <1>t DEF RowDone, At, End, table, JobsShape, Handlers
        <2>2. MemberJob("row")'
            BY <2>1, <1>j DEF MemberJob
        <2> QED BY <1>24, <2>1, <2>2, <1>s, MemberMoves DEF RowDone, End, JobsShape, Handlers
    <1>25. CASE Age
        BY <1>25, <1>s, MemberStays DEF Age
    <1>26. CASE Focus
        <2>1. /\ job'["load"] = Refetch(job)["load"] /\ Misses
              /\ \A g \in Handlers \ {"row", "load"} : job'[g] = job[g]
            BY <1>26, RefetchShape DEF Focus, JobsShape, Handlers
        <2>2. job'["row"] = job["row"]
            BY <1>26, RefetchShape DEF Focus, Handlers
        <2>3. MemberJob("row")'
            BY <1>s, <2>2 DEF MemberJob, Handlers
        <2> QED BY <1>s, <2>1, <2>3, MemberRefetches DEF Handlers
    <1>27. CASE OpenCreate
        BY <1>27, <1>s, MemberStays DEF OpenCreate
    <1>28. CASE Cancel
        BY <1>28, <1>s, MemberStays DEF Cancel
    <1>29. CASE Confirm
        <2> DEFINE j == [Call(dialog.mode) EXCEPT !.ids = {dialog.id}, !.seen = view,
                           !.left = IF dialog.mode = "delete" THEN {dialog.id} ELSE {}]
        <2>1. dialog.mode = "archive"
            BY <1>29, <1>c DEF Confirm, DialogOf
        <2>2. j.pc = "call" /\ j.mode = dialog.mode /\ j.left = {}
            BY <2>1 DEF Call, Idle
        <2>3. Begin("confirm", j) /\ UNCHANGED <<rows, view, missed>>
            BY <1>29 DEF Confirm, table
        <2> HIDE DEF j
        <2>4. job["confirm"].pc = "idle" /\ job'["confirm"] = j /\ \A g \in Handlers \ {"confirm"} : job'[g] = job[g]
            BY <2>3 DEF Begin, Free, JobsShape, Handlers
        <2>5. MemberJob("confirm")'
            BY <2>1, <2>2, <2>4 DEF MemberJob
        <2> QED BY <1>s, <2>3, <2>4, <2>5, MemberMoves DEF Handlers
    <1>30. CASE ConfirmDeleteUser
        <2> DEFINE j == [Call("delete") EXCEPT !.ids = {dialog.id}, !.left = {dialog.id}]
        <2>2. j.pc = "call" /\ j.mode = "delete" /\ j.left = {dialog.id}
            BY DEF Call, Idle
        <2>3. Begin("confirm", j) /\ UNCHANGED <<rows, view, missed>>
            BY <1>30 DEF ConfirmDeleteUser, table
        <2> HIDE DEF j
        <2>4. job["confirm"].pc = "idle" /\ job'["confirm"] = j /\ \A g \in Handlers \ {"confirm"} : job'[g] = job[g]
            BY <2>3 DEF Begin, Free, JobsShape, Handlers
        <2>5. MemberJob("confirm")'
            BY <2>2, <2>4 DEF MemberJob
        <2> QED BY <1>s, <2>3, <2>4, <2>5, MemberMoves DEF Handlers
    <1>31. CASE DeleteUnused
        BY <1>31, <1>t, <1>q, <1>k DEF DeleteUnused, At, Begin
    <1>32. CASE Submit
        <2> DEFINE j == [Call(dialog.mode) EXCEPT !.ids = IF dialog.id = None THEN {} ELSE {dialog.id}]
        <2>1. dialog.mode \in {"create", "edit"}
            BY <1>32 DEF Submit, SubmitOf
        <2>2. j.pc = "call" /\ j.mode = dialog.mode /\ j.left = {}
            BY DEF Call, Idle
        <2>3. Begin("submit", j) /\ UNCHANGED <<rows, view, missed>>
            BY <1>32 DEF Submit, table
        <2> HIDE DEF j
        <2>4. job["submit"].pc = "idle" /\ job'["submit"] = j /\ \A g \in Handlers \ {"submit"} : job'[g] = job[g]
            BY <2>3 DEF Begin, Free, JobsShape, Handlers
        <2>5. MemberJob("submit")'
            BY <2>1, <2>2, <2>4 DEF MemberJob
        <2> QED BY <1>s, <2>3, <2>4, <2>5, MemberMoves DEF Handlers
    <1>33. CASE More
        BY <1>33, <1>t, <1>q, <1>k DEF More, At, Begin
    <1>34. CASE Save
        BY <1>34, <1>t, <1>q, <1>k DEF Save, At, Begin
    <1>35. CASE SaveAccount
        BY <1>35, <1>t, <1>q, <1>k DEF SaveAccount, At, Begin
    <1>36. CASE SaveProfile
        BY <1>36, <1>t, <1>q, <1>k DEF SaveProfile, At, Begin
    <1>37. ASSUME NEW i \in Ids, OtherDelete(i) PROVE MemberAll'
        BY <1>37, <1>t, <1>q, <1>k DEF OtherDelete, At, Begin
    <1>38. ASSUME NEW i \in Ids, OtherMark(i) PROVE MemberAll'
        BY <1>38, <1>t, <1>q, <1>k DEF OtherMark, At, Begin
    <1>39. ASSUME NEW i \in Ids, NEW mode \in Modes, Open(mode, i) PROVE MemberAll'
        BY <1>39, <1>s, MemberStays DEF Open
    <1>40. ASSUME NEW i \in Ids, NEW mode \in Modes, RowButton(mode, i) PROVE MemberAll'
        <2> DEFINE j == [Call(mode) EXCEPT !.ids = {i}, !.left = IF mode = "delete" THEN {i} ELSE {}]
        <2>1. mode = "restore"
            BY <1>40, <1>t DEF RowButton
        <2>2. j.pc = "call" /\ j.mode = mode /\ j.left = {}
            BY <2>1 DEF Call, Idle
        <2>3. Begin("row", j) /\ UNCHANGED <<rows, view, missed>>
            BY <1>40 DEF RowButton, table
        <2> HIDE DEF j
        <2>4. job["row"].pc = "idle" /\ job'["row"] = j /\ \A g \in Handlers \ {"row"} : job'[g] = job[g]
            BY <2>3 DEF Begin, Free, JobsShape, Handlers
        <2>5. MemberJob("row")'
            BY <2>1, <2>2, <2>4 DEF MemberJob
        <2> QED BY <1>s, <2>3, <2>4, <2>5, MemberMoves DEF Handlers
    <1>41. ASSUME NEW v \in Values, EditProfile(v) PROVE MemberAll'
        BY <1>41, <1>t, <1>q, <1>k DEF EditProfile, At, Begin
    <1>42. ASSUME NEW v \in Values, NEW f \in Fields, Edit(f, v) PROVE MemberAll'
        BY <1>42, <1>t, <1>q, <1>k DEF Edit, At, Begin
    <1>43. ASSUME NEW v \in Values, NEW f \in Fields, OtherSave(f, v) PROVE MemberAll'
        BY <1>43, <1>t, <1>q, <1>k DEF OtherSave, At, Begin
    <1>44. ASSUME NEW v \in Values, NEW f \in Fields, NEW h \in Handlers, Prefer(h, f, v)
           PROVE  MemberAll'
        BY <1>44, <1>t, <1>q, <1>k DEF Prefer, Silenced, At, Begin
    <1>45. ASSUME NEW v \in Values, NEW f \in Fields, PreferMenu(f, v)
           PROVE  MemberAll'
        BY <1>45, <1>t, <1>q, <1>k DEF PreferMenu, At, Begin
    <1> QED
        BY <1>0, <1>1, <1>2, <1>3, <1>4, <1>5, <1>6, <1>7, <1>8, <1>9, <1>10, <1>11, <1>12, <1>13,
           <1>14, <1>15, <1>16, <1>17, <1>18, <1>19, <1>20, <1>21, <1>22, <1>23, <1>24, <1>25,
           <1>26, <1>27, <1>28, <1>29, <1>30, <1>31, <1>32, <1>33, <1>34, <1>35, <1>36, <1>37,
           <1>38, <1>39, <1>40, <1>41, <1>42, <1>43, <1>44, <1>45
        DEF Next, Progress, Choices


(* ---- the pages of attachments ---- *)
\* Without overlap, failure and other clients: the pages shown are the first of the server's, and
\* the token is that of the next.
FirstPages ==
    /\ view = SubSeq(rows, 1, Len(view)) /\ Len(view) <= Len(rows)
    /\ IF page = 0 THEN view = rows ELSE page = Len(view)
PageJob(h) ==
    LET j == job[h] IN
    /\ j.pc \in {"idle", "call", "done", "list", "listed"}
    /\ h # "confirm" => j.pc \in {"idle", "list", "listed"} /\ j.left = {}
    /\ IF h = "row" THEN j.pc # "idle" => FirstPages /\ page # 0 /\ j.from = page /\ j.mode = "more"
       ELSE j.from = 0 /\ j.mode # "more"
    /\ j.left \subseteq RowIds(rows) /\ (j.pc # "call" => j.left = {})
    /\ j.pc = "listed" => j.ans = PageFrom(j.from)
PagesAll == (AtRest => FirstPages) /\ \A h \in Handlers : PageJob(h)
PagesInv == (sect = "attachments" /\ Quiet) => PagesAll

LEMMA FirstPage ==
    ASSUME rows \in Seq(Row)
    PROVE  LET p == PageFrom(0) IN
           /\ p = SubSeq(rows, 1, Len(p)) /\ Len(p) <= Len(rows)
           /\ p = <<>> => rows = <<>>
           /\ p # <<>> => Len(p) = 1
    <1>0. Len(rows) \in Nat
        OBVIOUS
    <1>1. CASE Len(rows) > 0
        <2>1. PageFrom(0) = SubSeq(rows, 1, 1) /\ 1 \in 1..Len(rows)
            BY <1>0, <1>1 DEF PageFrom
        <2>2. Len(SubSeq(rows, 1, 1)) = 1
            BY <2>1
        <2> QED BY <1>0, <1>1, <2>1, <2>2
    <1>2. CASE Len(rows) = 0
        <2>1. PageFrom(0) = SubSeq(rows, 1, 0)
            BY <1>2 DEF PageFrom
        <2>2. SubSeq(rows, 1, 0) = <<>>
            BY SubSeqEmpty
        <2>3. rows = <<>>
            BY <1>2
        <2> QED BY <1>0, <2>1, <2>2, <2>3
    <1> QED BY <1>0, <1>1, <1>2

LEMMA NextPage ==
    ASSUME rows \in Seq(Row), NEW n \in Nat \ {0}, n <= Len(rows)
    PROVE  LET s == SubSeq(rows, 1, n) \o PageFrom(n) IN
           IF PageFrom(n) = <<>> THEN s = rows
           ELSE s = SubSeq(rows, 1, n + 1) /\ Len(s) = n + 1 /\ n + 1 <= Len(rows)
    <1>0. Len(rows) \in Nat
        OBVIOUS
    <1>1. CASE Len(rows) > n
        <2>1. PageFrom(n) = SubSeq(rows, n + 1, n + 1) /\ n + 1 \in 1..Len(rows)
            BY <1>0, <1>1 DEF PageFrom
        <2>2. Len(SubSeq(rows, n + 1, n + 1)) = 1 /\ Len(SubSeq(rows, 1, n + 1)) = n + 1
            BY <2>1
        <2>3. SubSeq(rows, 1, n) \o SubSeq(rows, n + 1, n + 1) = SubSeq(rows, 1, n + 1)
            <3>1. 1 \in 1..(Len(rows) + 1) /\ n \in (1 - 1)..Len(rows) /\ n + 1 \in n..Len(rows)
                BY <1>0, <2>1
            <3> QED BY <3>1, ConcatAdjacentSubSeq
        <2>4. PageFrom(n) # <<>>
            BY <2>1, <2>2
        <2> QED BY <1>0, <2>1, <2>2, <2>3, <2>4
    <1>2. CASE ~(Len(rows) > n)
        <2>1. PageFrom(n) = SubSeq(rows, n + 1, n) /\ n = Len(rows)
            BY <1>0, <1>2 DEF PageFrom
        <2>2. PageFrom(n) = <<>>
            BY <2>1, SubSeqEmpty
        <2>3. SubSeq(rows, 1, n) = rows
            BY <2>1, SubSeqFull
        <2>4. rows \o <<>> = rows
            BY ConcatEmptySeq
        <2> QED BY <2>2, <2>3, <2>4
    <1> QED BY <1>1, <1>2

\* A list shown, with its token.
LEMMA PagesShown ==
    ASSUME Shape, sect = "attachments", NEW h \in Handlers, job[h].pc = "listed", PageJob(h), rows' = rows,
           view' = Shown(h), page' = Token(h)
    PROVE  FirstPages'
    <1>0. rows \in Seq(Row) /\ view \in Seq(Row) /\ job[h].ans \in Seq(Row) /\ page \in Nat
        BY DEF Shape, ServerShape, JobsShape, Forms, Whole
    <1>1. CASE h = "row"
        <2>1. /\ FirstPages /\ page # 0 /\ job[h].from = page /\ job[h].mode = "more" /\ job[h].ans = PageFrom(page)
              /\ page = Len(view) /\ page <= Len(rows) /\ view = SubSeq(rows, 1, page)
            BY <1>1 DEF PageJob, FirstPages
        <2>2. view' = SubSeq(rows, 1, page) \o PageFrom(page)
            BY <2>1 DEF Shown
        <2>3. page' = IF PageFrom(page) = <<>> THEN 0 ELSE page + 1
            BY <2>1 DEF Token
        <2>4. page \in Nat \ {0}
            BY <1>0, <2>1
        <2>5. CASE PageFrom(page) = <<>>
            <3>1. view' = rows /\ page' = 0
                BY <1>0, <2>1, <2>2, <2>3, <2>4, <2>5, NextPage
            <3>2. SubSeq(rows, 1, Len(rows)) = rows /\ Len(rows) \in Nat
                BY <1>0, SubSeqFull
            <3> QED BY <3>1, <3>2 DEF FirstPages
        <2>6. CASE PageFrom(page) # <<>>
            <3>1. view' = SubSeq(rows, 1, page + 1) /\ Len(view') = page + 1 /\ page + 1 <= Len(rows) /\ page' = page + 1
                BY <1>0, <2>1, <2>2, <2>3, <2>4, <2>6, NextPage
            <3> QED BY <1>0, <3>1 DEF FirstPages
        <2> QED BY <2>5, <2>6
    <1>2. CASE h # "row"
        <2> DEFINE p == PageFrom(0)
        <2>1. job[h].from = 0 /\ job[h].mode # "more" /\ job[h].ans = p
            BY <1>2 DEF PageJob
        <2>2. view' = p /\ page' = IF p = <<>> THEN 0 ELSE 1
            BY <2>1 DEF Shown, Token
        <2>3. p = SubSeq(rows, 1, Len(p)) /\ Len(p) <= Len(rows) /\ (p = <<>> => rows = <<>>) /\ (p # <<>> => Len(p) = 1)
            BY <1>0, FirstPage
        <2> HIDE DEF p
        <2> QED BY <2>2, <2>3 DEF FirstPages
    <1> QED BY <1>1, <1>2

LEMMA PagesMove ==
    ASSUME TableInv, PagesAll, sect = "attachments", ~raced, NEW h \in Handlers, ~Free(h),
           \A g \in Handlers \ {h} : job'[g] = job[g], PageJob(h)', job'[h].pc = "idle" => FirstPages'
    PROVE  PagesAll'
    <1>1. \A g \in Handlers \ {h} : job[g].pc = "idle" /\ job[g].left = {}
        BY DEF TableInv, Alone, Free, Queries
    <1>2. \A g \in Handlers \ {h} : PageJob(g)'
        BY <1>1 DEF PagesAll, PageJob
    <1> QED BY <1>1, <1>2 DEF PagesAll, AtRest, Free

LEMMA PagesBegin ==
    ASSUME TableInv, JobsShape, PagesAll, ~raced', NEW h \in Handlers, NEW j, Begin(h, j), PageJob(h)', j.pc # "idle"
    PROVE  PagesAll'
    <1>1. AtRest /\ job'[h] = j /\ \A g \in Handlers \ {h} : job'[g] = job[g]
        BY OthersBegin DEF Begin, JobsShape
    <1>2. \A g \in Handlers \ {h} : job[g].pc = "idle" /\ job[g].left = {}
        BY <1>1 DEF TableInv, Alone, AtRest, Free
    <1>3. \A g \in Handlers \ {h} : PageJob(g)'
        BY <1>1, <1>2 DEF PagesAll, PageJob
    <1> QED BY <1>1, <1>3 DEF PagesAll, AtRest, Free

LEMMA PagesStay ==
    ASSUME PagesAll, UNCHANGED <<job, rows, view, page>>
    PROVE  PagesAll'
    <1>1. FirstPages => FirstPages'
        BY DEF FirstPages
    <1>2. \A n : PageFrom(n)' = PageFrom(n)
        BY DEF PageFrom
    <1>3. \A h \in Handlers : PageJob(h)'
        BY <1>1, <1>2 DEF PagesAll, PageJob
    <1> QED BY <1>1, <1>3 DEF PagesAll, AtRest, Free

LEMMA PagesInit == Init => PagesInv
    <1> SUFFICES ASSUME Init, sect = "attachments" PROVE PagesAll
        BY DEF PagesInv
    <1>1. sect \in Tables
        BY DEF Tables
    <1>2. /\ Idle.pc = "idle" /\ Idle.mode = "none" /\ Idle.left = {} /\ Idle.from = 0
          /\ List(Idle).pc = "list" /\ List(Idle).mode = "none" /\ List(Idle).left = {} /\ List(Idle).from = 0
        BY DEF List, Idle
    <1>3. job["load"] = List(Idle) /\ \A h \in Handlers \ {"load"} : job[h] = Idle
        BY <1>1 DEF Init, Handlers, Queries
    <1>4. ~AtRest
        BY <1>2, <1>3 DEF AtRest, Free, Handlers
    <1>5. \A h \in Handlers : PageJob(h)
        BY <1>2, <1>3 DEF PageJob
    <1> QED BY <1>4, <1>5 DEF PagesAll

LEMMA PagesStep == TableInv /\ MarkInv /\ PagesInv /\ [Next]_vars => PagesInv'
    <1> SUFFICES ASSUME TableInv, Shape, JobsShape, ServerShape, MarkInv, [Next]_vars, PagesInv, sect = "attachments", sect' = sect,
                        Quiet, Quiet'
                 PROVE  PagesAll'
        BY SectStays DEF TableInv, Shape, PagesInv, Quiet
    <1>s. PagesAll /\ \A h \in Handlers : PageJob(h)
        BY DEF PagesInv, PagesAll
    <1>q. ~blind /\ ~raced /\ ~blind' /\ ~raced'
        BY DEF Quiet
    <1>t. sect \notin Forms /\ sect \in Tables
        BY DEF Forms, Whole, Tables
    <1>r. \A h \in Handlers : job[h] \in Jobs
        BY DEF JobsShape
    <1>j. Idle.pc = "idle" /\ Idle.mode = "none" /\ Idle.left = {} /\ Idle.from = 0
        BY DEF Idle
    <1>i. \A h \in Handlers : (job'[h] = Idle => PageJob(h)')
        BY <1>j DEF PageJob
    <1>m. AttStep \/ UNCHANGED vars
        BY AttSteps DEF MarkInv
    <1>0. CASE UNCHANGED vars
        BY <1>0, <1>s, PagesStay DEF vars
    <1>1. ASSUME NEW h \in Handlers, ServeList(h) PROVE PagesAll'
        <2>1. job[h].pc = "list" /\ job[h].left = {}
            BY <1>1, <1>s DEF ServeList, At, PageJob
        <2>2. /\ job'[h].pc = "listed" /\ job'[h].mode = job[h].mode /\ job'[h].left = job[h].left
              /\ job'[h].from = job[h].from /\ job'[h].ans = PageFrom(job[h].from)
            BY <1>1, <1>r, <1>t DEF ServeList, Jobs, JobsShape
        <2>3. UNCHANGED <<rows, view, page>> /\ \A g \in Handlers \ {h} : job'[g] = job[g]
            BY <1>1 DEF ServeList, table, JobsShape
        <2>4. (FirstPages => FirstPages') /\ \A n : PageFrom(n)' = PageFrom(n)
            BY <2>3 DEF FirstPages, PageFrom
        <2>5. PageJob(h)'
            BY <1>s, <2>1, <2>2, <2>3, <2>4 DEF PageJob
        <2> QED BY <1>s, <1>q, <2>1, <2>2, <2>3, <2>5, PagesMove DEF Free
    <1>2. ASSUME NEW h \in Handlers, Loaded(h) \/ ReloadedClosing(h) PROVE PagesAll'
        <2>1. /\ job[h].pc = "listed" /\ job'[h] = Idle /\ view' = Shown(h) /\ page' = Token(h) /\ rows' = rows
              /\ \A g \in Handlers \ {h} : job'[g] = job[g]
            BY <1>2 DEF Loaded, ReloadedClosing, At, End, JobsShape
        <2>2. FirstPages'
            BY <2>1, <1>s, PagesShown
        <2> QED BY <1>s, <1>q, <1>i, <2>1, <2>2, PagesMove DEF Free
    <1>3. ASSUME NEW h \in Handlers, LoadFailed(h) PROVE PagesAll'
        BY <1>3, <1>s DEF LoadFailed, At, PageJob
    <1>4. ASSUME NEW h \in Handlers, NEW i \in Ids, ServeDelete(h, i) PROVE PagesAll'
        <2>1. h = "confirm" /\ job[h].pc = "call" /\ i \in job[h].left /\ job[h].left \subseteq RowIds(rows)
            BY <1>4, <1>s DEF ServeDelete, PageJob
        <2>2. /\ job'[h].left = job[h].left \ {i} /\ job'[h].mode = job[h].mode /\ job'[h].from = job[h].from
              /\ job'[h].pc = IF job[h].left = {i} THEN "done" ELSE "call"
            BY <1>4, <1>r, <2>1 DEF ServeDelete, Jobs, JobsShape
        <2>3. rows' = Without(rows, i) /\ \A g \in Handlers \ {h} : job'[g] = job[g]
            BY <1>4 DEF ServeDelete, JobsShape
        <2>4. job[h].left \ {i} \subseteq RowIds(Without(rows, i))
            <3> SUFFICES ASSUME NEW k \in job[h].left, k # i PROVE k \in RowIds(Without(rows, i))
                OBVIOUS
            <3>1. PICK m \in DOMAIN rows : rows[m].id = k
                BY <2>1 DEF RowIds
            <3>2. PICK n \in DOMAIN Without(rows, i) : Without(rows, i)[n] = rows[m]
                BY <3>1, WithoutRows DEF ServerShape
            <3> QED BY <3>1, <3>2 DEF RowIds
        <2>5. job'[h].left \subseteq RowIds(rows)'
            BY <2>2, <2>3, <2>4
        <2>6. PageJob(h)'
            BY <1>s, <2>1, <2>2, <2>5 DEF PageJob
        <2>7. ~Free(h) /\ job'[h].pc # "idle"
            BY <2>1, <2>2 DEF Free
        <2> QED BY <1>s, <1>q, <2>3, <2>6, <2>7, PagesMove
    <1>5. CASE ReloadAnyway
        <2>1. /\ job["confirm"].pc = "done" /\ job'["confirm"] = List(job["confirm"])
              /\ \A g \in Handlers \ {"confirm"} : job'[g] = job[g]
            BY <1>5, <1>s DEF ReloadAnyway, At, PageJob, JobsShape, Handlers
        <2>2. /\ List(job["confirm"]).pc = "list" /\ List(job["confirm"]).mode = job["confirm"].mode
              /\ List(job["confirm"]).left = job["confirm"].left /\ List(job["confirm"]).from = job["confirm"].from
            BY <1>r DEF List, Jobs, Handlers
        <2>3. PageJob("confirm")'
            BY <1>s, <2>1, <2>2 DEF PageJob, Handlers
        <2> QED BY <1>s, <1>q, <2>1, <2>2, <2>3, PagesMove DEF Free, Handlers
    <1>6. CASE Cancel
        BY <1>6, <1>s, PagesStay DEF Cancel
    <1>7. CASE DeleteUnused
        <2> DEFINE j == [Call("delete") EXCEPT !.ids = Unused, !.left = Unused]
        <2>1. j.left = Unused /\ j.pc = "call" /\ j.mode = "delete" /\ j.from = 0
            BY DEF Call, Idle
        <2>2. Begin("confirm", j) /\ rows' = rows
            BY <1>7 DEF DeleteUnused
        <2> HIDE DEF j
        <2>3. AtRest /\ job'["confirm"] = j
            BY <2>2, <1>q, OthersBegin DEF Handlers
        <2>4. Unused \subseteq RowIds(rows)
            <3>1. view = SubSeq(rows, 1, Len(view)) /\ Len(view) <= Len(rows) /\ rows \in Seq(Row) /\ view \in Seq(Row)
                BY <1>s, <2>3 DEF PagesAll, FirstPages, ServerShape
            <3>2. \A n \in DOMAIN view : n \in DOMAIN rows /\ view[n] = rows[n]
                <4>1. Len(view) \in Nat /\ Len(rows) \in Nat /\ DOMAIN view = 1..Len(view) /\ DOMAIN rows = 1..Len(rows)
                    BY <3>1, ListDomain
                <4>2. \A n \in 1..Len(view) : SubSeq(rows, 1, Len(view))[n] = rows[n]
                    BY <4>1
                <4> QED BY <3>1, <4>1, <4>2
            <3> QED BY <3>2 DEF Unused, RowIds
        <2>5. PageJob("confirm")'
            BY <2>1, <2>2, <2>3, <2>4 DEF PageJob
        <2> QED BY <1>s, <1>q, <2>1, <2>2, <2>5, PagesBegin DEF Handlers
    <1>8. CASE More
        <2> DEFINE j == [List(Idle) EXCEPT !.mode = "more", !.from = page]
        <2>1. j.left = {} /\ j.pc = "list" /\ j.mode = "more" /\ j.from = page
            BY DEF List, Idle
        <2>2. Begin("row", j) /\ UNCHANGED <<rows, view, page>> /\ page # 0
            BY <1>8 DEF More, table
        <2> HIDE DEF j
        <2>3. AtRest /\ job'["row"] = j
            BY <2>2, <1>q, OthersBegin DEF Handlers
        <2>4. FirstPages'
            BY <1>s, <2>2, <2>3 DEF PagesAll, FirstPages
        <2>5. PageJob("row")'
            BY <2>1, <2>2, <2>3, <2>4 DEF PageJob
        <2> QED BY <1>s, <1>q, <2>1, <2>2, <2>5, PagesBegin DEF Handlers
    <1> QED BY <1>0, <1>1, <1>2, <1>3, <1>4, <1>5, <1>6, <1>7, <1>8, <1>m, <1>q DEF AttStep

(* ---- the tables show what the server has ---- *)
ShownInv == TableInv /\ SubmitOf /\ MarkInv /\ SteadyInv /\ MembersInv /\ PagesInv

LEMMA ShownInit == Init => ShownInv
    <1>1. Init => SubmitOf
        BY DEF Init, SubmitOf, NoDialog
    <1> QED BY <1>1, TableInit, MarkInit, SteadyInit, MembersInit, PagesInit DEF ShownInv

LEMMA ShownStep == ShownInv /\ [Next]_vars => ShownInv'
    BY TableStep, SubmitStep, MarkStep, SteadyStep, MembersStep, PagesStep DEF ShownInv

\* What the tables show, and what is still to come, while handlers are under way.
THEOREM ShownIsKept == Spec => []ShownInv
    <1> QED BY ShownInit, ShownStep, PTL DEF Spec

\* ViewTrue: with every answer received and no other client writing, a table at rest shows what the
\* server has (of the attachments the first pages, once each); the members whatever handlers
\* overlapped, unless a change joined a first fetch served before it, the others when no two did.
THEOREM TablesShowTheServer == Spec => []ViewTrue
    <1>1. ShownInv => ViewTrue
        <2> SUFFICES ASSUME ShownInv, AtRest, ~blind, sect \in Tables \ {"inbox"},
                            IF sect = "members" THEN ~missed ELSE ~raced
                     PROVE  IF sect # "attachments" THEN view = rows
                            ELSE view = SubSeq(rows, 1, Len(view)) /\ (page = 0 => view = rows)
            BY DEF ViewTrue
        <2>1. CASE sect = "members"
            <3>1. Following
                BY <2>1 DEF ShownInv, MembersInv, MemberAll
            <3> QED BY <2>1, <3>1 DEF Following, AtRest, At, Free, Handlers
        <2>2. CASE sect = "attachments"
            BY <2>2 DEF ShownInv, PagesInv, PagesAll, FirstPages, Quiet
        <2>3. CASE sect \in Steady
            BY <2>3 DEF ShownInv, SteadyInv, SteadyAll, Quiet, Steady
        <2> QED BY <2>1, <2>2, <2>3 DEF Tables, Queries, Steady
    <1> QED BY <1>1, ShownIsKept, PTL
=============================================================================
