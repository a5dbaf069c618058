----------------------------- MODULE PageProofs -----------------------------
(* Proofs about a page of the web client, for any constants.                   *)
(*                                                                             *)
(* Its parts (Page): the filters and the address agree (UrlTrue), the answers  *)
(* shown are those to what is asked (AnswersTrue), lists go on (ListsGoOn),    *)
(* the suggestion selected is one shown (SelectedShown), a task ticked or      *)
(* removed is the one meant (TasksTrue) and the grid shows each memo once, its *)
(* columns levelled (GridTrue).                                                *)
(*                                                                             *)
(* Its memo editors (Editor): the draft is what the editor shows and is not    *)
(* offered again once posted (DraftKept), no text is posted twice (PostedOnce), *)
(* no attachment is left that no memo shows (NoOrphans), and an update leaves  *)
(* alone what the user did not touch (KeepsUntouched).                         *)
EXTENDS Page, Editor, FiniteSetTheorems, FunctionTheorems, TLAPS

(* ---- sets of numbers and what a sequence has at them ---- *)

\* A set of naturals that is not empty has a least member.
LEMMA LeastOf ==
    ASSUME NEW S \in SUBSET Nat, S # {}
    PROVE  \E x \in S : \A y \in S : x <= y
    <1> DEFINE R == {p \in Nat \X Nat : p[1] < p[2]}
    <1>1. IsWellFoundedOn(R, Nat)
        BY NatLessThanWellFounded DEF OpToRel
    <1> HIDE DEF R
    <1>2. PICK x \in S : \A y \in S : <<y, x>> \notin R
        BY <1>1, WFMin
    <1>3. \A y \in S : x <= y
        <2> SUFFICES ASSUME NEW y \in S PROVE x <= y
            OBVIOUS
        <2>1. x \in Nat /\ y \in Nat
            OBVIOUS
        <2>2. ~(y < x)
            BY <1>2, <2>1 DEF R
        <2> QED BY <2>1, <2>2
    <1> QED BY <1>3

Increasing(s, n) == \A i, j \in 1..n : i < j => s[i] < s[j]

\* A finite set of naturals can be listed, the least first.
LEMMA CanBeListed ==
    ASSUME NEW S \in SUBSET Nat, IsFiniteSet(S)
    PROVE  \E s \in [1..Cardinality(S) -> S] : Increasing(s, Cardinality(S))
    <1> DEFINE Bad == {U \in SUBSET Nat : /\ IsFiniteSet(U)
                                          /\ ~\E s \in [1..Cardinality(U) -> U] :
                                                 Increasing(s, Cardinality(U))}
               Sizes == {n \in Nat : \E U \in Bad : Cardinality(U) = n}
    <1> SUFFICES ASSUME S \in Bad PROVE FALSE
        OBVIOUS
    <1>1. Sizes # {} /\ Sizes \in SUBSET Nat
        BY FS_CardinalityType
    <1>2. PICK n \in Sizes : \A m \in Sizes : n <= m
        BY <1>1, LeastOf
    <1>3. PICK U \in Bad : Cardinality(U) = n
        OBVIOUS
    <1>4. U # {}
        <2> SUFFICES ASSUME U = {} PROVE FALSE
            OBVIOUS
        <2>1. Cardinality(U) = 0
            BY FS_EmptySet
        <2>2. [i \in 1..0 |-> 0] \in [1..Cardinality(U) -> U]
            BY <2>1
        <2>3. Increasing([i \in 1..0 |-> 0], Cardinality(U))
            BY <2>1 DEF Increasing
        <2> QED BY <1>3, <2>2, <2>3
    <1>5. PICK x \in U : \A y \in U : x <= y
        BY <1>4, LeastOf
    <1>6. /\ IsFiniteSet(U \ {x}) /\ n \in Nat /\ n > 0
          /\ Cardinality(U \ {x}) = n - 1 /\ n - 1 \in Nat
        <2>1. IsFiniteSet(U \ {x}) /\ Cardinality(U \ {x}) = n - 1 /\ n \in Nat
            BY <1>3, FS_RemoveElement
        <2>2. Cardinality(U \ {x}) \in Nat
            BY <2>1, FS_CardinalityType
        <2> QED BY <2>1, <2>2
    <1>7. U \ {x} \notin Bad
        <2> SUFFICES ASSUME U \ {x} \in Bad PROVE FALSE
            OBVIOUS
        <2>1. n - 1 \in Sizes
            BY <1>6
        <2> QED BY <1>2, <1>6, <2>1
    <1>8. PICK s \in [1..(n - 1) -> U \ {x}] : Increasing(s, n - 1)
        BY <1>6, <1>7
    <1> DEFINE t == [i \in 1..n |-> IF i = 1 THEN x ELSE s[i - 1]]
    <1>9. \A i \in 2..n : i - 1 \in 1..(n - 1) /\ t[i] = s[i - 1] /\ t[i] \in U \ {x}
        BY <1>6, <1>8
    <1>10. t \in [1..n -> U]
        BY <1>6, <1>8
    <1>11. Increasing(t, n)
        <2> SUFFICES ASSUME NEW i \in 1..n, NEW j \in 1..n, i < j PROVE t[i] < t[j]
            BY DEF Increasing
        <2>1. j \in 2..n /\ t[j] \in U \ {x} /\ t[j] = s[j - 1] /\ j - 1 \in 1..(n - 1)
            BY <1>6, <1>9
        <2>2. CASE i = 1
            <3>1. t[i] = x
                BY <2>2
            <3>2. x <= t[j] /\ x # t[j] /\ x \in Nat /\ t[j] \in Nat
                BY <1>5, <2>1
            <3> QED BY <3>1, <3>2
        <2>3. CASE i # 1
            <3>1. i \in 2..n
                BY <2>3
            <3>2. t[i] = s[i - 1] /\ i - 1 \in 1..(n - 1)
                BY <1>9, <3>1
            <3>3. i - 1 < j - 1
                OBVIOUS
            <3> QED BY <1>8, <2>1, <3>2, <3>3 DEF Increasing
        <2> QED BY <2>2, <2>3
    <1> HIDE DEF t
    <1> QED BY <1>3, <1>10, <1>11

\* Ascending lists a finite set of naturals: each member once, the least first.
LEMMA AscendingIs ==
    ASSUME NEW S \in SUBSET Nat, IsFiniteSet(S)
    PROVE  /\ Cardinality(S) \in Nat
           /\ Ascending(S) \in [1..Cardinality(S) -> S]
           /\ DOMAIN Ascending(S) = 1..Cardinality(S)
           /\ \A i, j \in 1..Cardinality(S) :
                  /\ i < j <=> Ascending(S)[i] < Ascending(S)[j]
                  /\ Ascending(S)[i] = Ascending(S)[j] => i = j
           /\ \A x \in S : \E i \in 1..Cardinality(S) : Ascending(S)[i] = x
    <1> DEFINE n == Cardinality(S)
               a == Ascending(S)
    <1>1. n \in Nat
        BY FS_CardinalityType
    <1> DEFINE Listings == {s \in [1..n -> S] : \A i, j \in DOMAIN s : i < j => s[i] < s[j]}
    <1>2. PICK s \in [1..n -> S] : Increasing(s, n)
        BY CanBeListed
    <1>3. s \in Listings
        BY <1>2 DEF Increasing
    <1>4. a \in [1..n -> S] /\ \A i, j \in DOMAIN a : i < j => a[i] < a[j]
        BY <1>2, <1>3 DEF Ascending, Increasing
    <1> HIDE DEF a, n
    <1>5. DOMAIN a = 1..n /\ \A i \in 1..n : a[i] \in S /\ a[i] \in Nat
        BY <1>4
    <1>6. \A i, j \in 1..n : (i < j <=> a[i] < a[j]) /\ (a[i] = a[j] => i = j)
        <2> SUFFICES ASSUME NEW i \in 1..n, NEW j \in 1..n
                     PROVE  (i < j <=> a[i] < a[j]) /\ (a[i] = a[j] => i = j)
            OBVIOUS
        <2>1. i \in Nat /\ j \in Nat /\ a[i] \in Nat /\ a[j] \in Nat
            BY <1>1, <1>5
        <2>2. (i < j => a[i] < a[j]) /\ (j < i => a[j] < a[i])
            BY <1>4, <1>5
        <2>3. i < j \/ j < i \/ i = j
            BY <2>1
        <2> QED BY <2>1, <2>2, <2>3
    <1>7. a \in Injection(1..n, S)
        BY <1>4, <1>6, Fun_IsInj
    <1>8. IsFiniteSet(1..n) /\ Cardinality(1..n) = n
        BY <1>1, FS_Interval
    <1>9. a \in Surjection(1..n, S)
        BY <1>7, <1>8, FS_Injection DEF n
    <1>10. \A x \in S : \E i \in 1..n : a[i] = x
        BY <1>9 DEF Surjection
    <1> QED BY <1>1, <1>4, <1>5, <1>6, <1>10 DEF a, n

\* What a sequence has at some places is a sequence of as many values, in their order.
LEMMA AtIs ==
    ASSUME NEW V, NEW s \in Seq(V), NEW S \in SUBSET (DOMAIN s)
    PROVE  /\ IsFiniteSet(S) /\ Cardinality(S) \in Nat /\ S \in SUBSET Nat
           /\ At(s, S) \in Seq(V)
           /\ Len(At(s, S)) = Cardinality(S)
           /\ \A k \in 1..Cardinality(S) : /\ Ascending(S)[k] \in S
                                           /\ At(s, S)[k] = s[Ascending(S)[k]]
    <1>1. IsFiniteSet(S) /\ S \in SUBSET Nat
        <2>1. DOMAIN s = 1..Len(s) /\ Len(s) \in Nat
            OBVIOUS
        <2>2. IsFiniteSet(1..Len(s))
            BY <2>1, FS_Interval
        <2> QED BY <2>1, <2>2, FS_Subset
    <1> DEFINE n == Cardinality(S)
               a == Ascending(S)
    <1>2. n \in Nat /\ DOMAIN a = 1..n /\ \A k \in 1..n : a[k] \in S
        BY <1>1, AscendingIs
    <1>3. At(s, S) = [k \in 1..n |-> s[a[k]]]
        BY <1>2 DEF At
    <1> HIDE DEF n, a
    <1>4. \A k \in 1..n : s[a[k]] \in V
        BY <1>2
    <1>5. At(s, S) \in [1..n -> V]
        BY <1>3, <1>4
    <1>6. At(s, S) \in Seq(V) /\ Len(At(s, S)) = n
        BY <1>2, <1>5
    <1> QED BY <1>1, <1>2, <1>3, <1>6 DEF n, a

\* The numbers up to n, listed, are themselves.
LEMMA AscendingAll ==
    ASSUME NEW n \in Nat
    PROVE  Cardinality(1..n) = n /\ \A k \in 1..n : Ascending(1..n)[k] = k
    <1> DEFINE a == Ascending(1..n)
               Bad == {k \in 1..n : a[k] # k}
    <1>1. IsFiniteSet(1..n) /\ Cardinality(1..n) = n
        BY FS_Interval
    <1>2. /\ \A k \in 1..n : a[k] \in 1..n
          /\ \A i, j \in 1..n : i < j <=> a[i] < a[j]
          /\ \A i, j \in 1..n : a[i] = a[j] => i = j
          /\ \A x \in 1..n : \E i \in 1..n : a[i] = x
        <2> HIDE DEF a
        <2>1. 1..n \in SUBSET Nat
            OBVIOUS
        <2> QED BY <1>1, <2>1, AscendingIs DEF a
    <1> HIDE DEF a
    <1>3. Bad = {}
        <2> SUFFICES ASSUME Bad # {} PROVE FALSE
            OBVIOUS
        <2>1. Bad \in SUBSET Nat
            OBVIOUS
        <2>2. PICK i \in Bad : \A k \in Bad : i <= k
            BY <2>1, LeastOf
        <2>3. i \in 1..n /\ a[i] # i /\ a[i] \in 1..n
            BY <1>2
        <2>4. \A k \in 1..n : k < i => a[k] = k
            BY <2>2
        <2>5. a[i] > i
            BY <1>2, <2>3, <2>4
        <2>6. PICK m \in 1..n : a[m] = i
            BY <1>2, <2>3
        <2>7. m # i /\ ~(m < i)
            BY <2>3, <2>4, <2>6
        <2>8. i < m
            BY <2>3, <2>7
        <2>9. a[i] < a[m]
            BY <1>2, <2>3, <2>8
        <2> QED BY <2>3, <2>5, <2>6, <2>9
    <1> QED BY <1>1, <1>3 DEF a

\* What a sequence has at all its places is the sequence, and at none of them nothing.
LEMMA AtAllOrNone ==
    ASSUME NEW V, NEW s \in Seq(V)
    PROVE  At(s, DOMAIN s) = s /\ At(s, {}) = <<>>
    <1>1. DOMAIN s = 1..Len(s) /\ Len(s) \in Nat
        OBVIOUS
    <1>2. At(s, DOMAIN s) = s
        <2>1. /\ At(s, DOMAIN s) \in Seq(V) /\ Len(At(s, DOMAIN s)) = Cardinality(DOMAIN s)
              /\ \A k \in 1..Cardinality(DOMAIN s) : At(s, DOMAIN s)[k] = s[Ascending(DOMAIN s)[k]]
            <3> DEFINE D == DOMAIN s
            <3>1. D \in SUBSET DOMAIN s
                OBVIOUS
            <3> HIDE DEF D
            <3>2. /\ At(s, D) \in Seq(V) /\ Len(At(s, D)) = Cardinality(D)
                  /\ \A k \in 1..Cardinality(D) : At(s, D)[k] = s[Ascending(D)[k]]
                BY <3>1, AtIs
            <3> QED BY <3>2 DEF D
        <2>2. Cardinality(DOMAIN s) = Len(s) /\ \A k \in 1..Len(s) : Ascending(DOMAIN s)[k] = k
            BY <1>1, AscendingAll
        <2> DEFINE t == At(s, DOMAIN s)
        <2>3. t \in Seq(V) /\ Len(t) = Len(s) /\ \A k \in 1..Len(s) : t[k] = s[k]
            BY <2>1, <2>2
        <2> HIDE DEF t
        <2>4. t = s
            BY <2>3
        <2> QED BY <2>4 DEF t
    <1>3. At(s, {}) = <<>>
        <2>1. {} \in SUBSET DOMAIN s
            OBVIOUS
        <2>2. At(s, {}) \in Seq(V) /\ Len(At(s, {})) = Cardinality({})
            BY <2>1, AtIs
        <2>3. Cardinality({}) = 0
            BY FS_EmptySet
        <2> QED BY <2>2, <2>3
    <1> QED BY <1>2, <1>3

\* Two places of what is left are two places of the sequence, in the same order.
LEMMA AtPlaces ==
    ASSUME NEW V, NEW s \in Seq(V), NEW S \in SUBSET (DOMAIN s)
    PROVE  \A i, j \in DOMAIN At(s, S) :
               i # j => \E k, m \in S : k # m /\ At(s, S)[i] = s[k] /\ At(s, S)[j] = s[m]
    <1>1. /\ DOMAIN At(s, S) = 1..Cardinality(S) /\ IsFiniteSet(S) /\ S \in SUBSET Nat
          /\ \A k \in 1..Cardinality(S) : Ascending(S)[k] \in S /\ At(s, S)[k] = s[Ascending(S)[k]]
        BY AtIs
    <1>2. \A i, j \in 1..Cardinality(S) : Ascending(S)[i] = Ascending(S)[j] => i = j
        BY <1>1, AscendingIs
    <1> QED BY <1>1, <1>2

(* ---- the parts of a page share nothing ---- *)
HasPart == "part" \in DOMAIN w

LEMMA PartsInit == PageInit => HasPart
    <1>1. FilterInit => HasPart
        BY DEF FilterInit, Mounted, HasPart
    <1>2. (ProfileInit => HasPart) /\ (LinkInit => HasPart) /\ (PlaceInit => HasPart)
        <2>1. ProfileInit => HasPart
            BY DEF ProfileInit, HasPart
        <2>2. LinkInit => HasPart
            BY DEF LinkInit, HasPart
        <2>3. PlaceInit => HasPart
            BY DEF PlaceInit, HasPart
        <2> QED BY <2>1, <2>2, <2>3
    <1>3. LinesInit => HasPart
        BY DEF LinesInit, HasPart
    <1>4. TasksInit => HasPart
        BY DEF TasksInit, HasPart
    <1>5. SuggestInit => HasPart
        BY DEF SuggestInit, HasPart
    <1>6. MasonryInit => HasPart
        BY DEF MasonryInit, HasPart
    <1> QED BY <1>1, <1>2, <1>3, <1>4, <1>5, <1>6 DEF PageInit, DialogsInit, WritingInit

LEMMA PartsStep ==
    ASSUME HasPart, [PageNext]_w
    PROVE  /\ HasPart' /\ w'.part = w.part
           /\ w' = w \/ \/ IsPart("filters") /\ FilterNext
                        \/ IsPart("profile") /\ ProfileNext
                        \/ IsPart("link") /\ LinkNext
                        \/ IsPart("place") /\ PlaceNext
                        \/ IsPart("lines") /\ LinesNext
                        \/ IsPart("tasks") /\ TasksNext
                        \/ IsPart("suggest") /\ SuggestNext
                        \/ IsPart("grid") /\ MasonryNext
    <1> USE DEF HasPart, IsPart, May
    <1>1. CASE FilterNext
        <2>1. CASE RenderAddress \/ RenderState \/ RenderBoth
            BY <1>1, <2>1 DEF RenderAddress, RenderState, RenderBoth, Render
        <2>2. ASSUME NEW t \in Tags, handleTagClick(t) PROVE HasPart' /\ w'.part = w.part /\ IsPart("filters")
            BY <2>2 DEF handleTagClick, Ask
        <2>3. ASSUME NEW ws, Search(ws) PROVE HasPart' /\ w'.part = w.part /\ IsPart("filters")
            BY <2>3 DEF Search, Ask
        <2>4. ASSUME NEW f \in Every, handleRemoveFilter(f) PROVE HasPart' /\ w'.part = w.part /\ IsPart("filters")
            BY <2>4 DEF handleRemoveFilter, Ask
        <2>5. ASSUME NEW loc, NEW hist, w' = Moved(loc, hist) PROVE HasPart' /\ w'.part = w.part
            BY <2>5 DEF Moved
        <2>6. ASSUME NEW p \in Paths, NavLink(p) PROVE HasPart' /\ w'.part = w.part /\ IsPart("filters")
            BY <2>5, <2>6 DEF NavLink, Go
        <2>7. ASSUME NEW d \in Days, navigateToDateFilter(d) PROVE HasPart' /\ w'.part = w.part /\ IsPart("filters")
            BY <2>5, <2>7 DEF navigateToDateFilter, Go
        <2>8. ASSUME NEW t \in Tags, NEW p \in {"home", "memo"}, TagOfMemoPage(t, p)
              PROVE  HasPart' /\ w'.part = w.part /\ IsPart("filters")
            BY <2>5, <2>8 DEF TagOfMemoPage, Go
        <2>9. ASSUME Back PROVE HasPart' /\ w'.part = w.part /\ IsPart("filters")
            BY <2>5, <2>9 DEF Back
        <2>10. ASSUME ReloadPage PROVE HasPart' /\ w'.part = w.part /\ IsPart("filters")
            BY <2>10 DEF ReloadPage, Mounted
        <2>11. HasPart' /\ w'.part = w.part /\ IsPart("filters")
            BY <1>1, <2>1, <2>2, <2>3, <2>4, <2>6, <2>7, <2>8, <2>9, <2>10
               DEF FilterNext, RenderAddress, RenderState, RenderBoth, Render
        <2> QED BY <1>1, <2>11
    <1>2. CASE ProfileNext
        BY <1>2 DEF ProfileNext, VisitProfile, VisitHome, ProfileFound, ProfileFailed, setProfileUserName
    <1>3. CASE LinkNext
        BY <1>3 DEF LinkNext, SetLinkOpen, setSearchText, LinkSearch, LinkFound, LinkFailed, addMemoRelation,
            Debounced
    <1>4. CASE PlaceNext
        BY <1>4 DEF PlaceNext, handleLocationClick, Geolocated, GeolocationFailed, handlePositionChange,
            fetchReverseGeocode, updateCoordinate, setPlaceholder, handleLocationConfirm, handleLocationCancel,
            DismissPlace, RemovePlace
    <1>5. CASE LinesNext
        BY <1>5 DEF LinesNext, Enter, MoveCaret, TypeText
    <1>6. CASE TasksNext
        BY <1>6 DEF TasksNext, handleChange, handleRemoveCompletedTaskListItems
    <1>7. CASE SuggestNext
        <2>1. ASSUME NEW state, "part" \in DOMAIN state, state.part = w.part, w' = Listing(state)
              PROVE  "part" \in DOMAIN w' /\ w'.part = w.part
            BY <2>1 DEF Listing
        <2>2. ASSUME NEW step, handleNavigation(step) PROVE "part" \in DOMAIN w' /\ w'.part = w.part
            <3> DEFINE n == Len(w.list)
                       state == [w EXCEPT !.acts = @ + 1, !.sel = (@ + step + n) % n]
            <3>1. w' = state \/ w' = Listing(state)
                BY <2>2 DEF handleNavigation
            <3>2. "part" \in DOMAIN state /\ state.part = w.part
                OBVIOUS
            <3> HIDE DEF state
            <3> QED BY <2>1, <3>1, <3>2
        <2>3. ASSUME NEW items, Rendered(items) PROVE "part" \in DOMAIN w' /\ w'.part = w.part
            <3> DEFINE state == [w EXCEPT !.acts = @ + 1, !.items = items]
            <3>1. w' = Listing(state)
                BY <2>3 DEF Rendered
            <3>2. "part" \in DOMAIN state /\ state.part = w.part
                OBVIOUS
            <3> HIDE DEF state
            <3> QED BY <2>1, <3>1, <3>2
        <2>4. ASSUME NEW word, handleInput(word) \/ ClickAt(word) \/ CaretKey(word)
              PROVE  "part" \in DOMAIN w' /\ w'.part = w.part
            <3>1. CASE handleInput(word)
                BY <3>1 DEF handleInput, InputAt
            <3>2. CASE ClickAt(word)
                BY <3>2 DEF ClickAt
            <3>3. CASE CaretKey(word)
                BY <3>3 DEF CaretKey
            <3> QED BY <2>4, <3>1, <3>2, <3>3
        <2>5. ASSUME hide PROVE "part" \in DOMAIN w' /\ w'.part = w.part
            BY <2>5 DEF hide
        <2>6. ASSUME handleAutocomplete PROVE "part" \in DOMAIN w' /\ w'.part = w.part
            BY <2>6 DEF handleAutocomplete
        <2>7. ASSUME \E step \in {-1, 1} : handleNavigation(step) PROVE "part" \in DOMAIN w' /\ w'.part = w.part
            BY <2>2, <2>7
        <2>8. ASSUME \E items \in Prefixes(Items) : Rendered(items) PROVE "part" \in DOMAIN w' /\ w'.part = w.part
            BY <2>3, <2>8
        <2>9. ASSUME \E word \in Queries \cup {NoWord} : handleInput(word) \/ ClickAt(word) \/ CaretKey(word)
              PROVE  "part" \in DOMAIN w' /\ w'.part = w.part
            BY <2>4, <2>9
        <2>10. "part" \in DOMAIN w' /\ w'.part = w.part
            BY <1>7, <2>5, <2>6, <2>7, <2>8, <2>9 DEF SuggestNext
        <2>11. w.part = "suggest"
            BY <1>7 DEF SuggestNext, handleInput, InputAt, ClickAt, CaretKey, hide, handleNavigation,
                handleAutocomplete, Rendered
        <2> QED BY <1>7, <2>10, <2>11
    <1>8. CASE MasonryNext
        BY <1>8 DEF MasonryNext, ListChanged, handleResize, redistributeMemos, handleHeightChange, PrefixChanged,
            Redistribute
    <1>9. CASE w' = w
        BY <1>9
    <1> QED BY <1>1, <1>2, <1>3, <1>4, <1>5, <1>6, <1>7, <1>8, <1>9 DEF PageNext, DialogsNext, WritingNext

(* ---- answers: the profile, the link and the place ---- *)
ProfileInv ==
    IsPart("profile") =>
        /\ {"page", "asks", "stats", "late"} \subseteq DOMAIN w
        /\ w.asks = {} /\ w.page \in Users /\ ~w.late => w.stats \in {w.page, Nothing}

\* The dialog that is open and waits for no timer has asked for the text it shows.
LinkInv ==
    IsPart("link") =>
        /\ {"open", "text", "timer", "asks", "asked", "fetching", "found", "rels", "good"} \subseteq DOMAIN w
        /\ w.open /\ ~w.timer => w.asked = w.text
        /\ w.good /\ w.asks = {} => w.found = w.asked /\ ~w.fetching

\* A request that is not aborted is for the position shown, unless that was changed without
\* asking; a dialog that was cancelled is closed and waits for no name.
PlaceInv ==
    IsPart("place") =>
        /\ {"pos", "name", "saved", "open", "init", "geo", "asks", "typed", "moved", "cancelled",
            "told"} \subseteq DOMAIN w
        /\ w.asks \subseteq {w.pos} \/ w.moved
        /\ w.asks = {} /\ ~w.typed /\ ~w.moved => w.name = w.pos
        /\ w.cancelled => ~w.open /\ w.asks = {}
        /\ w.cancelled /\ ~w.told => w.pos = Nothing /\ w.name = Nothing

LEMMA ProfileStep == HasPart /\ ProfileInv /\ [PageNext]_w => ProfileInv'
    <1> SUFFICES ASSUME HasPart, ProfileInv, [PageNext]_w, IsPart("profile")' PROVE ProfileInv'
        BY DEF ProfileInv
    <1>1. ProfileInv /\ IsPart("profile") /\ (w' = w \/ ProfileNext)
        BY PartsStep DEF IsPart
    <1>2. CASE w' = w
        BY <1>1, <1>2 DEF ProfileInv, IsPart
    <1>3. ASSUME NEW u \in Users, VisitProfile(u) PROVE ProfileInv'
        BY <1>1, <1>3 DEF VisitProfile, ProfileInv
    <1>4. CASE VisitHome
        BY <1>1, <1>4 DEF VisitHome, ProfileInv
    <1>5. ASSUME NEW u \in Users, NEW stats \in {u, Nothing}, setProfileUserName(u, stats) PROVE ProfileInv'
        BY <1>1, <1>5 DEF setProfileUserName, ProfileInv
    <1> QED BY <1>1, <1>2, <1>3, <1>4, <1>5 DEF ProfileNext, ProfileFound, ProfileFailed

LEMMA LinkStep == HasPart /\ LinkInv /\ [PageNext]_w => LinkInv'
    <1> SUFFICES ASSUME HasPart, LinkInv, [PageNext]_w, IsPart("link")' PROVE LinkInv'
        BY DEF LinkInv
    <1>1. LinkInv /\ IsPart("link") /\ (w' = w \/ LinkNext)
        BY PartsStep DEF IsPart
    <1>2. CASE w' = w
        BY <1>1, <1>2 DEF LinkInv, IsPart
    <1>3. ASSUME NEW open \in BOOLEAN, SetLinkOpen(open) PROVE LinkInv'
        BY <1>1, <1>3 DEF SetLinkOpen, Debounced, LinkInv
    <1>4. ASSUME NEW t, setSearchText(t) PROVE LinkInv'
        BY <1>1, <1>4 DEF setSearchText, Debounced, LinkInv
    <1>5. CASE LinkSearch
        BY <1>1, <1>5 DEF LinkSearch, LinkInv
    <1>6. ASSUME NEW t, LinkFound(t) PROVE LinkInv'
        BY <1>1, <1>6 DEF LinkFound, LinkInv
    <1>7. ASSUME NEW t, LinkFailed(t) PROVE LinkInv'
        BY <1>1, <1>7 DEF LinkFailed, LinkInv
    <1>8. CASE addMemoRelation
        BY <1>1, <1>8 DEF addMemoRelation, Debounced, LinkInv
    <1> QED BY <1>1, <1>2, <1>3, <1>4, <1>5, <1>6, <1>7, <1>8 DEF LinkNext

LEMMA PlaceStep == HasPart /\ PlaceInv /\ [PageNext]_w => PlaceInv'
    <1> SUFFICES ASSUME HasPart, PlaceInv, [PageNext]_w, IsPart("place")' PROVE PlaceInv'
        BY DEF PlaceInv
    <1>1. PlaceInv /\ IsPart("place") /\ (w' = w \/ PlaceNext)
        BY PartsStep DEF IsPart
    <1>2. CASE w' = w
        BY <1>1, <1>2 DEF PlaceInv, IsPart
    <1>3. CASE handleLocationClick
        BY <1>1, <1>3 DEF handleLocationClick, PlaceInv
    <1>4. CASE Geolocated
        BY <1>1, <1>4 DEF Geolocated, PlaceInv
    <1>5. CASE GeolocationFailed
        BY <1>1, <1>5 DEF GeolocationFailed, PlaceInv
    <1>6. ASSUME NEW p \in Points, handlePositionChange(p) PROVE PlaceInv'
        BY <1>1, <1>6 DEF handlePositionChange, abortAndCreate, abort, PlaceInv
    <1>7. ASSUME NEW p \in Points, fetchReverseGeocode(p) PROVE PlaceInv'
        BY <1>1, <1>7 DEF fetchReverseGeocode, PlaceInv
    <1>8. ASSUME NEW p \in Points, updateCoordinate(p) PROVE PlaceInv'
        BY <1>1, <1>8 DEF updateCoordinate, PlaceInv
    <1>9. CASE setPlaceholder
        BY <1>1, <1>9 DEF setPlaceholder, PlaceInv
    <1>10. CASE handleLocationConfirm
        BY <1>1, <1>10 DEF handleLocationConfirm, PlaceInv
    <1>11. CASE handleLocationCancel
        BY <1>1, <1>11 DEF handleLocationCancel, abort, PlaceInv
    <1>12. CASE DismissPlace
        BY <1>1, <1>12 DEF DismissPlace, PlaceInv
    <1>13. CASE RemovePlace
        BY <1>1, <1>13 DEF RemovePlace, PlaceInv
    <1> QED BY <1>1, <1>2, <1>3, <1>4, <1>5, <1>6, <1>7, <1>8, <1>9, <1>10, <1>11, <1>12, <1>13 DEF PlaceNext

LEMMA AnswersInit == PageInit => ProfileInv /\ LinkInv /\ PlaceInv
    <1> USE DEF IsPart
    <1>1. ASSUME w.part \notin {"profile", "link", "place"} PROVE ProfileInv /\ LinkInv /\ PlaceInv
        BY <1>1 DEF ProfileInv, LinkInv, PlaceInv
    <1>2. FilterInit => w.part = "filters"
        BY DEF FilterInit, Mounted
    <1>3. (LinesInit => w.part = "lines") /\ (TasksInit => w.part = "tasks") /\ (SuggestInit => w.part = "suggest")
        BY DEF LinesInit, TasksInit, SuggestInit
    <1>4. MasonryInit => w.part = "grid"
        BY DEF MasonryInit
    <1>5. ProfileInit => ProfileInv /\ LinkInv /\ PlaceInv
        BY DEF ProfileInit, ProfileInv, LinkInv, PlaceInv
    <1>6. LinkInit => ProfileInv /\ LinkInv /\ PlaceInv
        BY DEF LinkInit, ProfileInv, LinkInv, PlaceInv
    <1>7. PlaceInit => ProfileInv /\ LinkInv /\ PlaceInv
        <2> SUFFICES ASSUME PlaceInit PROVE ProfileInv /\ LinkInv /\ PlaceInv
            OBVIOUS
        <2>1. PICK saved \in {NoPlace} \cup {[pos |-> p, name |-> p] : p \in Points} :
                  w = [part |-> "place", acts |-> 0, pos |-> saved.pos, name |-> saved.name, saved |-> saved,
                       open |-> FALSE, init |-> FALSE, geo |-> FALSE, asks |-> {},
                       typed |-> FALSE, moved |-> FALSE, cancelled |-> FALSE, told |-> FALSE]
            BY DEF PlaceInit
        <2>2. saved.pos = saved.name
            BY DEF NoPlace
        <2> QED BY <2>1, <2>2 DEF ProfileInv, LinkInv, PlaceInv
    <1> QED BY <1>1, <1>2, <1>3, <1>4, <1>5, <1>6, <1>7 DEF PageInit, DialogsInit, WritingInit

\* Whatever profiles are visited, texts searched for and positions pointed at, and in whatever
\* order the answers come in or fail: an answer is shown for what it was asked about, as
\* AnswersTrue says (MainLayout.tsx:38-45, useLinkMemo.ts:27-50, InsertMenu.tsx:83-134).
THEOREM AnswersAreTrue == PageSpec => []AnswersTrue
    <1> DEFINE Inv == HasPart /\ ProfileInv /\ LinkInv /\ PlaceInv
    <1>1. PageInit => Inv
        BY PartsInit, AnswersInit
    <1>2. Inv /\ [PageNext]_w => Inv'
        BY PartsStep, ProfileStep, LinkStep, PlaceStep
    <1>3. Inv => AnswersTrue
        BY DEF ProfileInv, LinkInv, PlaceInv, AnswersTrue, NoPlace
    <1> QED BY <1>1, <1>2, <1>3, PTL DEF PageSpec

(* ---- lists: Enter in a list of the editor ---- *)
\* A line is a record of these fields.
SomeLine == [indent : Nat, mark : {"none", "-", "1.", "1)"}, num : Nat, box : {"none", "open", "done"},
             gap : BOOLEAN, text : BOOLEAN]

\* What Enter wrote has no text but what was right of the caret, and a numbered item no checkbox.
LinesInv ==
    IsPart("lines") =>
        /\ {"acts", "line", "tail", "above", "pressed"} \subseteq DOMAIN w
        /\ w.line \in SomeLine /\ w.tail \in BOOLEAN /\ w.pressed \in Nat
        /\ w.pressed > 0 =>
               /\ w.line.text = w.tail
               /\ Numbered(w.line) => ~Boxed(w.line)
        /\ w.pressed >= 2 => w.line.mark = "none"
        /\ ListsGoOn

\* The item that goes on a list is one of the same list.
LEMMA ListContinues ==
    ASSUME NEW l \in SomeLine
    PROVE  LET next == generateListContinuation(l)
               item == detectLastListItem(l)
           IN  /\ next \in SomeLine /\ next.indent = l.indent
               /\ item = "task" => next.box = "open"
               /\ item # "task" => next.box = "none"
               /\ item = "ordered" => next.mark = "1." /\ next.num = l.num + 1
               /\ item # "ordered" => next.mark = l.mark
               /\ next.gap = TRUE
    <1> DEFINE item == detectLastListItem(l)
    <1> HIDE DEF item
    <1> QED BY DEF generateListContinuation, SomeLine, item

LEMMA WithText ==
    ASSUME NEW l \in SomeLine, NEW b \in BOOLEAN
    PROVE  LET m == [l EXCEPT !.text = b]
           IN  /\ m \in SomeLine /\ m.text = b
               /\ m.indent = l.indent /\ m.mark = l.mark /\ m.num = l.num /\ m.box = l.box /\ m.gap = l.gap
    BY DEF SomeLine

LEMMA EnterStep ==
    ASSUME LinesInv, IsPart("lines"), Enter
    PROVE  LinesInv'
    <1> DEFINE before == [w.line EXCEPT !.text = @ /\ ~w.tail]
               item == detectLastListItem(before)
               mark == IF item # "none" /\ ~isEmptyListItem(before) THEN generateListContinuation(before)
                                                                     ELSE BlankLine
               line == [mark EXCEPT !.text = w.tail]
    <1>1. /\ w' = [w EXCEPT !.acts = @ + 1, !.pressed = @ + 1, !.above = before, !.line = line]
          /\ {"acts", "line", "tail", "above", "pressed"} \subseteq DOMAIN w
          /\ w.line \in SomeLine /\ w.tail \in BOOLEAN /\ w.pressed \in Nat
          /\ w.pressed > 0 => w.line.text = w.tail /\ (Numbered(w.line) => ~Boxed(w.line))
          /\ w.pressed >= 2 => w.line.mark = "none"
        BY DEF Enter, LinesInv
    <1>2. /\ before \in SomeLine /\ before.text = (w.line.text /\ ~w.tail)
          /\ before.mark = w.line.mark /\ before.box = w.line.box
        <2>1. w.line.text \in BOOLEAN /\ (w.line.text /\ ~w.tail) \in BOOLEAN
            BY <1>1 DEF SomeLine
        <2>2. before = [w.line EXCEPT !.text = (w.line.text /\ ~w.tail)]
            BY <1>1 DEF SomeLine
        <2> HIDE DEF before
        <2> QED BY <1>1, <2>1, <2>2, WithText
    <1>3. BlankLine \in SomeLine
        BY DEF BlankLine, SomeLine
    <1> HIDE DEF before
    <1>4. mark \in SomeLine
        BY <1>2, <1>3, ListContinues
    <1> HIDE DEF mark
    <1>5. /\ line \in SomeLine /\ line.text = w.tail /\ line.indent = mark.indent /\ line.mark = mark.mark
          /\ line.num = mark.num /\ line.box = mark.box /\ line.gap = mark.gap
        BY <1>1, <1>4, WithText
    <1> HIDE DEF line
    <1>6. /\ w'.line = line /\ w'.above = before /\ w'.pressed = w.pressed + 1 /\ w'.tail = w.tail
          /\ {"acts", "line", "tail", "above", "pressed"} \subseteq DOMAIN w'
        BY <1>1
    <1>7. Numbered(line) => ~Boxed(line)
        <2>1. CASE mark = BlankLine
            BY <1>5, <2>1 DEF Numbered, BlankLine
        <2>2. CASE mark = generateListContinuation(before) /\ item # "none"
            <3>1. item \in {"task", "unordered", "ordered"} /\ (item # "ordered" => ~Numbered(before))
                BY <2>2 DEF detectLastListItem, Numbered
            <3> QED BY <1>2, <1>5, <2>2, <3>1, ListContinues DEF Numbered, Boxed
        <2> QED BY <2>1, <2>2 DEF mark
    <1>8. ASSUME w.pressed > 0 PROVE line.mark = "none"
        <2>1. ~before.text
            BY <1>1, <1>2, <1>8
        <2>2. item # "none" => isEmptyListItem(before)
            BY <1>1, <1>2, <1>8, <2>1 DEF detectLastListItem, isEmptyListItem, Numbered, Boxed
        <2> QED BY <1>5, <2>2 DEF mark, BlankLine
    <1>9. ASSUME before.text, item # "none"
          PROVE  /\ detectLastListItem(line) = item /\ line.indent = before.indent /\ line.box # "done"
                 /\ Numbered(line) => line.num = before.num + 1
        <2>1. mark = generateListContinuation(before)
            BY <1>9 DEF mark, isEmptyListItem
        <2>2. CASE item = "task"
            <3>1. before.mark = "-"
                BY <2>2 DEF detectLastListItem
            <3>2. line.mark = "-" /\ line.box = "open" /\ line.gap = TRUE /\ line.indent = before.indent
                BY <1>2, <1>5, <2>1, <2>2, <3>1, ListContinues
            <3> QED BY <2>2, <3>2 DEF detectLastListItem, Numbered, Boxed
        <2>3. CASE item = "unordered"
            <3>1. before.mark = "-"
                BY <2>3 DEF detectLastListItem
            <3>2. line.mark = "-" /\ line.box = "none" /\ line.gap = TRUE /\ line.indent = before.indent
                BY <1>2, <1>5, <2>1, <2>3, <3>1, ListContinues
            <3> QED BY <2>3, <3>2 DEF detectLastListItem, Numbered, Boxed
        <2>4. CASE item = "ordered"
            <3>1. /\ line.mark = "1." /\ line.box = "none" /\ line.gap = TRUE /\ line.indent = before.indent
                  /\ line.num = before.num + 1
                BY <1>2, <1>5, <2>1, <2>4, ListContinues
            <3> QED BY <2>4, <3>1 DEF detectLastListItem, Numbered, Boxed
        <2>5. item \in {"task", "unordered", "ordered", "none"}
            BY DEF detectLastListItem
        <2> QED BY <1>9, <2>2, <2>3, <2>4, <2>5
    <1> HIDE DEF item
    <1>10. ListsGoOn'
        <2>1. w'.pressed >= 2 => w'.line.mark = "none"
            BY <1>1, <1>6, <1>8
        <2>2. ASSUME w'.pressed = 1, w'.above.text, detectLastListItem(w'.above) # "none"
              PROVE  /\ detectLastListItem(w'.line) = detectLastListItem(w'.above)
                     /\ w'.line.indent = w'.above.indent
                     /\ w'.line.box # "done"
                     /\ Numbered(w'.line) => w'.line.num = w'.above.num + 1
            <3>1. before.text /\ item # "none"
                BY <1>6, <2>2 DEF item
            <3> QED BY <1>6, <1>9, <3>1 DEF item
        <2> QED BY <2>1, <2>2 DEF ListsGoOn
    <1> QED BY <1>1, <1>5, <1>6, <1>7, <1>8, <1>10 DEF LinesInv

LEMMA LinesStep == HasPart /\ LinesInv /\ [PageNext]_w => LinesInv'
    <1> SUFFICES ASSUME HasPart, LinesInv, [PageNext]_w, IsPart("lines")' PROVE LinesInv'
        BY DEF LinesInv
    <1>1. LinesInv /\ IsPart("lines") /\ (w' = w \/ LinesNext)
        BY PartsStep DEF IsPart
    <1>2. CASE w' = w
        BY <1>1, <1>2 DEF LinesInv, IsPart, ListsGoOn
    <1>3. CASE Enter
        BY <1>1, <1>3, EnterStep
    <1>4. CASE MoveCaret
        <2>1. /\ w'.line = w.line /\ w'.pressed = 0 /\ w'.tail = ~w.tail
              /\ {"acts", "line", "tail", "above", "pressed"} \subseteq DOMAIN w'
            BY <1>1, <1>4 DEF MoveCaret, LinesInv
        <2> QED BY <1>1, <2>1 DEF LinesInv, ListsGoOn
    <1>5. CASE TypeText
        <2>1. /\ w'.line = [w.line EXCEPT !.text = TRUE] /\ w'.pressed = 0 /\ w'.tail = w.tail
              /\ {"acts", "line", "tail", "above", "pressed"} \subseteq DOMAIN w'
            BY <1>1, <1>5 DEF TypeText, LinesInv
        <2>2. w'.line \in SomeLine
            BY <1>1, <2>1, WithText DEF LinesInv
        <2> QED BY <1>1, <2>1, <2>2 DEF LinesInv, ListsGoOn
    <1> QED BY <1>1, <1>2, <1>3, <1>4, <1>5 DEF LinesNext

\* How each part starts, for the invariants of the others.
LEMMA OtherPartsInit ==
    /\ FilterInit => IsPart("filters")
    /\ ProfileInit => IsPart("profile")
    /\ LinkInit => IsPart("link")
    /\ PlaceInit => IsPart("place")
    /\ LinesInit => IsPart("lines")
    /\ TasksInit => IsPart("tasks")
    /\ SuggestInit => IsPart("suggest")
    /\ MasonryInit => IsPart("grid")
    <1> USE DEF IsPart
    <1>1. (FilterInit => IsPart("filters")) /\ (ProfileInit => IsPart("profile")) /\ (LinkInit => IsPart("link"))
        BY DEF FilterInit, Mounted, ProfileInit, LinkInit
    <1>2. PlaceInit => IsPart("place")
        BY DEF PlaceInit
    <1>3. (LinesInit => IsPart("lines")) /\ (TasksInit => IsPart("tasks")) /\ (SuggestInit => IsPart("suggest"))
        BY DEF LinesInit, TasksInit, SuggestInit
    <1>4. MasonryInit => IsPart("grid")
        BY DEF MasonryInit
    <1> QED BY <1>1, <1>2, <1>3, <1>4

LEMMA LinesStart == PageInit => LinesInv
    <1> SUFFICES ASSUME PageInit, IsPart("lines") PROVE LinesInv
        BY DEF LinesInv
    <1>1. LinesInit
        BY OtherPartsInit DEF IsPart, PageInit, DialogsInit, WritingInit
    <1>2. PICK line \in Typable :
              w = [part |-> "lines", acts |-> 0, line |-> line, tail |-> FALSE, above |-> BlankLine, pressed |-> 0]
        BY <1>1 DEF LinesInit
    <1>3. line \in SomeLine
        BY DEF Typable, Line, SomeLine
    <1> QED BY <1>2, <1>3 DEF LinesInv, ListsGoOn

\* Whatever line Enter is pressed in and wherever the caret is: the list goes on as it was, and
\* Enter pressed twice ends it (useListCompletion.ts:12-55, markdown-list-detection.ts:53-67).
THEOREM ListsDoGoOn == PageSpec => []ListsGoOn
    <1> DEFINE Inv == HasPart /\ LinesInv
    <1>1. PageInit => Inv
        BY PartsInit, LinesStart
    <1>2. Inv /\ [PageNext]_w => Inv'
        BY PartsStep, LinesStep
    <1>3. Inv => ListsGoOn
        BY DEF LinesInv, ListsGoOn
    <1> QED BY <1>1, <1>2, <1>3, PTL DEF PageSpec

(* ---- suggestions ---- *)
SuggestFields == {"acts", "items", "word", "list", "sel", "position", "moved", "stale"}

SuggestInv ==
    IsPart("suggest") =>
        /\ SuggestFields \subseteq DOMAIN w
        /\ w.items \in Prefixes(Items)
        /\ w.sel \in Nat
        /\ Len(w.list) \in Nat /\ (w.list # <<>> => Len(w.list) > 0)
        /\ SelectedShown

\* What is suggested is a list.
LEMMA SuggestionsListed ==
    ASSUME NEW items \in Prefixes(Items), NEW word
    PROVE  Len(suggestions(items, word)) \in Nat
           /\ (suggestions(items, word) # <<>> => Len(suggestions(items, word)) > 0)
    <1>1. items \in Seq(ToSet(Items))
        BY ItemsAreListed DEF Prefixes
    <1>2. suggestions(items, word) \in Seq(ToSet(Items))
        <2>1. CASE word = NoWord
            BY <2>1 DEF suggestions
        <2>2. CASE word # NoWord
            <3> DEFINE S == {i \in DOMAIN items : items[i] \in Matching[word]}
            <3>1. At(items, S) \in Seq(ToSet(Items))
                <4> HIDE DEF S
                <4>1. S \in SUBSET DOMAIN items
                    BY DEF S
                <4> QED BY <1>1, <4>1, AtIs
            <3> QED BY <2>2, <3>1 DEF suggestions
        <2> QED BY <2>1, <2>2
    <1> QED BY <1>2

LEMMA SuggestStart == PageInit => SuggestInv
    <1> SUFFICES ASSUME PageInit, IsPart("suggest") PROVE SuggestInv
        BY DEF SuggestInv
    <1>1. SuggestInit
        BY OtherPartsInit DEF IsPart, PageInit, DialogsInit, WritingInit
    <1> QED BY <1>1 DEF SuggestInit, SuggestInv, SuggestFields, SelectedShown, isVisible

LEMMA SuggestStep == HasPart /\ SuggestInv /\ [PageNext]_w => SuggestInv'
    <1> SUFFICES ASSUME HasPart, SuggestInv, [PageNext]_w, IsPart("suggest")' PROVE SuggestInv'
        BY DEF SuggestInv
    <1>1. /\ SuggestInv /\ IsPart("suggest") /\ (w' = w \/ SuggestNext)
          /\ SuggestFields \subseteq DOMAIN w
          /\ w.items \in Prefixes(Items) /\ w.sel \in Nat
          /\ Len(w.list) \in Nat /\ (w.list # <<>> => Len(w.list) > 0)
        BY PartsStep DEF IsPart, SuggestInv
    <1>s. isVisible => (~w.stale => w.sel < Len(w.list)) /\ (~w.moved => w.list = suggestions(w.items, w.word))
        BY <1>1 DEF SuggestInv, SelectedShown
    <1>2. CASE w' = w
        BY <1>1, <1>2 DEF SuggestInv, SelectedShown, isVisible, IsPart
    <1>3. ASSUME NEW word, handleInput(word) PROVE SuggestInv'
        <2>1. /\ w'.sel = 0 /\ w'.items = w.items /\ w'.word = word
              /\ w'.list = suggestions(w.items, word)
              /\ SuggestFields \subseteq DOMAIN w'
            BY <1>1, <1>3 DEF handleInput, InputAt, SuggestFields
        <2> QED BY <1>1, <2>1, SuggestionsListed DEF SuggestInv, SelectedShown, isVisible
    <1>4. ASSUME NEW word, ClickAt(word) PROVE SuggestInv'
        BY <1>1, <1>4 DEF ClickAt, SuggestInv, SuggestFields, SelectedShown, isVisible
    <1>5. ASSUME NEW word, CaretKey(word) PROVE SuggestInv'
        <2>1. /\ DOMAIN w' = DOMAIN w /\ w'.moved /\ w'.sel = w.sel /\ w'.items = w.items
              /\ w'.list = w.list /\ w'.position = w.position /\ w'.stale = w.stale
            BY <1>1, <1>5 DEF CaretKey, SuggestFields
        <2> QED BY <1>1, <1>s, <2>1 DEF SuggestInv, SelectedShown, isVisible
    <1>6. CASE hide
        BY <1>1, <1>6 DEF hide, SuggestInv, SuggestFields, SelectedShown, isVisible
    <1>l. ASSUME NEW state, SuggestFields \subseteq DOMAIN state, state.items \in Prefixes(Items), state.sel \in Nat,
                 state.list = w.list, state.stale = w.stale, w' = Listing(state),
                 w.list # <<>> /\ w.position /\ ~w.stale => state.sel < Len(w.list), state.position = w.position
          PROVE  SuggestInv'
        <2> DEFINE list == suggestions(state.items, state.word)
        <2>1. /\ DOMAIN w' = DOMAIN state /\ w'.list = list /\ w'.items = state.items /\ w'.word = state.word
              /\ w'.sel = state.sel /\ w'.position = state.position
              /\ w'.stale = (state.stale \/ list # state.list)
            BY <1>l DEF Listing, SuggestFields
        <2>2. Len(list) \in Nat /\ (list # <<>> => Len(list) > 0)
            BY <1>l, SuggestionsListed
        <2> HIDE DEF list
        <2>3. w'.list = suggestions(w'.items, w'.word)
            BY <2>1 DEF list
        <2>4. w'.position /\ w'.list # <<>> /\ ~w'.stale => w'.sel < Len(w'.list)
            BY <1>l, <2>1
        <2> QED BY <1>l, <2>1, <2>2, <2>3, <2>4 DEF SuggestInv, SelectedShown, isVisible
    <1>7. ASSUME NEW step \in {-1, 1}, handleNavigation(step) PROVE SuggestInv'
        <2> DEFINE n == Len(w.list)
                   selected == [w EXCEPT !.acts = @ + 1, !.sel = (@ + step + n) % n]
        <2>1. n \in Nat /\ n > 0 /\ isVisible
            BY <1>1, <1>7 DEF handleNavigation, isVisible
        <2>2. w' = IF selected.sel = w.sel THEN selected ELSE Listing(selected)
            BY <1>7 DEF handleNavigation
        <2> HIDE DEF n
        <2>3. /\ DOMAIN selected = DOMAIN w /\ selected.items = w.items /\ selected.word = w.word
              /\ selected.list = w.list /\ selected.position = w.position
              /\ selected.stale = w.stale /\ selected.moved = w.moved
              /\ selected.sel = (w.sel + step + n) % n
            BY <1>1 DEF SuggestFields
        <2>4. w.sel + step + n \in Int
            BY <1>1, <2>1
        <2>5. \A k \in Int : k % n \in 0..(n - 1)
            BY <2>1
        <2>6. selected.sel \in Nat /\ selected.sel < n
            BY <2>1, <2>3, <2>4, <2>5
        <2> HIDE DEF selected
        <2>7. CASE selected.sel = w.sel
            <3>1. w' = selected
                BY <2>2, <2>7
            <3> QED BY <1>1, <1>s, <2>1, <2>3, <2>6, <3>1 DEF SuggestInv, SelectedShown, isVisible, n
        <2>8. CASE selected.sel # w.sel
            BY <1>1, <1>l, <2>2, <2>3, <2>6, <2>8 DEF n
        <2> QED BY <2>7, <2>8
    <1>8. CASE handleAutocomplete
        BY <1>1, <1>8 DEF handleAutocomplete, SuggestInv, SuggestFields, SelectedShown, isVisible
    <1>9. ASSUME NEW items \in Prefixes(Items), Rendered(items) PROVE SuggestInv'
        <2> DEFINE state == [w EXCEPT !.acts = @ + 1, !.items = items]
        <2>1. /\ DOMAIN state = DOMAIN w /\ state.items = items /\ state.list = w.list /\ state.sel = w.sel
              /\ state.position = w.position /\ state.stale = w.stale
            BY <1>1 DEF SuggestFields
        <2>2. w' = Listing(state)
            BY <1>9 DEF Rendered
        <2> HIDE DEF state
        <2> QED BY <1>1, <1>s, <1>l, <1>9, <2>1, <2>2 DEF isVisible
    <1> QED BY <1>1, <1>2, <1>3, <1>4, <1>5, <1>6, <1>7, <1>8, <1>9 DEF SuggestNext

\* Whatever is typed, clicked, navigated and rendered, with any number of items: what is selected is
\* one of the list last rendered until a render makes another list, and the list is the one for the
\* word at the caret until Home or End takes the caret away (useSuggestions.ts:53-62, 86-125).
THEOREM SelectedIsShown == PageSpec => []SelectedShown
    <1> DEFINE Inv == HasPart /\ SuggestInv
    <1>1. PageInit => Inv
        BY PartsInit, SuggestStart
    <1>2. Inv /\ [PageNext]_w => Inv'
        BY PartsStep, SuggestStep
    <1>3. Inv => SelectedShown
        BY DEF SuggestInv, SelectedShown
    <1> QED BY <1>1, <1>2, <1>3, PTL DEF PageSpec

(* ---- the filters and the address ---- *)
\* A list of filters has none twice.
FilterLists == {s \in Seq(Every) : IsInjective(s)}
Updates == [drop : SUBSET Every, add : FilterLists]

LEMMA WithoutIs ==
    ASSUME NEW s \in Seq(Every), NEW S
    PROVE  /\ Without(s, S) \in Seq(Every)
           /\ Without(s, {}) = s
           /\ Without(s, Every) = <<>>
    <1> DEFINE D(T) == {i \in DOMAIN s : s[i] \notin T}
    <1>1. Without(s, S) \in Seq(Every)
        <2>1. D(S) \in SUBSET DOMAIN s
            OBVIOUS
        <2>2. At(s, D(S)) \in Seq(Every)
            BY <2>1, AtIs
        <2> QED BY <2>2 DEF Without
    <1>2. D({}) = DOMAIN s /\ D(Every) = {}
        <2>1. \A i \in DOMAIN s : s[i] \in Every
            OBVIOUS
        <2> QED BY <2>1
    <1>3. At(s, D({})) = s /\ At(s, D(Every)) = <<>>
        BY <1>2, AtAllOrNone
    <1> QED BY <1>1, <1>3 DEF Without

LEMMA UniqByIs ==
    ASSUME NEW s \in Seq(Every)
    PROVE  /\ uniqBy(s) \in FilterLists
           /\ s \in FilterLists => uniqBy(s) = s
    <1> DEFINE D == {i \in DOMAIN s : \A j \in 1..(i - 1) : s[j] # s[i]}
    <1>1. D \in SUBSET DOMAIN s /\ DOMAIN s = 1..Len(s) /\ Len(s) \in Nat
        OBVIOUS
    <1>2. uniqBy(s) = At(s, D)
        BY DEF uniqBy
    <1>3. \A k, m \in D : k # m => s[k] # s[m]
        <2> SUFFICES ASSUME NEW k \in D, NEW m \in D, k # m PROVE s[k] # s[m]
            OBVIOUS
        <2>1. k \in 1..Len(s) /\ m \in 1..Len(s)
            BY <1>1
        <2>2. CASE k < m
            <3>1. k \in 1..(m - 1)
                BY <2>1, <2>2
            <3> QED BY <3>1
        <2>3. CASE m < k
            <3>1. m \in 1..(k - 1)
                BY <2>1, <2>3
            <3> QED BY <3>1
        <2> QED BY <2>1, <2>2, <2>3
    <1>4. s \in FilterLists => D = DOMAIN s
        <2> SUFFICES ASSUME s \in FilterLists, NEW i \in DOMAIN s, NEW j \in 1..(i - 1) PROVE s[j] # s[i]
            OBVIOUS
        <2>1. j \in DOMAIN s /\ j # i
            BY <1>1
        <2> QED BY <2>1 DEF FilterLists, IsInjective
    <1> HIDE DEF D
    <1>5. At(s, D) \in Seq(Every)
        BY <1>1, AtIs
    <1>6. \A i, j \in DOMAIN At(s, D) : i # j => At(s, D)[i] # At(s, D)[j]
        BY <1>1, <1>3, AtPlaces
    <1>7. At(s, D) \in FilterLists
        BY <1>5, <1>6 DEF FilterLists, IsInjective
    <1>8. s \in FilterLists => At(s, D) = s
        BY <1>4, AtAllOrNone
    <1> QED BY <1>2, <1>7, <1>8

LEMMA NothingListed == <<>> \in FilterLists
    BY DEF FilterLists, IsInjective

LEMMA ApplyIs ==
    ASSUME NEW fs \in FilterLists, NEW u, u \in Updates
    PROVE  /\ Apply(fs, u) \in FilterLists
           /\ Apply(fs, NoUpdate) = fs
           /\ u.drop = Every => Apply(fs, u) = u.add
    <1>1. fs \in Seq(Every) /\ u.add \in FilterLists /\ u.add \in Seq(Every)
        BY DEF FilterLists, Updates
    <1>2. Apply(fs, u) \in FilterLists
        <2>1. Without(fs, u.drop) \o u.add \in Seq(Every)
            BY <1>1, WithoutIs
        <2> QED BY <2>1, UniqByIs DEF Apply
    <1>3. Apply(fs, NoUpdate) = fs
        <2>1. Without(fs, NoUpdate.drop) = fs /\ NoUpdate.add = <<>>
            BY <1>1, WithoutIs DEF NoUpdate
        <2>2. fs \o <<>> = fs
            BY <1>1
        <2> QED BY <1>1, <2>1, <2>2, UniqByIs DEF Apply
    <1>4. u.drop = Every => Apply(fs, u) = u.add
        <2>1. <<>> \o u.add = u.add
            BY <1>1
        <2> QED BY <1>1, <2>1, WithoutIs, UniqByIs DEF Apply
    <1> QED BY <1>2, <1>3, <1>4

\* An update that adds a list, with duplicates or without, after another one.
LEMMA ThenIs ==
    ASSUME NEW u \in Updates, NEW v, v.drop \in SUBSET Every, v.add \in Seq(Every)
    PROVE  /\ Then(u, v) \in Updates
           /\ v \in Updates => Then(NoUpdate, v) = v
           /\ Then(u, NoUpdate) = u
           /\ v \in Updates /\ v.drop = Every => Then(u, v) = v
    <1>1. u.add \in FilterLists /\ u.add \in Seq(Every) /\ u.drop \in SUBSET Every
        BY DEF FilterLists, Updates
    <1>2. Then(u, v) \in Updates
        <2>1. Without(u.add, v.drop) \o v.add \in Seq(Every)
            BY <1>1, WithoutIs
        <2>2. uniqBy(Without(u.add, v.drop) \o v.add) \in FilterLists
            BY <2>1, UniqByIs
        <2> QED BY <1>1, <2>2 DEF Then, Updates
    <1>3. \A s \in Seq(Every) : <<>> \o s = s /\ s \o <<>> = s
        OBVIOUS
    <1>4. ASSUME v \in Updates PROVE Then(NoUpdate, v) = v
        <2>1. v = [drop |-> v.drop, add |-> v.add] /\ v.add \in FilterLists
            BY <1>4 DEF Updates
        <2>2. Without(<<>>, v.drop) = <<>>
            <3>1. {i \in DOMAIN <<>> : <<>>[i] \notin v.drop} = {}
                OBVIOUS
            <3>2. <<>> \in Seq(Every)
                OBVIOUS
            <3>3. At(<<>>, {}) = <<>>
                BY <3>2, AtAllOrNone
            <3> QED BY <3>1, <3>3 DEF Without
        <2>3. uniqBy(v.add) = v.add
            BY <2>1, UniqByIs
        <2> QED BY <1>3, <2>1, <2>2, <2>3 DEF Then, NoUpdate
    <1>5. Then(u, NoUpdate) = u
        <2>1. u = [drop |-> u.drop, add |-> u.add]
            BY DEF Updates
        <2>2. Without(u.add, {}) = u.add /\ uniqBy(u.add) = u.add
            BY <1>1, WithoutIs, UniqByIs
        <2> QED BY <1>1, <1>3, <2>1, <2>2 DEF Then, NoUpdate
    <1>6. ASSUME v \in Updates, v.drop = Every PROVE Then(u, v) = v
        <2>1. v = [drop |-> v.drop, add |-> v.add] /\ v.add \in FilterLists
            BY <1>6 DEF Updates
        <2>2. Without(u.add, v.drop) = <<>> /\ uniqBy(v.add) = v.add
            BY <1>1, <1>6, <2>1, WithoutIs, UniqByIs
        <2>3. u.drop \cup v.drop = v.drop
            BY <1>1, <1>6
        <2> QED BY <1>3, <2>1, <2>2, <2>3 DEF Then
    <1> QED BY <1>2, <1>4, <1>5, <1>6

(* What a filter, a query and a route of the page are. *)
UrlQueries == [fs : FilterLists, raw : BOOLEAN]
Routes == [path : Paths, q : UrlQueries]

FilterFields == {"acts", "loc", "hist", "shown", "pend", "synced", "want", "overlap", "crossed"}

FilterTypes ==
    /\ FilterFields \subseteq DOMAIN w
    /\ w.loc \in Routes /\ w.hist \in Seq(Routes)
    /\ w.shown \in [loc : Routes, fs : FilterLists]
    /\ w.pend \in Updates
    /\ w.synced \in [url : UrlQueries, store : UrlQueries]
    /\ w.want \in FilterLists
    /\ w.overlap \in BOOLEAN /\ w.crossed \in BOOLEAN

\* What was copied last, to the address or from it, says what the last render showed.
Copied == w.synced.url.fs = w.shown.fs /\ w.synced.store = Str(w.shown.fs)

\* The address is the one copied last, or the next render will see that it is not.
Followed == ~w.crossed => w.loc.q = w.synced.url \/ w.loc.q # w.shown.loc.q

\* What the user did last is still to be applied to the list, or is an address still to be read.
AskedList == w.loc.q = w.synced.url /\ w.loc.path = w.shown.loc.path /\ Apply(w.shown.fs, w.pend) = w.want
AskedAddress == w.pend = NoUpdate /\ w.shown.loc.q = w.synced.url /\ w.want = w.loc.q.fs
Asked == ~w.crossed /\ ~w.overlap => AskedList \/ AskedAddress

FilterInv == IsPart("filters") => FilterTypes /\ Copied /\ Followed /\ Asked

LEMMA StrIs ==
    /\ \A fs \in FilterLists : Str(fs) \in UrlQueries /\ Typed(fs) \in UrlQueries /\ Str(fs).fs = fs
    /\ NoQuery \in UrlQueries /\ NoQuery.fs = <<>>
    BY NothingListed DEF Str, Typed, UrlQueries, NoQuery

LEMMA SingleListed == \A x \in Every : <<x>> \in FilterLists
    BY DEF FilterLists, IsInjective

\* The updates that the handlers and the effects ask for.
LEMMA UpdatesAre ==
    /\ NoUpdate \in Updates
    /\ \A S \in SUBSET Every : removeFilter(S) \in Updates
    /\ \A x \in Every : addFilter(x) \in Updates
    /\ \A fs \in FilterLists : setFilters(fs) \in Updates /\ setFilters(fs).drop = Every /\ setFilters(fs).add = fs
    /\ removeFilter(Every).drop = Every /\ removeFilter(Every).add = <<>>
    BY NothingListed, SingleListed DEF NoUpdate, removeFilter, addFilter, setFilters, Updates

LEMMA AddressesAreRoutes == Addresses \subseteq Routes
    <1> SUFFICES ASSUME NEW loc \in Addresses PROVE loc \in Routes
        OBVIOUS
    <1>1. loc.path \in Paths /\ loc = [path |-> loc.path, q |-> loc.q]
        BY DEF Addresses
    <1>2. loc.q \in UrlQueries
        <2>1. loc.q = NoQuery \/ (\E d \in Days : loc.q = Str(<<d>>)) \/ (\E t \in Tags : loc.q = Typed(<<t>>))
            BY DEF Addresses
        <2> QED BY <2>1, StrIs, SingleListed DEF Every
    <1> QED BY <1>1, <1>2 DEF Routes

\* A page just loaded at loc, with hist behind it.
LoadedAt(loc, hist) ==
    /\ FilterFields \subseteq DOMAIN w
    /\ w.loc = loc /\ w.hist = hist /\ w.shown = [loc |-> loc, fs |-> loc.q.fs]
    /\ w.pend = IF loc.q = NoQuery THEN removeFilter(Every) ELSE setFilters(loc.q.fs)
    /\ w.synced = [url |-> loc.q, store |-> Str(loc.q.fs)]
    /\ w.want = loc.q.fs /\ w.overlap = FALSE /\ w.crossed = FALSE

LEMMA MountedIs ==
    ASSUME NEW loc
    PROVE  /\ FilterFields \subseteq DOMAIN Mounted(loc)
           /\ Mounted(loc).loc = loc /\ Mounted(loc).hist = <<>>
           /\ Mounted(loc).shown = [loc |-> loc, fs |-> loc.q.fs]
           /\ Mounted(loc).pend = IF loc.q = NoQuery THEN removeFilter(Every) ELSE setFilters(loc.q.fs)
           /\ Mounted(loc).synced = [url |-> loc.q, store |-> Str(loc.q.fs)]
           /\ Mounted(loc).want = loc.q.fs /\ Mounted(loc).overlap = FALSE /\ Mounted(loc).crossed = FALSE
    BY DEF Mounted, parseFilterQuery, FilterFields

LEMMA LoadedPage == (\E loc \in Routes, hist \in Seq(Routes) : LoadedAt(loc, hist)) => FilterInv
    <1> SUFFICES ASSUME NEW loc \in Routes, NEW hist \in Seq(Routes), LoadedAt(loc, hist) PROVE FilterInv
        OBVIOUS
    <1>1. loc.q \in UrlQueries /\ loc.q.fs \in FilterLists
        BY DEF Routes, UrlQueries
    <1>2. w.pend \in Updates /\ w.pend.drop = Every /\ w.pend.add = loc.q.fs
        BY <1>1, UpdatesAre, StrIs DEF LoadedAt
    <1>3. FilterTypes
        <2>1. w.shown \in [loc : Routes, fs : FilterLists] /\ w.synced \in [url : UrlQueries, store : UrlQueries]
            BY <1>1, StrIs DEF LoadedAt
        <2> QED BY <1>1, <1>2, <2>1 DEF FilterTypes, LoadedAt
    <1>4. Copied /\ Followed
        BY DEF Copied, Followed, LoadedAt
    <1>5. Apply(loc.q.fs, w.pend) = loc.q.fs
        BY <1>1, <1>2, ApplyIs
    <1>6. Asked
        BY <1>5 DEF Asked, AskedList, LoadedAt
    <1> QED BY <1>3, <1>4, <1>6 DEF FilterInv

\* A handler of a list asks for u.
LEMMA AskStep ==
    ASSUME FilterInv, IsPart("filters"), NEW u \in Updates, Ask(u)
    PROVE  FilterInv'
    <1>1. FilterTypes /\ Copied /\ Followed /\ Asked
        BY DEF FilterInv
    <1>2. /\ FilterFields \subseteq DOMAIN w'
          /\ w'.part = w.part /\ w'.loc = w.loc /\ w'.hist = w.hist /\ w'.shown = w.shown
          /\ w'.synced = w.synced /\ w'.crossed = w.crossed
          /\ w'.pend = Then(w.pend, u) /\ w'.overlap = ~AtRest /\ w'.want = Apply(w.shown.fs, u)
        BY <1>1 DEF Ask, FilterTypes, FilterFields
    <1>3. w.shown.fs \in FilterLists /\ w.pend \in Updates
        BY <1>1 DEF FilterTypes
    <1>4. u.drop \in SUBSET Every /\ u.add \in Seq(Every)
        BY DEF Updates, FilterLists
    <1>5. w'.pend \in Updates /\ w'.want \in FilterLists /\ Then(NoUpdate, u) = u
        <2>1. Then(w.pend, u) \in Updates
            BY <1>3, <1>4, ThenIs
        <2>2. Apply(w.shown.fs, u) \in FilterLists
            BY <1>3, ApplyIs
        <2>3. Then(NoUpdate, u) = u
            BY <1>4, ThenIs, UpdatesAre
        <2> QED BY <1>2, <2>1, <2>2, <2>3
    <1>6. FilterTypes'
        BY <1>1, <1>2, <1>5 DEF FilterTypes, AtRest
    <1>7. Copied' /\ Followed'
        BY <1>1, <1>2 DEF Copied, Followed
    <1>8. Asked'
        <2> SUFFICES ASSUME ~w.crossed, AtRest PROVE AskedList'
            BY <1>2 DEF Asked
        <2>1. w.loc.q = w.synced.url /\ w.loc.path = w.shown.loc.path
            BY <1>1 DEF Followed, AtRest
        <2>2. w'.pend = u
            BY <1>2, <1>5 DEF AtRest
        <2> QED BY <1>2, <2>1, <2>2 DEF AskedList
    <1> QED BY <1>6, <1>7, <1>8 DEF FilterInv

\* The router goes to another address.
LEMMA MovedStep ==
    ASSUME FilterInv, IsPart("filters"), NEW loc \in Routes, NEW hist \in Seq(Routes), w' = Moved(loc, hist)
    PROVE  FilterInv'
    <1>1. FilterTypes /\ Copied /\ Followed /\ Asked
        BY DEF FilterInv
    <1>2. /\ FilterFields \subseteq DOMAIN w'
          /\ w'.part = w.part /\ w'.loc = loc /\ w'.hist = hist /\ w'.shown = w.shown
          /\ w'.synced = w.synced /\ w'.crossed = (w.crossed \/ ~AtRest)
          /\ w'.pend = w.pend /\ w'.overlap = ~AtRest /\ w'.want = loc.q.fs
        BY <1>1 DEF Moved, FilterTypes, FilterFields
    <1>3. loc.q.fs \in FilterLists
        BY DEF Routes, UrlQueries
    <1>4. FilterTypes'
        BY <1>1, <1>2, <1>3 DEF FilterTypes, AtRest
    <1>5. Copied'
        BY <1>1, <1>2 DEF Copied
    <1>6. ASSUME ~w.crossed, AtRest PROVE w.loc.q = w.synced.url /\ w.shown.loc.q = w.loc.q /\ w.pend = NoUpdate
        BY <1>1, <1>6 DEF Followed, AtRest
    <1>7. Followed'
        BY <1>2, <1>6 DEF Followed
    <1>8. Asked'
        BY <1>2, <1>6 DEF Asked, AskedAddress
    <1> QED BY <1>4, <1>5, <1>7, <1>8 DEF FilterInv

\* A render applies the address, the updates or both, and its effects run.
LEMMA RenderStep ==
    ASSUME FilterInv, IsPart("filters"), NEW byAddress \in BOOLEAN, NEW byState \in BOOLEAN,
           byAddress \/ byState, Render(byAddress, byState)
    PROVE  FilterInv'
    <1> DEFINE at == IF byAddress THEN w.loc ELSE w.shown.loc
               fs == IF byState THEN Apply(w.shown.fs, w.pend) ELSE w.shown.fs
               ran == byState \/ at.q # w.shown.loc.q
               news == StoreNews(fs, ran, UrlSynced(at))
               left == IF byState THEN NoUpdate ELSE w.pend
    <1>1. FilterTypes /\ Copied /\ Followed /\ Asked
        BY DEF FilterInv
    <1>2. /\ FilterFields \subseteq DOMAIN w'
          /\ w'.part = w.part /\ w'.hist = w.hist /\ w'.want = w.want
          /\ w'.overlap = w.overlap /\ w'.crossed = w.crossed
          /\ w'.shown = [loc |-> at, fs |-> fs]
          /\ w'.pend = Then(left, UrlEffect(at))
          /\ w'.synced = IF news THEN [url |-> Str(fs), store |-> Str(fs)] ELSE UrlSynced(at)
          /\ w'.loc = IF news THEN [w.loc EXCEPT !.q = Str(fs)] ELSE w.loc
        BY <1>1 DEF Render, FilterTypes, FilterFields
    <1>3. (byAddress => w.loc # w.shown.loc) /\ (byState => w.pend # NoUpdate)
        BY DEF Render
    <1>4. /\ w.loc \in Routes /\ w.shown.loc \in Routes /\ at \in Routes /\ at.q \in UrlQueries
          /\ at.q.fs \in FilterLists /\ w.loc.q \in UrlQueries /\ w.loc.path \in Paths
          /\ w.shown.fs \in FilterLists /\ w.pend \in Updates /\ w.want \in FilterLists
        BY <1>1 DEF FilterTypes, Routes, UrlQueries
    <1>5. fs \in FilterLists /\ left \in Updates /\ Str(fs) \in UrlQueries /\ Str(fs).fs = fs
        BY <1>4, ApplyIs, UpdatesAre, StrIs
    <1>6. UrlSynced(at) = IF UrlNews(at) THEN [url |-> at.q, store |-> Str(at.q.fs)] ELSE w.synced
        BY DEF UrlSynced, parseFilterQuery
    <1>7. /\ UrlSynced(at) \in [url : UrlQueries, store : UrlQueries]
          /\ UrlSynced(at).store = Str(UrlSynced(at).url.fs)
        BY <1>1, <1>4, <1>6, StrIs DEF FilterTypes, Copied
    <1>8. news <=> ran /\ Str(fs) # UrlSynced(at).url /\ Str(fs) # UrlSynced(at).store
        BY DEF StoreNews
    <1> HIDE DEF at, fs, ran, news, left
    <1>9. w'.loc.path = w.loc.path /\ w'.loc.q = IF news THEN Str(fs) ELSE w.loc.q
        BY <1>2, <1>4 DEF Routes
    <1>10. /\ w'.shown.loc = at /\ w'.shown.fs = fs
           /\ w'.synced.url = IF news THEN Str(fs) ELSE UrlSynced(at).url
           /\ w'.synced.store = IF news THEN Str(fs) ELSE UrlSynced(at).store
           /\ w'.want = w.want
        BY <1>2
    <1>11. UrlEffect(at) \in Updates
        <2>1. setFilters(parseFilterQuery(at.q)) \in Updates
            BY <1>4, UpdatesAre DEF parseFilterQuery
        <2> QED BY <2>1, UpdatesAre DEF UrlEffect, RouteEffect
    <1>12. FilterTypes'
        <2>1. w'.loc \in Routes
            BY <1>2, <1>4, <1>5 DEF Routes
        <2>2. w'.pend \in Updates
            <3>1. UrlEffect(at).drop \in SUBSET Every /\ UrlEffect(at).add \in Seq(Every)
                BY <1>11 DEF Updates, FilterLists
            <3> QED BY <1>2, <1>5, <3>1, ThenIs
        <2>3. w'.shown \in [loc : Routes, fs : FilterLists]
            BY <1>2, <1>4, <1>5
        <2>4. w'.synced \in [url : UrlQueries, store : UrlQueries]
            BY <1>2, <1>5, <1>7
        <2> QED BY <1>1, <1>2, <2>1, <2>2, <2>3, <2>4 DEF FilterTypes
    <1>13. Copied'
        <2>1. CASE news
            BY <1>5, <1>10, <2>1 DEF Copied
        <2>2. CASE ~news /\ ran
            <3>1. Str(fs) = UrlSynced(at).url \/ Str(fs) = UrlSynced(at).store
                BY <1>8, <2>2
            <3>2. UrlSynced(at).url.fs = fs
                <4>1. UrlSynced(at).url.fs \in FilterLists
                    BY <1>7 DEF UrlQueries
                <4> QED BY <1>5, <1>7, <3>1, <4>1, StrIs
            <3> QED BY <1>7, <1>10, <2>2, <3>2 DEF Copied
        <2>3. CASE ~news /\ ~ran
            <3>1. fs = w.shown.fs /\ ~UrlNews(at)
                BY <2>3 DEF ran, fs, UrlNews
            <3> QED BY <1>1, <1>6, <1>10, <2>3, <3>1 DEF Copied
        <2> QED BY <2>1, <2>2, <2>3
    <1>14. Followed'
        <2> SUFFICES ASSUME ~w.crossed, ~news
                     PROVE  w.loc.q = UrlSynced(at).url \/ w.loc.q # at.q
            BY <1>2, <1>9, <1>10 DEF Followed
        <2>1. w.loc.q = w.synced.url \/ w.loc.q # w.shown.loc.q
            BY <1>1 DEF Followed
        <2>2. CASE byAddress
            <3>1. at = w.loc
                BY <2>2 DEF at
            <3> QED BY <1>6, <2>1, <3>1 DEF UrlNews
        <2>3. CASE ~byAddress
            <3>1. at = w.shown.loc /\ ~UrlNews(at)
                BY <2>3 DEF at, UrlNews
            <3> QED BY <1>6, <2>1, <3>1
        <2> QED BY <2>2, <2>3
    <1>15. Asked'
        <2> SUFFICES ASSUME ~w.crossed, ~w.overlap PROVE AskedList'
            BY <1>2 DEF Asked
        <2>1. CASE AskedList
            <3>1. w.loc.q = w.synced.url /\ w.loc.path = w.shown.loc.path /\ Apply(w.shown.fs, w.pend) = w.want
                BY <2>1 DEF AskedList
            <3>2. ~UrlNews(at) /\ at.path = w.loc.path
                BY <3>1 DEF at, UrlNews
            <3>3. UrlEffect(at) = NoUpdate
                BY <3>1, <3>2 DEF UrlEffect, RouteEffect
            <3>4. w'.pend = left
                <4>1. NoUpdate.drop \in SUBSET Every /\ NoUpdate.add \in Seq(Every)
                    BY UpdatesAre DEF Updates, FilterLists
                <4>2. Then(left, NoUpdate) = left
                    BY <1>5, <4>1, ThenIs
                <4> QED BY <1>2, <3>3, <4>2
            <3>5. Apply(fs, left) = w.want
                <4>1. CASE byState
                    BY <1>4, <3>1, <4>1, ApplyIs, UpdatesAre DEF fs, left
                <4>2. CASE ~byState
                    BY <3>1, <4>2 DEF fs, left
                <4> QED BY <4>1, <4>2
            <3>6. w'.loc.q = w'.synced.url
                BY <1>6, <1>9, <1>10, <3>1, <3>2
            <3> QED BY <1>9, <1>10, <3>2, <3>4, <3>5, <3>6 DEF AskedList
        <2>2. CASE AskedAddress
            <3>1. w.pend = NoUpdate /\ w.shown.loc.q = w.synced.url /\ w.want = w.loc.q.fs
                BY <2>2 DEF AskedAddress
            <3>2. ~byState /\ byAddress /\ at = w.loc /\ fs = w.shown.fs /\ left = NoUpdate
                BY <1>3, <3>1 DEF at, fs, left
            <3>3. w'.pend = UrlEffect(at)
                <4>1. UrlEffect(at).drop \in SUBSET Every /\ UrlEffect(at).add \in Seq(Every)
                    BY <1>11 DEF Updates, FilterLists
                <4> QED BY <1>2, <1>11, <3>2, <4>1, ThenIs, UpdatesAre
            <3>4. w'.loc.q = w'.synced.url
                BY <1>6, <1>9, <1>10, <3>1, <3>2 DEF UrlNews
            <3>5. Apply(fs, UrlEffect(at)) = w.want
                <4>1. CASE UrlNews(at)
                    <5>1. UrlEffect(at) = setFilters(at.q.fs)
                        BY <4>1 DEF UrlEffect, parseFilterQuery
                    <5>2. UrlEffect(at).drop = Every /\ UrlEffect(at).add = at.q.fs
                        BY <1>4, <5>1, UpdatesAre
                    <5>3. Apply(fs, UrlEffect(at)) = UrlEffect(at).add
                        BY <1>5, <1>11, <5>2, ApplyIs
                    <5> QED BY <3>1, <3>2, <5>2, <5>3
                <4>2. CASE ~UrlNews(at)
                    <5>1. w.loc.q = w.synced.url /\ w.want = fs
                        BY <1>1, <3>1, <3>2, <4>2 DEF UrlNews, Copied
                    <5>2. CASE UrlEffect(at) = NoUpdate
                        BY <1>5, <5>1, <5>2, ApplyIs, UpdatesAre
                    <5>3. CASE UrlEffect(at) # NoUpdate
                        <6>1. UrlEffect(at) = removeFilter(Every) /\ at.q = NoQuery
                            BY <4>2, <5>3 DEF UrlEffect, RouteEffect
                        <6>2. w.want = <<>>
                            BY <3>1, <3>2, <6>1, StrIs
                        <6> QED BY <1>5, <1>11, <6>1, <6>2, ApplyIs, UpdatesAre
                    <5> QED BY <5>2, <5>3
                <4> QED BY <4>1, <4>2
            <3> QED BY <1>9, <1>10, <3>2, <3>3, <3>4, <3>5 DEF AskedList
        <2> QED BY <1>1, <2>1, <2>2 DEF Asked
    <1> QED BY <1>12, <1>13, <1>14, <1>15 DEF FilterInv

LEMMA FilterStart == PageInit => FilterInv
    <1> SUFFICES ASSUME PageInit, IsPart("filters") PROVE FilterInv
        BY DEF FilterInv
    <1>1. FilterInit
        BY OtherPartsInit DEF IsPart, PageInit, DialogsInit, WritingInit
    <1>2. PICK loc \in Addresses : w = Mounted(loc)
        BY <1>1 DEF FilterInit
    <1>3. loc \in Routes /\ <<>> \in Seq(Routes)
        BY AddressesAreRoutes
    <1>4. LoadedAt(loc, <<>>)
        BY <1>2, MountedIs DEF LoadedAt
    <1> QED BY <1>3, <1>4, LoadedPage

LEMMA FilterStep == HasPart /\ FilterInv /\ [PageNext]_w => FilterInv'
    <1> SUFFICES ASSUME HasPart, FilterInv, [PageNext]_w, IsPart("filters")' PROVE FilterInv'
        BY DEF FilterInv
    <1>1. IsPart("filters") /\ (w' = w \/ FilterNext) /\ FilterTypes
        BY PartsStep DEF IsPart, FilterInv
    <1>2. w.loc \in Routes /\ w.hist \in Seq(Routes) /\ w.shown.fs \in FilterLists
        BY <1>1 DEF FilterTypes
    <1>3. CASE w' = w
        BY <1>1, <1>3 DEF FilterInv, FilterTypes, Copied, Followed, Asked, AskedList, AskedAddress, IsPart
    <1>4. CASE RenderAddress \/ RenderState \/ RenderBoth
        BY <1>1, <1>4, RenderStep DEF RenderAddress, RenderState, RenderBoth
    <1>5. ASSUME NEW t \in Tags, handleTagClick(t) PROVE FilterInv'
        <2>1. t \in Every /\ {t} \in SUBSET Every /\ Tags \in SUBSET Every
            BY DEF Every
        <2>2. Then(removeFilter(Tags), addFilter(t)) \in Updates
            <3>1. addFilter(t).drop \in SUBSET Every /\ addFilter(t).add \in Seq(Every)
                BY <2>1, UpdatesAre DEF Updates, FilterLists
            <3> QED BY <2>1, <3>1, UpdatesAre, ThenIs
        <2>3. TagUpdate(t) \in Updates
            BY <2>1, <2>2, UpdatesAre DEF TagUpdate
        <2> QED BY <1>1, <1>5, <2>3, AskStep DEF handleTagClick
    <1>6. ASSUME NEW words \in {<<x>> : x \in Words} \cup (Words \X Words), Search(words) PROVE FilterInv'
        <2> DEFINE v == [drop |-> {}, add |-> words]
        <2>1. words \in Seq(Every)
            <3>1. Words \subseteq Every
                BY DEF Every
            <3>2. \A x, y \in Every : <<x>> \in Seq(Every) /\ <<x, y>> \in Seq(Every)
                OBVIOUS
            <3>3. CASE words \in Words \X Words
                <4>1. words = <<words[1], words[2]>> /\ words[1] \in Words /\ words[2] \in Words
                    BY <3>3
                <4> QED BY <3>1, <3>2, <4>1
            <3> QED BY <3>1, <3>2, <3>3
        <2>2. v.drop \in SUBSET Every /\ v.add \in Seq(Every)
            BY <2>1
        <2>3. Then(NoUpdate, v) \in Updates
            BY <2>2, UpdatesAre, ThenIs
        <2> QED BY <1>1, <1>6, <2>3, AskStep DEF Search
    <1>7. ASSUME NEW f \in Every, handleRemoveFilter(f) PROVE FilterInv'
        BY <1>1, <1>7, UpdatesAre, AskStep DEF handleRemoveFilter
    <1>8. ASSUME NEW loc \in Routes, Go(loc) PROVE FilterInv'
        <2>1. Append(w.hist, w.loc) \in Seq(Routes)
            BY <1>2
        <2> QED BY <1>1, <1>8, <2>1, MovedStep DEF Go
    <1>9. ASSUME NEW p \in Paths, NavLink(p) PROVE FilterInv'
        <2>1. [path |-> p, q |-> NoQuery] \in Routes
            BY StrIs DEF Routes
        <2> QED BY <1>8, <1>9, <2>1 DEF NavLink
    <1>10. ASSUME NEW d \in Days, navigateToDateFilter(d) PROVE FilterInv'
        <2>1. Str(<<d>>) \in UrlQueries /\ "home" \in Paths
            BY StrIs, SingleListed DEF Every, Paths
        <2>2. [path |-> "home", q |-> Str(<<d>>)] \in Routes
            BY <2>1 DEF Routes
        <2> QED BY <1>8, <1>10, <2>2 DEF navigateToDateFilter
    <1>11. ASSUME NEW t \in Tags, NEW parent \in {"home", "memo"}, TagOfMemoPage(t, parent) PROVE FilterInv'
        <2>1. Str(<<t>>) \in UrlQueries /\ parent \in Paths
            BY StrIs, SingleListed DEF Every, Paths
        <2>2. [path |-> parent, q |-> Str(<<t>>)] \in Routes
            BY <2>1 DEF Routes
        <2> QED BY <1>8, <1>11, <2>2 DEF TagOfMemoPage
    <1>12. CASE Back
        <2>1. Last(w.hist) \in Routes /\ Front(w.hist) \in Seq(Routes)
            <3>1. w.hist # <<>> /\ Len(w.hist) \in Nat /\ Len(w.hist) > 0
                BY <1>2, <1>12 DEF Back
            <3>2. Last(w.hist) \in Routes
                BY <1>2, <3>1 DEF Last
            <3>3. Front(w.hist) \in Seq(Routes)
                BY <1>2, <3>1 DEF Front
            <3> QED BY <3>2, <3>3
        <2> QED BY <1>1, <1>12, <2>1, MovedStep DEF Back
    <1>13. CASE ReloadPage
        <2>1. ASSUME NEW loc \in Routes, NEW hist \in Seq(Routes), loc = w.loc, hist = w.hist
              PROVE  LoadedAt(loc, hist)'
            <3>1. w' = [Mounted(loc) EXCEPT !.acts = w.acts + 1, !.hist = hist]
                BY <1>13, <2>1 DEF ReloadPage
            <3> DEFINE m == Mounted(loc)
            <3>2. FilterFields \subseteq DOMAIN m
                BY MountedIs
            <3> HIDE DEF m
            <3>3. /\ DOMAIN w' = DOMAIN m /\ w'.hist = hist /\ w'.loc = m.loc /\ w'.shown = m.shown
                  /\ w'.pend = m.pend /\ w'.synced = m.synced /\ w'.want = m.want
                  /\ w'.overlap = m.overlap /\ w'.crossed = m.crossed
                BY <3>1, <3>2 DEF m, FilterFields
            <3> QED BY <3>2, <3>3, MountedIs DEF m, LoadedAt
        <2>2. (\E loc \in Routes, hist \in Seq(Routes) : LoadedAt(loc, hist))'
            BY <1>2, <2>1
        <2> QED BY <2>2, LoadedPage, PTL
    <1> QED BY <1>1, <1>3, <1>4, <1>5, <1>6, <1>7, <1>9, <1>10, <1>11, <1>12, <1>13 DEF FilterNext

\* However the user's clicks, the router's steps and React's renders interleave, with any filters:
\* once nothing is under way the address and the filters say the same, what the user asked for last
\* (MemoFilterContext.tsx:64-108, RootLayout.tsx).
THEOREM UrlIsTrue == PageSpec => []UrlTrue
    <1> DEFINE Inv == HasPart /\ FilterInv
    <1>1. PageInit => Inv
        BY PartsInit, FilterStart
    <1>2. Inv /\ [PageNext]_w => Inv'
        BY PartsStep, FilterStep
    <1>3. Inv => UrlTrue
        <2> SUFFICES ASSUME FilterInv, IsPart("filters"), AtRest, ~w.crossed
                     PROVE  w.loc.q.fs = w.shown.fs /\ (~w.overlap => w.shown.fs = w.want)
            BY DEF UrlTrue, parseFilterQuery
        <2>1. FilterTypes /\ Copied /\ Followed /\ Asked
            BY DEF FilterInv
        <2>2. w.loc.q.fs = w.shown.fs /\ w.loc.q = w.shown.loc.q /\ w.pend = NoUpdate
            BY <2>1 DEF Copied, Followed, AtRest
        <2>3. Apply(w.shown.fs, NoUpdate) = w.shown.fs
            BY <2>1, ApplyIs, UpdatesAre DEF FilterTypes
        <2> QED BY <2>1, <2>2, <2>3 DEF Asked, AskedList, AskedAddress
    <1> QED BY <1>1, <1>2, <1>3, PTL DEF PageSpec

(* ---- the grid of memos ---- *)
\* A set of naturals that has 0 and with each number the next has all of them.
LEMMA EveryNumber ==
    ASSUME NEW S \in SUBSET Nat, 0 \in S, \A n \in S : n + 1 \in S
    PROVE  \A n \in Nat : n \in S
    <1> SUFFICES ASSUME Nat \ S # {} PROVE FALSE
        OBVIOUS
    <1>1. PICK n \in Nat \ S : \A m \in Nat \ S : n <= m
        BY LeastOf
    <1>2. n - 1 \in Nat /\ n - 1 < n /\ n - 1 + 1 = n
        BY <1>1
    <1> QED BY <1>1, <1>2

\* f sums up the first members of g.
Sums(f, n, g) == f \in [0..n -> Nat] /\ f[0] = 0 /\ \A k \in 1..n : f[k] = f[k - 1] + g[k]

LEMMA SumsExist ==
    ASSUME NEW n \in Nat, NEW g \in [1..n -> Nat]
    PROVE  \E f : Sums(f, n, g)
    <1> DEFINE S == {m \in Nat : m <= n => \E f : Sums(f, m, g)}
    <1>1. 0 \in S
        <2>1. Sums([k \in 0..0 |-> 0], 0, g)
            BY DEF Sums
        <2> QED BY <2>1
    <1>2. ASSUME NEW m \in S PROVE m + 1 \in S
        <2> SUFFICES ASSUME m + 1 <= n PROVE \E f : Sums(f, m + 1, g)
            OBVIOUS
        <2>1. m \in Nat /\ m <= n /\ m + 1 \in 1..n
            OBVIOUS
        <2>2. PICK f : Sums(f, m, g)
            BY <2>1
        <2> DEFINE h == [k \in 0..(m + 1) |-> IF k = m + 1 THEN f[m] + g[m + 1] ELSE f[k]]
        <2>3. \A k \in 0..m : h[k] = f[k] /\ f[k] \in Nat
            BY <2>1, <2>2 DEF Sums
        <2>4. h[m + 1] = h[m] + g[m + 1] /\ h[m + 1] \in Nat
            BY <2>1, <2>2 DEF Sums
        <2>5. h \in [0..(m + 1) -> Nat]
            BY <2>1, <2>3, <2>4
        <2>6. h[0] = 0
            BY <2>1, <2>2 DEF Sums
        <2> HIDE DEF h
        <2>7. \A k \in 1..(m + 1) : h[k] = h[k - 1] + g[k]
            <3> SUFFICES ASSUME NEW k \in 1..(m + 1) PROVE h[k] = h[k - 1] + g[k]
                OBVIOUS
            <3>1. CASE k = m + 1
                BY <2>1, <2>4, <3>1
            <3>2. CASE k # m + 1
                <4>1. k \in 1..m /\ k \in 0..m /\ k - 1 \in 0..m
                    BY <2>1, <3>2
                <4> QED BY <2>2, <2>3, <4>1 DEF Sums
            <3> QED BY <3>1, <3>2
        <2> QED BY <2>5, <2>6, <2>7 DEF Sums
    <1> HIDE DEF S
    <1>3. n \in S
        <2>1. S \in SUBSET Nat
            BY DEF S
        <2> QED BY <1>1, <1>2, <2>1, EveryNumber
    <1> QED BY <1>3 DEF S

Alike(g, h, m) == \A k \in 1..m : g[k] = h[k]

\* Two sums agree where what they sum up does.
LEMMA SumsAgree ==
    ASSUME NEW n \in Nat, NEW m \in Nat, m <= n, NEW g, NEW h, Alike(g, h, m),
           NEW e, Sums(e, m, g), NEW f, Sums(f, n, h)
    PROVE  e[m] = f[m]
    <1> DEFINE S == {k \in Nat : k <= m => e[k] = f[k]}
    <1>1. 0 \in S
        BY DEF Sums
    <1>2. ASSUME NEW k \in S PROVE k + 1 \in S
        <2> SUFFICES ASSUME k + 1 <= m PROVE e[k + 1] = f[k + 1]
            OBVIOUS
        <2>1. k \in Nat /\ k + 1 \in 1..m /\ k + 1 \in 1..n /\ k + 1 - 1 = k
            OBVIOUS
        <2>2. e[k + 1] = e[k] + g[k + 1] /\ f[k + 1] = f[k] + h[k + 1]
            BY <2>1 DEF Sums
        <2> QED BY <2>1, <2>2 DEF Alike
    <1> HIDE DEF S
    <1>3. m \in S
        <2>1. S \in SUBSET Nat
            BY DEF S
        <2> QED BY <1>1, <1>2, <2>1, EveryNumber
    <1> QED BY <1>3 DEF S

Sizes == [GridMemos -> Nat]

\* What the memos of a column add to its height, in their order.
Added(list, column, heights) == [k \in 1..Len(column) |-> heights[list[column[k]]]]

LEMMA HeightIsSum ==
    ASSUME NEW list \in Seq(GridMemos), NEW column \in Seq(1..Len(list)), NEW heights \in Sizes
    PROVE  /\ Added(list, column, heights) \in [1..Len(column) -> Nat]
           /\ \E f : Sums(f, Len(column), Added(list, column, heights))
           /\ \A f : Sums(f, Len(column), Added(list, column, heights)) =>
                         HeightOf(list, column, heights) = f[Len(column)]
           /\ HeightOf(list, column, heights) \in Nat
    <1> DEFINE n == Len(column)
               g == Added(list, column, heights)
    <1>1. n \in Nat
        OBVIOUS
    <1>2. g \in [1..n -> Nat] /\ \A k \in 1..n : g[k] = heights[list[column[k]]]
        <2>1. \A k \in 1..n : column[k] \in 1..Len(list) /\ list[column[k]] \in GridMemos
            OBVIOUS
        <2> QED BY <2>1 DEF Added, Sizes
    <1>3. PICK e : Sums(e, n, g)
        <2> HIDE DEF n, g
        <2> QED BY <1>1, <1>2, SumsExist
    <1> DEFINE Recursion(f) == f = [k \in 0..n |-> IF k = 0 THEN 0 ELSE f[k - 1] + heights[list[column[k]]]]
               chosen == CHOOSE f : Recursion(f)
    <1>4. HeightOf(list, column, heights) = chosen[n]
        BY DEF HeightOf
    <1> HIDE DEF g, n
    <1>5. Recursion(e)
        <2>1. \A k \in 0..n : e[k] = IF k = 0 THEN 0 ELSE e[k - 1] + heights[list[column[k]]]
            <3> SUFFICES ASSUME NEW k \in 0..n, k # 0 PROVE e[k] = e[k - 1] + heights[list[column[k]]]
                BY <1>3 DEF Sums
            <3>1. k \in 1..n
                BY <1>1
            <3> QED BY <1>2, <1>3, <3>1 DEF Sums
        <2>2. e \in [0..n -> Nat]
            BY <1>3 DEF Sums
        <2> QED BY <2>1, <2>2
    <1>6. Recursion(chosen)
        BY <1>5
    <1> HIDE DEF chosen
    <1>7. chosen[n] = e[n]
        <2> DEFINE S == {k \in Nat : k <= n => chosen[k] = e[k]}
        <2>1. 0 \in S
            BY <1>1, <1>5, <1>6
        <2>2. ASSUME NEW k \in S PROVE k + 1 \in S
            <3> SUFFICES ASSUME k + 1 <= n PROVE chosen[k + 1] = e[k + 1]
                OBVIOUS
            <3>1. k \in Nat /\ k + 1 \in 0..n /\ k + 1 # 0 /\ k + 1 - 1 = k /\ chosen[k] = e[k]
                BY <1>1
            <3>2. ASSUME NEW f, Recursion(f) PROVE f[k + 1] = f[k] + heights[list[column[k + 1]]]
                <4>1. \A j \in 0..n : j # 0 => f[j] = f[j - 1] + heights[list[column[j]]]
                    BY <3>2
                <4> HIDE DEF Recursion
                <4> QED BY <3>1, <4>1
            <3> QED BY <1>5, <1>6, <3>1, <3>2
        <2> HIDE DEF S
        <2>3. S \in SUBSET Nat
            BY DEF S
        <2>4. n \in S
            BY <1>1, <2>1, <2>2, <2>3, EveryNumber
        <2> QED BY <1>1, <2>4 DEF S
    <1>8. ASSUME NEW f, Sums(f, n, g) PROVE f[n] = e[n]
        <2>1. n <= n /\ Alike(g, g, n)
            BY <1>1 DEF Alike
        <2> QED BY <1>1, <1>3, <1>8, <2>1, SumsAgree
    <1>9. e[n] \in Nat
        BY <1>1, <1>3 DEF Sums
    <1> QED BY <1>2, <1>3, <1>4, <1>7, <1>8, <1>9 DEF n, g

\* One memo more adds its height.
LEMMA HeightAppends ==
    ASSUME NEW list \in Seq(GridMemos), NEW column \in Seq(1..Len(list)), NEW heights \in Sizes,
           NEW i \in 1..Len(list)
    PROVE  HeightOf(list, Append(column, i), heights) = HeightOf(list, column, heights) + heights[list[i]]
    <1> DEFINE longer == Append(column, i)
               n == Len(column)
               g == Added(list, column, heights)
               h == Added(list, longer, heights)
    <1>1. longer \in Seq(1..Len(list)) /\ Len(longer) = n + 1 /\ n \in Nat
          /\ longer[n + 1] = i /\ \A k \in 1..n : longer[k] = column[k]
        OBVIOUS
    <1> HIDE DEF longer
    <1>2. Alike(g, h, n)
        BY <1>1 DEF Added, Alike
    <1>3. h[n + 1] = heights[list[i]]
        BY <1>1 DEF Added
    <1>4. PICK e : Sums(e, n, g)
        BY HeightIsSum
    <1>5. PICK f : Sums(f, n + 1, h)
        BY <1>1, HeightIsSum
    <1>6. HeightOf(list, column, heights) = e[n] /\ HeightOf(list, longer, heights) = f[n + 1]
        BY <1>1, <1>4, <1>5, HeightIsSum
    <1> HIDE DEF g, h, n
    <1>7. e[n] = f[n]
        <2>1. n + 1 \in Nat /\ n <= n + 1
            BY <1>1
        <2> QED BY <1>1, <1>2, <1>4, <1>5, <2>1, SumsAgree
    <1>8. f[n + 1] = f[n] + h[n + 1]
        BY <1>1, <1>5 DEF Sums
    <1> QED BY <1>3, <1>6, <1>7, <1>8 DEF longer

LEMMA ShortestIs ==
    ASSUME NEW columns \in Nat \ {0}, NEW X, NEW cols \in [1..columns -> Seq(X)],
           NEW height \in [1..columns -> Nat]
    PROVE  /\ findShortestColumnIndex(cols, height) \in 1..columns
           /\ \A d \in 1..columns : height[findShortestColumnIndex(cols, height)] <= height[d]
    <1> DEFINE Shortest(c) == \A d \in 1..columns :
                   \/ height[c] < height[d]
                   \/ height[c] = height[d] /\ Len(cols[c]) < Len(cols[d])
                   \/ height[c] = height[d] /\ Len(cols[c]) = Len(cols[d]) /\ c <= d
    <1>1. \A c \in 1..columns : c \in Nat /\ height[c] \in Nat /\ Len(cols[c]) \in Nat
        OBVIOUS
    <1>2. \E c \in 1..columns : Shortest(c)
        <2> DEFINE H == {height[c] : c \in 1..columns}
        <2>1. H \in SUBSET Nat /\ H # {}
            <3>1. 1 \in 1..columns
                OBVIOUS
            <3> QED BY <1>1, <3>1
        <2>2. PICK low \in H : \A x \in H : low <= x
            BY <2>1, LeastOf
        <2> DEFINE C == {c \in 1..columns : height[c] = low}
                   L == {Len(cols[c]) : c \in C}
        <2>3. L \in SUBSET Nat /\ L # {}
            BY <1>1
        <2>4. PICK few \in L : \A x \in L : few <= x
            <3> HIDE DEF L
            <3> QED BY <2>3, LeastOf
        <2> DEFINE D == {c \in C : Len(cols[c]) = few}
        <2>5. D \in SUBSET Nat /\ D # {}
            BY <1>1
        <2>6. PICK c \in D : \A x \in D : c <= x
            <3> HIDE DEF D
            <3> QED BY <2>5, LeastOf
        <2>7. ASSUME NEW d \in 1..columns
              PROVE  \/ height[c] < height[d]
                     \/ height[c] = height[d] /\ Len(cols[c]) < Len(cols[d])
                     \/ height[c] = height[d] /\ Len(cols[c]) = Len(cols[d]) /\ c <= d
            <3>1. height[c] = low /\ Len(cols[c]) = few /\ c \in 1..columns
                OBVIOUS
            <3>2. low <= height[d]
                BY <2>2
            <3>3. height[d] = low => few <= Len(cols[d])
                BY <2>4
            <3>4. height[d] = low /\ Len(cols[d]) = few => c <= d
                BY <2>6
            <3> QED BY <1>1, <3>1, <3>2, <3>3, <3>4
        <2> QED BY <2>7
    <1>3. /\ findShortestColumnIndex(cols, height) \in 1..columns
          /\ Shortest(findShortestColumnIndex(cols, height))
        <2>1. DOMAIN cols = 1..columns
            OBVIOUS
        <2>2. findShortestColumnIndex(cols, height) = CHOOSE c \in 1..columns : Shortest(c)
            BY <2>1 DEF findShortestColumnIndex
        <2> HIDE DEF Shortest
        <2> QED BY <1>2, <2>2
    <1>4. ASSUME NEW c \in 1..columns, Shortest(c), NEW d \in 1..columns PROVE height[c] <= height[d]
        <2>1. height[c] < height[d] \/ height[c] = height[d]
            BY <1>4
        <2>2. height[c] \in Nat /\ height[d] \in Nat
            BY <1>1
        <2> QED BY <2>1, <2>2
    <1> HIDE DEF Shortest
    <1> QED BY <1>3, <1>4

(* The first n memos of a list are dealt out to the columns cols: each is in one place. *)
IsAt(cols, i, c, k) == k \in DOMAIN cols[c] /\ cols[c][k] = i
DealtOnce(cols, i) ==
    \E c \in DOMAIN cols, k \in Nat : /\ IsAt(cols, i, c, k)
                                       /\ \A d \in DOMAIN cols, l \in Nat : IsAt(cols, i, d, l) => d = c /\ l = k

DealtOut(cols, columns, n) ==
    /\ cols \in [1..columns -> Seq(1..n)]
    /\ \A c \in 1..columns : Len(cols[c]) <= n
    /\ \A i \in 1..n : DealtOnce(cols, i)

(* No column is higher than another by more than its last memo. *)
Leveled(cols, columns, list, heights, prefix) ==
    \A c, d \in 1..columns :
        cols[c] # <<>> /\ cols[c] # <<1>> =>
            ColumnHeight(cols, c, list, heights, prefix) - heights[list[Last(cols[c])]]
              <= ColumnHeight(cols, d, list, heights, prefix)

LEMMA FirstIsDealt ==
    ASSUME NEW columns \in Nat \ {0}, NEW list \in Seq(GridMemos), NEW heights \in Sizes, NEW prefix \in Nat
    PROVE  /\ list # <<>> => DealtOut(FirstDealt(columns, list), columns, 1)
           /\ list = <<>> => DealtOut(FirstDealt(columns, list), columns, 0)
           /\ Leveled(FirstDealt(columns, list), columns, list, heights, prefix)
    <1> DEFINE first == FirstDealt(columns, list)
    <1>1. /\ DOMAIN first = 1..columns /\ 1 \in 1..columns
          /\ \A c \in 1..columns : first[c] = IF c = 1 /\ list # <<>> THEN <<1>> ELSE <<>>
        BY DEF FirstDealt
    <1>2. first = [c \in 1..columns |-> IF c = 1 /\ list # <<>> THEN <<1>> ELSE <<>>]
        BY DEF FirstDealt
    <1> HIDE DEF first
    <1>3. ASSUME list # <<>> PROVE DealtOut(first, columns, 1)
        <2>1. first \in [1..columns -> Seq(1..1)]
            <3>1. <<1>> \in Seq(1..1) /\ <<>> \in Seq(1..1)
                OBVIOUS
            <3> QED BY <1>2, <3>1
        <2>2. \A c \in 1..columns : Len(first[c]) <= 1
            <3>1. Len(<<1>>) = 1 /\ Len(<<>>) = 0
                OBVIOUS
            <3> SUFFICES ASSUME NEW c \in 1..columns PROVE Len(first[c]) <= 1
                OBVIOUS
            <3>2. first[c] = <<1>> \/ first[c] = <<>>
                BY <1>1
            <3>3. CASE first[c] = <<1>>
                <4>1. Len(first[c]) = 1
                    BY <3>1, <3>3
                <4> QED BY <4>1
            <3>4. CASE first[c] = <<>>
                <4>1. Len(first[c]) = 0
                    BY <3>1, <3>4
                <4> QED BY <4>1
            <3> QED BY <3>2, <3>3, <3>4
        <2>3. IsAt(first, 1, 1, 1)
            BY <1>1, <1>3 DEF IsAt
        <2>4. \A d \in DOMAIN first, l \in Nat : IsAt(first, 1, d, l) => d = 1 /\ l = 1
            BY <1>1 DEF IsAt
        <2>5. \A i \in 1..1 : DealtOnce(first, i)
            <3>1. 1 \in DOMAIN first /\ 1 \in Nat /\ \A i \in 1..1 : i = 1
                BY <1>1
            <3>2. DealtOnce(first, 1)
                BY <2>3, <2>4, <3>1 DEF DealtOnce
            <3> QED BY <3>1, <3>2
        <2> QED BY <2>1, <2>2, <2>5 DEF DealtOut
    <1>4. ASSUME list = <<>> PROVE DealtOut(first, columns, 0)
        <2>1. first \in [1..columns -> Seq(1..0)]
            <3>1. <<>> \in Seq(1..0)
                OBVIOUS
            <3> QED BY <1>2, <1>4, <3>1
        <2>2. \A c \in 1..columns : Len(first[c]) <= 0
            BY <1>1, <1>4
        <2> QED BY <2>1, <2>2 DEF DealtOut
    <1>5. Leveled(first, columns, list, heights, prefix)
        BY <1>1 DEF Leveled
    <1> QED BY <1>3, <1>4, <1>5 DEF first

LEMMA ColumnHeightIs ==
    ASSUME NEW columns \in Nat \ {0}, NEW list \in Seq(GridMemos), NEW heights \in Sizes, NEW prefix \in Nat,
           NEW cols \in [1..columns -> Seq(1..Len(list))], NEW c \in 1..columns
    PROVE  ColumnHeight(cols, c, list, heights, prefix) \in Nat
    <1>1. HeightOf(list, cols[c], heights) \in Nat
        BY HeightIsSum
    <1> QED BY <1>1 DEF ColumnHeight

LEMMA DealIs ==
    ASSUME NEW columns \in Nat \ {0}, NEW list \in Seq(GridMemos), NEW heights \in Sizes, NEW prefix \in Nat,
           NEW i \in Nat \ {0, 1}, i <= Len(list),
           NEW cols, DealtOut(cols, columns, i - 1), Leveled(cols, columns, list, heights, prefix)
    PROVE  /\ DealtOut(Deal(cols, i, list, heights, prefix), columns, i)
           /\ Leveled(Deal(cols, i, list, heights, prefix), columns, list, heights, prefix)
    <1> DEFINE height == [c \in 1..columns |-> ColumnHeight(cols, c, list, heights, prefix)]
               best == findShortestColumnIndex(cols, height)
               new == Deal(cols, i, list, heights, prefix)
    <1>1. /\ cols \in [1..columns -> Seq(1..(i - 1))] /\ DOMAIN cols = 1..columns
          /\ \A c \in 1..columns : Len(cols[c]) <= i - 1
          /\ \A j \in 1..(i - 1) : DealtOnce(cols, j)
        BY DEF DealtOut
    <1>2. i \in 1..i /\ i \in 1..Len(list) /\ 1..(i - 1) \subseteq 1..i /\ 1..(i - 1) \subseteq 1..Len(list)
        OBVIOUS
    <1>3. \A c \in 1..columns : cols[c] \in Seq(1..i) /\ cols[c] \in Seq(1..Len(list))
        <2> SUFFICES ASSUME NEW c \in 1..columns PROVE cols[c] \in Seq(1..i) /\ cols[c] \in Seq(1..Len(list))
            OBVIOUS
        <2>1. cols[c] \in Seq(1..(i - 1))
            BY <1>1
        <2> QED BY <1>2, <2>1
    <1>4. cols \in [1..columns -> Seq(1..Len(list))]
        BY <1>1, <1>3
    <1>5. height \in [1..columns -> Nat]
        BY <1>4, ColumnHeightIs
    <1>6. new = [cols EXCEPT ![best] = Append(cols[best], i)]
        BY <1>1 DEF Deal
    <1>7. best \in 1..columns /\ \A d \in 1..columns : height[best] <= height[d]
        <2> HIDE DEF height
        <2> QED BY <1>4, <1>5, ShortestIs
    <1>8. /\ \A c \in 1..columns : height[c] = ColumnHeight(cols, c, list, heights, prefix) /\ height[c] \in Nat
        BY <1>5
    <1> HIDE DEF height, best, new
    <1>9. /\ DOMAIN new = 1..columns /\ new[best] = Append(cols[best], i)
          /\ \A c \in 1..columns : c # best => new[c] = cols[c]
        BY <1>1, <1>6, <1>7
    <1>10. DealtOut(new, columns, i)
        <2>1. \A c \in 1..columns : new[c] \in Seq(1..i) /\ Len(new[c]) <= i
            <3> SUFFICES ASSUME NEW c \in 1..columns PROVE new[c] \in Seq(1..i) /\ Len(new[c]) <= i
                OBVIOUS
            <3>1. cols[c] \in Seq(1..i) /\ Len(cols[c]) <= i - 1 /\ Len(cols[c]) \in Nat
                BY <1>1, <1>3
            <3>2. CASE c = best
                <4>1. Append(cols[c], i) \in Seq(1..i) /\ Len(Append(cols[c], i)) = Len(cols[c]) + 1
                    BY <1>2, <3>1
                <4>2. new[c] = Append(cols[c], i)
                    BY <1>9, <3>2
                <4>3. \A n \in Nat : n <= i - 1 => n + 1 <= i
                    OBVIOUS
                <4> QED BY <3>1, <4>1, <4>2, <4>3
            <3> QED BY <1>9, <3>1, <3>2
        <2>2. new \in [1..columns -> Seq(1..i)]
            <3>1. new = [c \in 1..columns |-> new[c]]
                BY <1>1, <1>6, <1>9
            <3> QED BY <2>1, <3>1
        <2> DEFINE end == Len(cols[best]) + 1
        <2>3. /\ end \in Nat /\ DOMAIN new[best] = 1..end /\ new[best][end] = i
              /\ DOMAIN cols[best] = 1..(end - 1)
              /\ \A k \in DOMAIN cols[best] : k \in 1..end /\ k # end /\ new[best][k] = cols[best][k]
              /\ \A k \in 1..end : k # end => k \in DOMAIN cols[best]
            <3>1. cols[best] \in Seq(1..i)
                BY <1>3, <1>7
            <3> QED BY <1>9, <3>1
        <2> HIDE DEF end
        <2>4. ASSUME NEW c \in 1..columns, NEW k \in Nat, NEW j \in 1..i
              PROVE  IsAt(new, j, c, k) <=> IsAt(cols, j, c, k) \/ (j = i /\ c = best /\ k = end)
            <3>1. CASE c = best
                <4>1. IsAt(cols, j, best, k) <=> k \in DOMAIN cols[best] /\ cols[best][k] = j
                    BY DEF IsAt
                <4>2. IsAt(new, j, best, k) <=> k \in 1..end /\ new[best][k] = j
                    BY <2>3 DEF IsAt
                <4>3. CASE k = end
                    <5>1. end \in 1..end /\ end \notin DOMAIN cols[best]
                        <6>1. end - 1 < end /\ Len(cols[best]) \in Nat /\ end >= 1
                            BY <1>3, <1>7 DEF end
                        <6> QED BY <2>3, <6>1
                    <5> QED BY <2>3, <3>1, <4>1, <4>2, <4>3, <5>1
                <4>4. CASE k # end
                    BY <2>3, <3>1, <4>1, <4>2, <4>4
                <4> QED BY <4>3, <4>4
            <3>2. CASE c # best
                BY <1>9, <3>2 DEF IsAt
            <3> QED BY <3>1, <3>2
        <2>5. \A c \in 1..columns, k \in Nat : ~IsAt(cols, i, c, k)
            <3> SUFFICES ASSUME NEW c \in 1..columns, NEW k \in Nat, IsAt(cols, i, c, k) PROVE FALSE
                OBVIOUS
            <3>1. cols[c] \in Seq(1..(i - 1)) /\ k \in DOMAIN cols[c]
                BY <1>1 DEF IsAt
            <3>2. cols[c][k] \in 1..(i - 1)
                BY <3>1
            <3> QED BY <3>2 DEF IsAt
        <2>6. ASSUME NEW j \in 1..i PROVE DealtOnce(new, j)
            <3>1. CASE j = i
                <4>1. IsAt(new, j, best, end)
                    BY <1>2, <1>7, <2>3, <2>4, <3>1
                <4>2. \A d \in 1..columns, l \in Nat : IsAt(new, j, d, l) => d = best /\ l = end
                    BY <2>4, <2>5, <3>1
                <4>3. best \in DOMAIN new /\ end \in Nat /\ DOMAIN new = 1..columns
                    BY <1>7, <1>9, <2>3
                <4> QED BY <4>1, <4>2, <4>3 DEF DealtOnce
            <3>2. CASE j # i
                <4>1. j \in 1..(i - 1)
                    BY <3>2
                <4>2. PICK c \in DOMAIN cols, k \in Nat :
                          /\ IsAt(cols, j, c, k)
                          /\ \A d \in DOMAIN cols, l \in Nat : IsAt(cols, j, d, l) => d = c /\ l = k
                    <5>1. DealtOnce(cols, j)
                        BY <1>1, <4>1
                    <5> QED BY <5>1 DEF DealtOnce
                <4>3. \A d \in 1..columns, l \in Nat : IsAt(new, j, d, l) <=> IsAt(cols, j, d, l)
                    BY <2>4, <3>2
                <4>0. DOMAIN cols = 1..columns /\ DOMAIN new = 1..columns
                    BY <1>1, <1>9
                <4>4. c \in DOMAIN new /\ IsAt(new, j, c, k)
                    BY <4>0, <4>2, <4>3
                <4>5. \A d \in DOMAIN new, l \in Nat : IsAt(new, j, d, l) => d = c /\ l = k
                    BY <4>0, <4>2, <4>3
                <4> QED BY <4>4, <4>5 DEF DealtOnce
            <3> QED BY <3>1, <3>2
        <2> QED BY <2>1, <2>2, <2>6 DEF DealtOut
    <1>11. Leveled(new, columns, list, heights, prefix)
        <2> DEFINE after == [c \in 1..columns |-> ColumnHeight(new, c, list, heights, prefix)]
                   size == heights[list[i]]
        <2>1. size \in Nat
            BY <1>2 DEF Sizes
        <2>2. after[best] = height[best] + size
            <3>1. HeightOf(list, new[best], heights) = HeightOf(list, cols[best], heights) + size
                BY <1>2, <1>3, <1>7, <1>9, HeightAppends
            <3>2. HeightOf(list, cols[best], heights) \in Nat
                BY <1>3, <1>7, HeightIsSum
            <3> HIDE DEF size
            <3> QED BY <1>7, <1>8, <2>1, <3>1, <3>2 DEF ColumnHeight
        <2>3. \A c \in 1..columns : c # best => after[c] = height[c]
            BY <1>8, <1>9 DEF ColumnHeight
        <2>4. Last(new[best]) = i
            <3>1. Len(cols[best]) \in Nat /\ cols[best] \in Seq(1..i)
                BY <1>3, <1>7
            <3> QED BY <1>2, <1>9, <3>1 DEF Last
        <2> SUFFICES ASSUME NEW c \in 1..columns, NEW d \in 1..columns, new[c] # <<>>, new[c] # << 1 >>
                     PROVE  after[c] - heights[list[Last(new[c])]] <= after[d]
            BY DEF Leveled
        <2> HIDE DEF after, size
        <2>5. \A e \in 1..columns : height[e] \in Nat /\ after[e] \in Nat /\ height[e] <= after[e]
            <3> SUFFICES ASSUME NEW e \in 1..columns PROVE height[e] \in Nat /\ after[e] \in Nat /\ height[e] <= after[e]
                OBVIOUS
            <3> QED BY <1>7, <1>8, <2>1, <2>2, <2>3
        <2>6. CASE c = best
            <3>1. after[c] - size = height[best]
                BY <1>7, <2>1, <2>2, <2>5, <2>6
            <3>2. height[best] <= height[d] /\ height[d] <= after[d]
                BY <1>7, <2>5
            <3>3. height[best] \in Nat /\ height[d] \in Nat /\ after[d] \in Nat
                BY <1>7, <2>5
            <3>4. after[c] - size <= after[d]
                BY <3>1, <3>2, <3>3
            <3> QED BY <2>4, <2>6, <3>4 DEF size
        <2>7. CASE c # best
            <3> DEFINE last == heights[list[Last(cols[c])]]
            <3>1. new[c] = cols[c] /\ after[c] = height[c]
                BY <1>9, <2>3, <2>7
            <3>2. height[c] - last <= height[d]
                <4>1. ColumnHeight(cols, c, list, heights, prefix) - last <= ColumnHeight(cols, d, list, heights, prefix)
                    BY <3>1 DEF Leveled
                <4> QED BY <1>8, <4>1
            <3>3. last \in Nat
                <4>1. cols[c] \in Seq(1..Len(list)) /\ cols[c] # <<>>
                    BY <1>3, <3>1
                <4>2. Last(cols[c]) \in 1..Len(list)
                    BY <4>1 DEF Last
                <4> QED BY <4>2 DEF Sizes
            <3> HIDE DEF last
            <3>4. height[c] \in Nat /\ height[d] \in Nat /\ after[d] \in Nat /\ height[d] <= after[d]
                BY <2>5
            <3>5. height[c] - last <= after[d]
                BY <3>2, <3>3, <3>4
            <3> QED BY <3>1, <3>5 DEF last
        <2> QED BY <2>6, <2>7
    <1> QED BY <1>10, <1>11 DEF new

(* What distributeItemsToColumns promises about the columns it returns. *)
GoodGrid(grid, list, columns, heights, prefix) ==
    /\ DealtOut(grid, columns, Len(list))
    /\ columns > 1 => Leveled(grid, columns, list, heights, prefix)

LEMMA DistributedIs ==
    ASSUME NEW columns \in Nat \ {0}, NEW list \in Seq(GridMemos), NEW heights \in Sizes, NEW prefix \in Nat
    PROVE  GoodGrid(distributeItemsToColumns(list, columns, heights, prefix), list, columns, heights, prefix)
    <1> DEFINE n == Len(list)
               first == FirstDealt(columns, list)
               Good(cols, i) == DealtOut(cols, columns, i) /\ Leveled(cols, columns, list, heights, prefix)
               Dealt(cols, i) == Deal(cols, i, list, heights, prefix)
               Recursion(f, m) == f = [i \in 0..m |-> IF i <= 1 THEN first ELSE Dealt(f[i - 1], i)]
               dealt == CHOOSE f : Recursion(f, n)
    <1>1. n \in Nat
        OBVIOUS
    <1>2. (list # <<>> <=> n > 0) /\ (list = <<>> <=> n = 0)
        OBVIOUS
    <1>3. /\ n > 0 => Good(first, 1)
          /\ n = 0 => Good(first, 0)
        BY <1>2, FirstIsDealt
    <1>4. ASSUME NEW i \in Nat \ {0, 1}, i <= n, NEW cols, Good(cols, i - 1) PROVE Good(Dealt(cols, i), i)
        BY <1>4, DealIs
    <1>5. distributeItemsToColumns(list, columns, heights, prefix)
             = IF columns = 1 THEN << [i \in 1..n |-> i] >> ELSE dealt[n]
        BY DEF distributeItemsToColumns
    <1>6. CASE columns = 1
        <2> DEFINE column == [i \in 1..n |-> i]
                   grid == <<column>>
        <2>1. column \in Seq(1..n) /\ Len(column) = n /\ DOMAIN column = 1..n /\ \A i \in 1..n : column[i] = i
            BY <1>1
        <2> HIDE DEF column
        <2>2. DOMAIN grid = 1..1 /\ grid[1] = column /\ 1 \in 1..1 /\ \A c \in 1..1 : c = 1
            OBVIOUS
        <2>3. grid \in [1..1 -> Seq(1..n)]
            BY <2>1
        <2> HIDE DEF grid
        <2>4. \A i \in 1..n : DealtOnce(grid, i)
            <3> SUFFICES ASSUME NEW i \in 1..n PROVE DealtOnce(grid, i)
                OBVIOUS
            <3>1. i \in Nat /\ IsAt(grid, i, 1, i)
                BY <2>1, <2>2 DEF IsAt
            <3>2. \A d \in DOMAIN grid, l \in Nat : IsAt(grid, i, d, l) => d = 1 /\ l = i
                BY <2>1, <2>2 DEF IsAt
            <3> QED BY <2>2, <3>1, <3>2 DEF DealtOnce
        <2>5. \A c \in 1..1 : Len(grid[c]) <= n
            BY <1>1, <2>1, <2>2
        <2>6. DealtOut(grid, columns, n)
            BY <1>6, <2>3, <2>4, <2>5 DEF DealtOut
        <2> QED BY <1>5, <1>6, <2>6 DEF GoodGrid, grid, column
    <1> HIDE DEF Good, Dealt, first, n
    <1>7. \E f : Recursion(f, n)
        <2> DEFINE S == {m \in Nat : \E f : Recursion(f, m)}
        <2>1. 0 \in S
            <3>1. Recursion([i \in 0..0 |-> first], 0)
                OBVIOUS
            <3> QED BY <3>1
        <2>2. ASSUME NEW m \in S PROVE m + 1 \in S
            <3>1. m \in Nat
                OBVIOUS
            <3>2. PICK f : Recursion(f, m)
                OBVIOUS
            <3> DEFINE g == [i \in 0..(m + 1) |-> IF i <= 1 THEN first ELSE Dealt(f[i - 1], i)]
            <3>3. \A i \in 0..m : g[i] = f[i]
                BY <3>1, <3>2
            <3>4. g = [i \in 0..(m + 1) |-> IF i <= 1 THEN first ELSE Dealt(g[i - 1], i)]
                <4>1. \A i \in 0..(m + 1) : ~(i <= 1) => i - 1 \in 0..m
                    BY <3>1
                <4> QED BY <3>3, <4>1
            <3> HIDE DEF g
            <3>5. Recursion(g, m + 1)
                BY <3>4
            <3> HIDE DEF Recursion
            <3>6. m + 1 \in Nat /\ \E e : Recursion(e, m + 1)
                BY <3>1, <3>5
            <3> QED BY <3>6
        <2> HIDE DEF S
        <2>3. S \in SUBSET Nat
            BY DEF S
        <2>4. n \in S
            BY <1>1, <2>1, <2>2, <2>3, EveryNumber
        <2> QED BY <2>4 DEF S
    <1>8. Recursion(dealt, n)
        BY <1>7
    <1> HIDE DEF dealt
    <1>9. /\ \A i \in 0..n : i <= 1 => dealt[i] = first
          /\ \A i \in 0..n : ~(i <= 1) => dealt[i] = Dealt(dealt[i - 1], i)
        BY <1>8
    <1>10. Good(dealt[n], n)
        <2>1. CASE n = 0
            BY <1>1, <1>3, <1>9, <2>1
        <2>2. CASE n > 0
            <3> DEFINE S == {i \in Nat : i \in 1..n => Good(dealt[i], i)}
            <3>1. 0 \in S
                OBVIOUS
            <3>2. ASSUME NEW i \in S PROVE i + 1 \in S
                <4> SUFFICES ASSUME i + 1 \in 1..n PROVE Good(dealt[i + 1], i + 1)
                    OBVIOUS
                <4>1. i \in Nat /\ i + 1 \in 0..n /\ i + 1 - 1 = i
                    BY <1>1
                <4>2. CASE i = 0
                    BY <1>3, <1>9, <2>2, <4>1, <4>2
                <4>3. CASE i # 0
                    <5>1. i + 1 \in Nat \ {0, 1} /\ i + 1 <= n /\ i \in 1..n /\ ~(i + 1 <= 1)
                        BY <1>1, <4>1, <4>3
                    <5>2. Good(dealt[i], i)
                        BY <5>1
                    <5>3. dealt[i + 1] = Dealt(dealt[i], i + 1)
                        BY <1>9, <4>1, <5>1
                    <5>4. Good(dealt[i], i + 1 - 1)
                        BY <4>1, <5>2
                    <5>5. Good(Dealt(dealt[i], i + 1), i + 1)
                        BY <1>4, <5>1, <5>4
                    <5> QED BY <5>3, <5>5
                <4> QED BY <4>2, <4>3
            <3> HIDE DEF S
            <3>3. S \in SUBSET Nat
                BY DEF S
            <3>4. n \in S
                BY <1>1, <3>1, <3>2, <3>3, EveryNumber
            <3> QED BY <1>1, <2>2, <3>4 DEF S
        <2> QED BY <1>1, <2>1, <2>2
    <1>11. CASE columns # 1
        BY <1>5, <1>10, <1>11 DEF Good, GoodGrid, n
    <1> QED BY <1>6, <1>11

GridTimers == [list : Lists, columns : Widths, heights : Sizes]

\* The grid shown was dealt out by heights of some moment, by the latest when nothing is waiting; what
\* is waiting has the latest.
GridFields == {"acts", "list", "columns", "heights", "timer", "prefix", "measured", "late", "grid"}

GridInv ==
    IsPart("grid") =>
        /\ GridFields \subseteq DOMAIN w
        /\ w.list \in Lists /\ w.columns \in Widths /\ w.heights \in Sizes
        /\ w.prefix \in Nat /\ w.measured \in Nat
        /\ w.timer = NoTimer \/ (w.timer \in GridTimers /\ w.timer.heights = w.heights)
        /\ ~w.late => \E heights \in Sizes :
               /\ w.grid = distributeItemsToColumns(w.list, w.columns, heights, w.measured)
               /\ w.timer = NoTimer => heights = w.heights

LEMMA GridConstants ==
    /\ \A list \in Lists : list \in Seq(GridMemos)
    /\ \A columns \in Widths : columns \in Nat \ {0}
    /\ \A h \in Heights : h \in Nat
    /\ NoTimer \notin GridTimers
    /\ Unmeasured \in Sizes
    <1>1. ASSUME NEW list \in Lists PROVE list \in Seq(GridMemos)
        <2>1. list \in Seq(ToSet(list))
            BY ListsAreLists
        <2>2. ToSet(list) \subseteq GridMemos
            BY DEF GridMemos
        <2> QED BY <2>1, <2>2
    <1>2. NoTimer \notin GridTimers
        BY NoTimerIsOutside DEF GridTimers, Sizes
    <1>3. Unmeasured \in Sizes
        BY DEF Unmeasured, Sizes
    <1> QED BY <1>1, <1>2, <1>3, SizesAreNat

LEMMA GridStart == PageInit => GridInv
    <1> SUFFICES ASSUME PageInit, IsPart("grid") PROVE GridInv
        BY DEF GridInv
    <1>1. MasonryInit
        BY OtherPartsInit DEF IsPart, PageInit, DialogsInit, WritingInit
    <1>2. PICK list \in Lists, columns \in Widths, prefix \in {0} \cup Heights :
              w = [part |-> "grid", acts |-> 0, list |-> list, columns |-> columns,
                   heights |-> Unmeasured, timer |-> NoTimer, prefix |-> prefix, measured |-> prefix,
                   late |-> FALSE,
                   grid |-> distributeItemsToColumns(list, columns, Unmeasured, prefix)]
        BY <1>1 DEF MasonryInit
    <1>3. prefix \in Nat
        BY GridConstants
    <1> QED BY <1>2, <1>3, GridConstants DEF GridInv, GridFields

LEMMA GridStep == HasPart /\ GridInv /\ [PageNext]_w => GridInv'
    <1> SUFFICES ASSUME HasPart, GridInv, [PageNext]_w, IsPart("grid")' PROVE GridInv'
        BY DEF GridInv
    <1>1. IsPart("grid") /\ (w' = w \/ MasonryNext)
        BY PartsStep DEF IsPart
    <1>2. /\ {"acts", "list", "columns", "heights", "timer", "prefix", "measured", "late", "grid"} \subseteq DOMAIN w
          /\ w.list \in Lists /\ w.columns \in Widths /\ w.heights \in Sizes
          /\ w.prefix \in Nat /\ w.measured \in Nat
          /\ w.timer = NoTimer \/ (w.timer \in GridTimers /\ w.timer.heights = w.heights)
        BY <1>1 DEF GridInv, GridFields
    <1>3. CASE w' = w
        BY <1>3 DEF GridInv, IsPart
    <1>4. ASSUME NEW list \in Lists, NEW columns \in Widths, redistributeMemos(list, columns) PROVE GridInv'
        <2>1. /\ DOMAIN w' = DOMAIN w /\ w'.list = list /\ w'.columns = columns /\ w'.late = FALSE
              /\ w'.grid = distributeItemsToColumns(list, columns, w.heights, w.prefix)
              /\ w'.heights = w.heights /\ w'.timer = w.timer /\ w'.prefix = w.prefix
              /\ w'.measured = w.prefix
            BY <1>2, <1>4 DEF redistributeMemos
        <2> QED BY <1>2, <2>1 DEF GridInv, GridFields
    <1>5. ASSUME NEW m \in GridMemos, NEW h \in Heights, handleHeightChange(m, h) PROVE GridInv'
        <2> DEFINE heights == Remeasured(m, h)
                   timer == [list |-> w.list, columns |-> w.columns, heights |-> heights]
        <2>1. heights \in Sizes
            BY <1>2, GridConstants DEF Remeasured, Sizes
        <2>2. timer \in GridTimers /\ timer.heights = heights /\ timer # NoTimer
            BY <1>2, <2>1, GridConstants DEF GridTimers
        <2>3. /\ DOMAIN w' = DOMAIN w /\ w'.list = w.list /\ w'.columns = w.columns /\ w'.late = w.late
              /\ w'.grid = w.grid /\ w'.heights = heights /\ w'.timer = timer /\ w'.prefix = w.prefix
              /\ w'.measured = w.measured
            BY <1>2, <1>5 DEF handleHeightChange
        <2> HIDE DEF heights, timer
        <2>4. ~w'.late => \E hs \in Sizes : w'.grid = distributeItemsToColumns(w'.list, w'.columns, hs, w'.measured)
            BY <1>1, <2>3 DEF GridInv
        <2> QED BY <1>2, <2>1, <2>2, <2>3, <2>4 DEF GridInv, GridFields
    <1>6. CASE Redistribute
        <2>1. w.timer \in GridTimers /\ w.timer.heights = w.heights
            BY <1>2, <1>6 DEF Redistribute
        <2>2. /\ DOMAIN w' = DOMAIN w /\ w'.list = w.list /\ w'.columns = w.columns
              /\ w'.late = (w.timer.list # w.list \/ w.timer.columns # w.columns)
              /\ w'.grid = distributeItemsToColumns(w.timer.list, w.timer.columns, w.timer.heights, w.prefix)
              /\ w'.heights = w.heights /\ w'.timer = NoTimer /\ w'.prefix = w.prefix
              /\ w'.measured = w.prefix
            BY <1>2, <1>6 DEF Redistribute
        <2> QED BY <1>2, <2>1, <2>2 DEF GridInv, GridFields
    <1>7. ASSUME NEW h \in Heights, PrefixChanged(h) PROVE GridInv'
        <2>1. /\ DOMAIN w' = DOMAIN w /\ w'.list = w.list /\ w'.columns = w.columns /\ w'.late = w.late
              /\ w'.grid = w.grid /\ w'.heights = w.heights /\ w'.timer = w.timer /\ w'.prefix = h
              /\ w'.measured = w.measured
            BY <1>2, <1>7 DEF PrefixChanged
        <2>2. h \in Nat
            BY GridConstants
        <2>3. ~w.late => \E heights \in Sizes :
                 /\ w.grid = distributeItemsToColumns(w.list, w.columns, heights, w.measured)
                 /\ w.timer = NoTimer => heights = w.heights
            BY <1>1 DEF GridInv
        <2> QED BY <1>2, <2>1, <2>2, <2>3 DEF GridInv, GridFields
    <1> QED BY <1>1, <1>2, <1>3, <1>4, <1>5, <1>6, <1>7 DEF MasonryNext, ListChanged, handleResize

\* Whatever lists, widths and heights follow each other, and however late a redistribution is: each memo
\* of the list is in one place of the grid, and no column is higher than another by more than its last
\* memo, with the editor as high as it was when the memos were last dealt out (distributeItems.ts:26-45,
\* useMasonryLayout.ts:31-60).
THEOREM GridIsTrue == PageSpec => []GridTrue
    <1> DEFINE Inv == HasPart /\ GridInv
    <1>1. PageInit => Inv
        BY PartsInit, GridStart
    <1>2. Inv /\ [PageNext]_w => Inv'
        BY PartsStep, GridStep
    <1>3. Inv => GridTrue
        <2> SUFFICES ASSUME GridInv, IsPart("grid"), ~w.late
                     PROVE  /\ Len(w.grid) = w.columns
                            /\ \A i \in DOMAIN w.list : ShownOnce(i)
                            /\ w.timer = NoTimer /\ w.columns > 1 =>
                                   \A c, d \in 1..w.columns : HigherByOneMemo(c, d)
            BY DEF GridTrue
        <2>1. /\ w.list \in Lists /\ w.list \in Seq(GridMemos) /\ w.columns \in Nat \ {0}
              /\ w.heights \in Sizes /\ w.measured \in Nat
            BY GridConstants DEF GridInv
        <2>2. PICK heights \in Sizes :
                  /\ w.grid = distributeItemsToColumns(w.list, w.columns, heights, w.measured)
                  /\ w.timer = NoTimer => heights = w.heights
            BY DEF GridInv
        <2>3. GoodGrid(w.grid, w.list, w.columns, heights, w.measured)
            BY <2>1, <2>2, DistributedIs
        <2>4. /\ w.grid \in [1..w.columns -> Seq(1..Len(w.list))] /\ DOMAIN w.grid = 1..w.columns
              /\ \A c \in 1..w.columns : Len(w.grid[c]) <= Len(w.list)
              /\ \A i \in 1..Len(w.list) : DealtOnce(w.grid, i)
            BY <2>3 DEF GoodGrid, DealtOut
        <2>5. Len(w.grid) = w.columns
            BY <2>1, <2>4
        <2>6. ASSUME NEW i \in DOMAIN w.list PROVE ShownOnce(i)
            <3>1. i \in 1..Len(w.list) /\ DOMAIN w.list = 1..Len(w.list) /\ Len(w.list) \in Nat
                BY <2>1
            <3>2. DealtOnce(w.grid, i)
                BY <2>4, <3>1
            <3>3. PICK c \in DOMAIN w.grid, k \in Nat :
                      /\ IsAt(w.grid, i, c, k)
                      /\ \A d \in DOMAIN w.grid, l \in Nat : IsAt(w.grid, i, d, l) => d = c /\ l = k
                BY <3>2 DEF DealtOnce
            <3>4. c \in 1..w.columns /\ k \in DOMAIN w.list
                <4>1. w.grid[c] \in Seq(1..Len(w.list)) /\ Len(w.grid[c]) <= Len(w.list) /\ k \in DOMAIN w.grid[c]
                    BY <2>4, <3>3 DEF IsAt
                <4> QED BY <2>4, <3>1, <4>1
            <3> DEFINE P == {p \in (1..w.columns) \X DOMAIN w.list :
                                 p[2] \in DOMAIN w.grid[p[1]] /\ w.grid[p[1]][p[2]] = i}
            <3>5. P = {<<c, k>>}
                <4>1. <<c, k>> \in P
                    BY <3>3, <3>4 DEF IsAt
                <4>2. ASSUME NEW p \in P PROVE p = <<c, k>>
                    <5>1. p = <<p[1], p[2]>> /\ p[1] \in DOMAIN w.grid /\ p[2] \in Nat /\ IsAt(w.grid, i, p[1], p[2])
                        BY <2>4, <3>1 DEF IsAt
                    <5>2. p[1] = c /\ p[2] = k
                        BY <3>3, <5>1
                    <5> QED BY <5>1, <5>2
                <4> QED BY <4>1, <4>2
            <3>6. Cardinality(P) = 1
                BY <3>5, FS_Singleton
            <3> QED BY <3>6 DEF ShownOnce
        <2>7. ASSUME w.timer = NoTimer, w.columns > 1, NEW c \in 1..w.columns, NEW d \in 1..w.columns
              PROVE  HigherByOneMemo(c, d)
            <3>1. Leveled(w.grid, w.columns, w.list, w.heights, w.measured)
                BY <2>2, <2>3, <2>7 DEF GoodGrid
            <3> QED BY <3>1 DEF Leveled, HigherByOneMemo
        <2> QED BY <2>5, <2>6, <2>7
    <1> QED BY <1>1, <1>2, <1>3, PTL DEF PageSpec

(* ---- the tasks of a memo ---- *)
Docs == Seq(MemoLine)

\* A function that is one to one and onto says that two sets are equally large.
LEMMA EquallyMany ==
    ASSUME NEW S, IsFiniteSet(S), NEW T, NEW f \in [S -> T],
           \A x, y \in S : f[x] = f[y] => x = y, \A y \in T : \E x \in S : f[x] = y
    PROVE  Cardinality(T) = Cardinality(S)
    <1>1. f \in Bijection(S, T)
        BY Fun_IsBij
    <1>2. ExistsBijection(S, T)
        BY <1>1, Fun_ExistsBij
    <1> QED BY <1>2, FS_Bijection

LEMMA LinesAre ==
    /\ EmptyLine # Fence /\ EmptyLine \notin TaskLine /\ Fence \notin TaskLine
    /\ \A t \in TaskLine : t.done \in BOOLEAN /\ \A b \in BOOLEAN : [t EXCEPT !.done = b] \in TaskLine
    /\ TaskLine \subseteq MemoLine
    <1>1. EmptyLine.kind = "empty" /\ Fence.kind = "fence" /\ \A t \in TaskLine : t.kind = "task"
        BY DEF EmptyLine, Fence, TaskLine
    <1>2. ASSUME NEW t \in TaskLine PROVE t.done \in BOOLEAN /\ \A b \in BOOLEAN : [t EXCEPT !.done = b] \in TaskLine
        BY DEF TaskLine
    <1> QED BY <1>1, <1>2 DEF MemoLine

LEMMA TasksOf ==
    ASSUME NEW doc \in Docs
    PROVE  /\ TaskLines(doc) \subseteq DOMAIN doc /\ DOMAIN doc = 1..Len(doc) /\ Len(doc) \in Nat
           /\ \A i \in TaskLines(doc) : doc[i] \in TaskLine
           /\ DOMAIN extractTasksFromAst(doc) = 1..Cardinality(TaskLines(doc))
           /\ \A n \in DOMAIN extractTasksFromAst(doc) : extractTasksFromAst(doc)[n] \in TaskLines(doc)
           /\ ToSet(extractTasksFromAst(doc)) = TaskLines(doc)
           /\ RenderedTasks(doc) = extractTasksFromAst(doc)
    <1>1. TaskLines(doc) \subseteq DOMAIN doc /\ DOMAIN doc = 1..Len(doc) /\ Len(doc) \in Nat
        BY DEF TaskLines, Docs
    <1>2. \A i \in TaskLines(doc) : doc[i] \in TaskLine
        BY DEF TaskLines, IsTask, IsRoot, IsNested
    <1> DEFINE T == TaskLines(doc)
    <1>3. T \in SUBSET Nat /\ IsFiniteSet(T)
        <2>1. IsFiniteSet(1..Len(doc))
            BY <1>1, FS_Interval
        <2> QED BY <1>1, <2>1, FS_Subset
    <1> HIDE DEF T
    <1>4. /\ DOMAIN Ascending(T) = 1..Cardinality(T)
          /\ \A n \in 1..Cardinality(T) : Ascending(T)[n] \in T
          /\ \A x \in T : \E n \in 1..Cardinality(T) : Ascending(T)[n] = x
        BY <1>3, AscendingIs
    <1>5. ToSet(Ascending(T)) = T
        BY <1>4 DEF ToSet
    <1> QED BY <1>1, <1>2, <1>4, <1>5 DEF extractTasksFromAst, RenderedTasks, T

\* A click on the n-th task of the page changes its line only.
LEMMA TickedIs ==
    ASSUME NEW doc \in Docs, NEW n \in DOMAIN RenderedTasks(doc)
    PROVE  LET i == RenderedTasks(doc)[n]
               new == toggleTaskAtIndex(doc, n, ~doc[i].done)
           IN /\ i \in DOMAIN doc /\ i # 0
              /\ new \in Docs /\ DOMAIN new = DOMAIN doc
              /\ \A j \in DOMAIN doc :
                     new[j] = IF j = i /\ ~doc[j].numbered THEN [doc[j] EXCEPT !.done = ~@] ELSE doc[j]
    <1> DEFINE i == RenderedTasks(doc)[n]
               new == toggleTaskAtIndex(doc, n, ~doc[i].done)
    <1>1. /\ i \in DOMAIN doc /\ i # 0 /\ doc[i] \in TaskLine /\ n \in DOMAIN extractTasksFromAst(doc)
          /\ extractTasksFromAst(doc)[n] = i /\ DOMAIN doc = 1..Len(doc) /\ Len(doc) \in Nat
        <2>1. i \in TaskLines(doc)
            BY TasksOf
        <2>2. i \in DOMAIN doc /\ DOMAIN doc = 1..Len(doc) /\ Len(doc) \in Nat
            BY <2>1, TasksOf
        <2> QED BY <2>1, <2>2, TasksOf
    <1>2. new = IF ~doc[i].numbered THEN [doc EXCEPT ![i].done = ~doc[i].done] ELSE doc
        BY <1>1 DEF toggleTaskAtIndex, toggleTaskAtLine
    <1> HIDE DEF new, i
    <1>3. CASE doc[i].numbered
        BY <1>1, <1>2, <1>3 DEF new, i
    <1>4. CASE ~doc[i].numbered
        <2>1. new = [doc EXCEPT ![i] = [doc[i] EXCEPT !.done = ~doc[i].done]]
            BY <1>2, <1>4
        <2>2. [doc[i] EXCEPT !.done = ~doc[i].done] \in MemoLine
            BY <1>1, LinesAre
        <2>3. new \in Docs
            BY <1>1, <2>1, <2>2 DEF Docs
        <2>4. /\ DOMAIN new = DOMAIN doc
              /\ \A j \in DOMAIN doc :
                     new[j] = IF j = i THEN [doc[i] EXCEPT !.done = ~doc[i].done] ELSE doc[j]
            BY <1>1, <2>1
        <2> QED BY <1>1, <1>4, <2>3, <2>4 DEF new, i
    <1> QED BY <1>3, <1>4

\* What is kept when the finished tasks go, in its order: fences and tasks to do are.
LEMMA KeptIs ==
    ASSUME NEW doc \in Docs
    PROVE  LET kept == DOMAIN doc \ Dropped(doc)
               new == removeCompletedTasks(doc)
           IN /\ new \in Docs
              /\ RootsThat(new, TRUE) = {}
              /\ Cardinality(RootsThat(new, FALSE)) = Cardinality(RootsThat(doc, FALSE))
    <1> DEFINE kept == DOMAIN doc \ Dropped(doc)
               new == removeCompletedTasks(doc)
               n == Cardinality(kept)
               a == Ascending(kept)
    <1>1. doc \in Seq(MemoLine) /\ kept \in SUBSET DOMAIN doc /\ DOMAIN doc \in SUBSET Nat
        BY DEF Docs
    <1>2. /\ IsFiniteSet(kept) /\ n \in Nat /\ kept \in SUBSET Nat
          /\ new \in Docs /\ Len(new) = n
          /\ \A k \in 1..n : a[k] \in kept /\ new[k] = doc[a[k]]
        <2> HIDE DEF kept
        <2> QED BY <1>1, AtIs DEF removeCompletedTasks, Docs, kept
    <1>3. /\ \A i, j \in 1..n : (i < j <=> a[i] < a[j]) /\ (a[i] = a[j] => i = j)
          /\ \A x \in kept : \E i \in 1..n : a[i] = x
        <2> HIDE DEF kept
        <2> QED BY <1>2, AscendingIs
    <1>4. Finished(doc) = {i \in TaskLines(doc) : doc[i].done}
        BY TasksOf DEF Finished
    <1>5. \A i \in DOMAIN doc : doc[i] = Fence => i \in kept
        <2> SUFFICES ASSUME NEW i \in DOMAIN doc, doc[i] = Fence, i \in Dropped(doc) PROVE FALSE
            OBVIOUS
        <2>1. i \in Finished(doc) \/ doc[i] = EmptyLine
            BY DEF Dropped
        <2> QED BY <1>4, <2>1, LinesAre, TasksOf
    <1>6. \A i \in DOMAIN doc : IsRoot(doc, i) => (i \in kept <=> ~doc[i].done)
        <2> SUFFICES ASSUME NEW i \in DOMAIN doc, IsRoot(doc, i) PROVE i \in Dropped(doc) <=> doc[i].done
            OBVIOUS
        <2>1. i \in TaskLines(doc) /\ doc[i] \in TaskLine /\ doc[i] # EmptyLine
            BY LinesAre DEF TaskLines, IsTask, IsRoot
        <2> QED BY <1>4, <2>1 DEF Dropped
    <1>7. DOMAIN new = 1..n
        BY <1>2 DEF Docs
    <1> HIDE DEF kept, new, n, a
    <1>8. ASSUME NEW k \in 1..n PROVE InFence(new, k) <=> InFence(doc, a[k])
        <2> DEFINE S == {j \in 1..k : new[j] = Fence}
                   T == {j \in 1..a[k] : doc[j] = Fence}
                   f == [j \in S |-> a[j]]
        <2>1. a[k] \in DOMAIN doc /\ a[k] \in Nat /\ 1..a[k] \subseteq DOMAIN doc
            BY <1>1, <1>2, TasksOf
        <2>2. \A j \in 1..n : j <= k <=> a[j] <= a[k]
            <3> SUFFICES ASSUME NEW j \in 1..n PROVE j <= k <=> a[j] <= a[k]
                OBVIOUS
            <3>1. (j < k <=> a[j] < a[k]) /\ (a[j] = a[k] => j = k) /\ a[j] \in Nat /\ a[k] \in Nat
                BY <1>2, <1>3
            <3> QED BY <1>2, <3>1
        <2>3. S \subseteq 1..n /\ IsFiniteSet(S)
            <3>1. S \subseteq 1..n /\ S \in SUBSET (1..n)
                BY <1>2
            <3>2. IsFiniteSet(1..n)
                BY <1>2, FS_Interval
            <3> HIDE DEF S
            <3> QED BY <3>1, <3>2, FS_Subset
        <2>4. \A j \in S : a[j] \in T
            <3> SUFFICES ASSUME NEW j \in S PROVE a[j] \in T
                OBVIOUS
            <3>1. j \in 1..n /\ a[j] \in kept /\ doc[a[j]] = Fence /\ a[j] <= a[k]
                BY <1>2, <2>2, <2>3
            <3>2. a[j] \in 1..Len(doc)
                BY <1>1, <3>1, TasksOf
            <3> QED BY <2>1, <3>1, <3>2
        <2>5. \A y \in T : \E j \in S : a[j] = y
            <3> SUFFICES ASSUME NEW y \in T PROVE \E j \in S : a[j] = y
                OBVIOUS
            <3>1. y \in kept
                BY <1>5, <2>1
            <3>2. PICK j \in 1..n : a[j] = y
                BY <1>3, <3>1
            <3>3. new[j] = Fence /\ j <= k
                BY <1>2, <2>1, <2>2, <3>2
            <3> QED BY <3>2, <3>3
        <2>6. f \in [S -> T] /\ \A j \in S : f[j] = a[j]
            BY <2>4
        <2>7. \A x, y \in S : f[x] = f[y] => x = y
            BY <1>3, <2>3
        <2>8. Cardinality(T) = Cardinality(S)
            <3> HIDE DEF S, T, f
            <3>1. \A y \in T : \E x \in S : f[x] = y
                BY <2>5, <2>6
            <3>2. IsFiniteSet(S) /\ f \in [S -> T]
                BY <2>3, <2>6
            <3> QED BY <2>7, <3>1, <3>2, EquallyMany
        <2> QED BY <2>8 DEF InFence
    <1>9. \A k \in 1..n : IsRoot(new, k) <=> IsRoot(doc, a[k])
        BY <1>2, <1>8 DEF IsRoot
    <1>10. RootsThat(new, TRUE) = {}
        <2> SUFFICES ASSUME NEW k \in RootsThat(new, TRUE) PROVE FALSE
            OBVIOUS
        <2>1. k \in 1..n /\ IsRoot(new, k) /\ new[k].done = TRUE
            BY <1>7 DEF RootsThat
        <2>2. a[k] \in kept /\ a[k] \in DOMAIN doc /\ IsRoot(doc, a[k]) /\ doc[a[k]].done
            BY <1>1, <1>2, <1>9, <2>1
        <2> QED BY <1>6, <2>2
    <1>11. Cardinality(RootsThat(new, FALSE)) = Cardinality(RootsThat(doc, FALSE))
        <2> DEFINE S == RootsThat(new, FALSE)
                   T == RootsThat(doc, FALSE)
                   f == [k \in S |-> a[k]]
        <2>1. S \subseteq 1..n /\ \A k \in S : IsRoot(new, k) /\ new[k].done = FALSE
            BY <1>7 DEF RootsThat
        <2>2. IsFiniteSet(S)
            <3>1. IsFiniteSet(1..n)
                BY <1>2, FS_Interval
            <3> QED BY <2>1, <3>1, FS_Subset
        <2>3. \A k \in S : a[k] \in T
            BY <1>1, <1>2, <1>9, <2>1 DEF RootsThat
        <2>4. \A y \in T : \E k \in S : a[k] = y
            <3> SUFFICES ASSUME NEW y \in T PROVE \E k \in S : a[k] = y
                OBVIOUS
            <3>1. y \in DOMAIN doc /\ IsRoot(doc, y) /\ doc[y].done = FALSE
                BY DEF RootsThat
            <3>2. PICK k \in 1..n : a[k] = y
                BY <1>3, <1>6, <3>1
            <3>3. k \in S
                BY <1>2, <1>7, <1>9, <3>1, <3>2 DEF RootsThat
            <3> QED BY <3>2, <3>3
        <2> HIDE DEF S, T
        <2>5. f \in [S -> T] /\ \A k \in S : f[k] = a[k]
            BY <2>3
        <2>6. \A x, y \in S : f[x] = f[y] => x = y
            BY <1>3, <2>1
        <2> HIDE DEF f
        <2>7. Cardinality(T) = Cardinality(S)
            BY <2>2, <2>4, <2>5, <2>6, EquallyMany
        <2> QED BY <2>7 DEF S, T
    <1> QED BY <1>2, <1>10, <1>11 DEF new

TaskInv == IsPart("tasks") => {"acts", "doc", "clicked"} \subseteq DOMAIN w /\ w.doc \in Docs

LEMMA TaskStart == PageInit => TaskInv
    <1> SUFFICES ASSUME PageInit, IsPart("tasks") PROVE TaskInv
        BY DEF TaskInv
    <1>1. TasksInit
        BY OtherPartsInit DEF IsPart, PageInit, DialogsInit, WritingInit
    <1>2. PICK n \in 0..MaxLines :
              \E doc \in [1..n -> MemoLine] : w = [part |-> "tasks", acts |-> 0, doc |-> doc, clicked |-> 0]
        BY <1>1 DEF TasksInit
    <1>3. PICK doc \in [1..n -> MemoLine] : w = [part |-> "tasks", acts |-> 0, doc |-> doc, clicked |-> 0]
        BY <1>2
    <1>4. doc \in Seq(MemoLine)
        BY MaxLinesIsNat
    <1> QED BY <1>3, <1>4 DEF TaskInv, Docs

TaskChanges ==
    IF w'.clicked # 0
      THEN /\ DOMAIN w'.doc = DOMAIN w.doc
           /\ \A i \in DOMAIN w.doc :
                  IF i = w'.clicked /\ ~w.doc[i].numbered
                    THEN w'.doc[i] = [w.doc[i] EXCEPT !.done = ~@]
                    ELSE w'.doc[i] = w.doc[i]
      ELSE /\ RootsThat(w'.doc, TRUE) = {}
           /\ Cardinality(RootsThat(w'.doc, FALSE)) = Cardinality(RootsThat(w.doc, FALSE))

LEMMA TaskStep ==
    ASSUME HasPart, TaskInv, [PageNext]_w
    PROVE  TaskInv' /\ (IsPart("tasks") => w' = w \/ TaskChanges)
    <1> SUFFICES ASSUME IsPart("tasks") PROVE TaskInv' /\ (w' = w \/ TaskChanges)
        BY PartsStep DEF TaskInv, IsPart
    <1>1. /\ w' = w \/ TasksNext
          /\ {"acts", "doc", "clicked"} \subseteq DOMAIN w /\ w.doc \in Docs
        BY PartsStep DEF IsPart, TaskInv
    <1>2. CASE w' = w
        BY <1>2 DEF TaskInv, IsPart
    <1>3. ASSUME NEW n, handleChange(n) PROVE TaskInv' /\ TaskChanges
        <2> DEFINE i == RenderedTasks(w.doc)[n]
                   new == toggleTaskAtIndex(w.doc, n, ~w.doc[i].done)
        <2>1. n \in DOMAIN RenderedTasks(w.doc)
            BY <1>3 DEF handleChange
        <2>2. DOMAIN w' = DOMAIN w /\ w'.clicked = i /\ w'.doc = new
            BY <1>1, <1>3 DEF handleChange
        <2>3. /\ i \in DOMAIN w.doc /\ i # 0
              /\ new \in Docs /\ DOMAIN new = DOMAIN w.doc
              /\ \A j \in DOMAIN w.doc :
                     new[j] = IF j = i /\ ~w.doc[j].numbered THEN [w.doc[j] EXCEPT !.done = ~@] ELSE w.doc[j]
            BY <1>1, <2>1, TickedIs
        <2> HIDE DEF i, new
        <2> QED BY <1>1, <2>2, <2>3 DEF TaskInv, TaskChanges
    <1>4. CASE handleRemoveCompletedTaskListItems
        <2>1. DOMAIN w' = DOMAIN w /\ w'.clicked = 0 /\ w'.doc = removeCompletedTasks(w.doc)
            BY <1>1, <1>4 DEF handleRemoveCompletedTaskListItems
        <2>2. /\ removeCompletedTasks(w.doc) \in Docs
              /\ RootsThat(removeCompletedTasks(w.doc), TRUE) = {}
              /\ Cardinality(RootsThat(removeCompletedTasks(w.doc), FALSE)) = Cardinality(RootsThat(w.doc, FALSE))
            BY <1>1, KeptIs
        <2> QED BY <1>1, <2>1, <2>2 DEF TaskInv, TaskChanges
    <1> QED BY <1>1, <1>2, <1>3, <1>4 DEF TasksNext

\* In a memo of any length: a task ticked on the page changes its own line and no other, and the removal
\* of the finished tasks leaves none at the margin and all those to do
\* (TaskListItem.tsx:25-55, markdown-manipulation.ts:73-96).
THEOREM TasksAreTrue == PageSpec => TasksTrue
    <1> DEFINE Inv == HasPart /\ TaskInv
    <1>1. PageInit => Inv
        BY PartsInit, TaskStart
    <1>2. Inv /\ [PageNext]_w => Inv' /\ (IsPart("tasks") => w' = w \/ TaskChanges)
        BY PartsStep, TaskStep
    <1>3. Inv /\ [PageNext]_w => [IsPart("tasks") => TaskChanges]_w
        BY <1>2
    <1> QED BY <1>1, <1>2, <1>3, PTL DEF PageSpec, TasksTrue, TaskChanges

(* ---- the types of a page ---- *)
ActsInv ==
    /\ {"part", "acts"} \subseteq DOMAIN w
    /\ w.part \in PageParts /\ w.acts \in 0..MaxActs[w.part]

LEMMA ActsStart == PageInit => ActsInv
    <1> SUFFICES ASSUME PageInit PROVE ActsInv
        OBVIOUS
    <1>1. {"part", "acts"} \subseteq DOMAIN w /\ w.acts = 0
        BY DEF PageInit, FilterInit, Mounted, DialogsInit, ProfileInit, LinkInit, PlaceInit, WritingInit,
            LinesInit, TasksInit, SuggestInit, MasonryInit
    <1>2. w.part \in PageParts
        BY OtherPartsInit DEF PageInit, DialogsInit, WritingInit, IsPart, PageParts
    <1> QED BY <1>1, <1>2, MaxActsIsBound DEF ActsInv

\* A step is one of the user's, counted, or another one.
Counted == DOMAIN w' = DOMAIN w /\ (w'.acts = w.acts \/ (w.acts < MaxActs[w.part] /\ w'.acts = w.acts + 1))

LEMMA ActsStep ==
    ASSUME ActsInv, [PageNext]_w
    PROVE  ActsInv'
    <1>1. HasPart /\ "acts" \in DOMAIN w /\ w.acts \in Nat /\ MaxActs[w.part] \in Nat
        BY MaxActsIsBound DEF ActsInv, HasPart
    <1>2. w'.part = w.part
        BY <1>1, PartsStep
    <1>3. ASSUME Counted PROVE ActsInv'
        BY <1>1, <1>2, <1>3 DEF ActsInv, Counted
    <1> USE DEF Counted, May, IsPart
    <1>4. CASE FilterNext
        <2>1. IsPart("filters")
            BY <1>4 DEF FilterNext, RenderAddress, RenderState, RenderBoth, Render, handleTagClick, Search,
                handleRemoveFilter, NavLink, navigateToDateFilter, TagOfMemoPage, Back, ReloadPage
        <2>2. CASE RenderAddress \/ RenderState \/ RenderBoth
            BY <1>1, <1>3, <2>2 DEF RenderAddress, RenderState, RenderBoth, Render
        <2>3. ASSUME May("filters"), NEW u, Ask(u) PROVE Counted
            BY <1>1, <2>3 DEF Ask
        <2>4. ASSUME May("filters"), NEW loc, NEW hist, w' = Moved(loc, hist) PROVE Counted
            BY <1>1, <2>4 DEF Moved
        <2>5. ASSUME NEW t, handleTagClick(t) PROVE Counted
            BY <2>3, <2>5 DEF handleTagClick
        <2>6. ASSUME NEW words, Search(words) PROVE Counted
            BY <2>3, <2>6 DEF Search
        <2>7. ASSUME NEW f, handleRemoveFilter(f) PROVE Counted
            BY <2>3, <2>7 DEF handleRemoveFilter
        <2>8. ASSUME NEW p, NavLink(p) PROVE Counted
            BY <2>4, <2>8 DEF NavLink, Go
        <2>9. ASSUME NEW d, navigateToDateFilter(d) PROVE Counted
            BY <2>4, <2>9 DEF navigateToDateFilter, Go
        <2>10. ASSUME NEW t, NEW parent, TagOfMemoPage(t, parent) PROVE Counted
            BY <2>4, <2>10 DEF TagOfMemoPage, Go
        <2>11. ASSUME Back PROVE Counted
            BY <2>4, <2>11 DEF Back
        <2>12. CASE ReloadPage
            <3>1. {"part", "acts"} \subseteq DOMAIN w' /\ w'.acts = w.acts + 1 /\ w.acts < MaxActs[w.part]
                BY <2>12 DEF ReloadPage, Mounted
            <3> QED BY <1>1, <1>2, <3>1 DEF ActsInv
        <2> QED BY <1>3, <1>4, <2>2, <2>5, <2>6, <2>7, <2>8, <2>9, <2>10, <2>11, <2>12 DEF FilterNext
    <1>5. CASE ProfileNext
        BY <1>1, <1>3, <1>5 DEF ProfileNext, VisitProfile, VisitHome, ProfileFound, ProfileFailed, setProfileUserName
    <1>6. CASE LinkNext
        BY <1>1, <1>3, <1>6 DEF LinkNext, SetLinkOpen, setSearchText, LinkSearch, LinkFound, LinkFailed,
            addMemoRelation, Debounced
    <1>7. CASE PlaceNext
        BY <1>1, <1>3, <1>7 DEF PlaceNext, handleLocationClick, Geolocated, GeolocationFailed,
            handlePositionChange, fetchReverseGeocode, updateCoordinate, setPlaceholder, handleLocationConfirm,
            handleLocationCancel, DismissPlace, RemovePlace
    <1>8. CASE LinesNext
        BY <1>1, <1>3, <1>8 DEF LinesNext, Enter, MoveCaret, TypeText
    <1>9. CASE TasksNext
        BY <1>1, <1>3, <1>9 DEF TasksNext, handleChange, handleRemoveCompletedTaskListItems
    <1>10. CASE SuggestNext
        <2>1. ASSUME NEW state, DOMAIN state = DOMAIN w, state.acts = w.acts + 1, w' = Listing(state)
              PROVE  DOMAIN w' = DOMAIN w /\ w'.acts = w.acts + 1
            BY <2>1 DEF Listing
        <2>2. ASSUME NEW step, handleNavigation(step) PROVE Counted
            <3> DEFINE n == Len(w.list)
                       state == [w EXCEPT !.acts = @ + 1, !.sel = (@ + step + n) % n]
            <3>1. (w' = state \/ w' = Listing(state)) /\ w.acts < MaxActs[w.part]
                BY <2>2 DEF handleNavigation
            <3>2. DOMAIN state = DOMAIN w /\ state.acts = w.acts + 1
                BY <1>1
            <3> HIDE DEF state
            <3> QED BY <2>1, <3>1, <3>2
        <2>3. ASSUME NEW items, Rendered(items) PROVE Counted
            <3> DEFINE state == [w EXCEPT !.acts = @ + 1, !.items = items]
            <3>1. w' = Listing(state) /\ w.acts < MaxActs[w.part]
                BY <2>3 DEF Rendered
            <3>2. DOMAIN state = DOMAIN w /\ state.acts = w.acts + 1
                BY <1>1
            <3> HIDE DEF state
            <3> QED BY <2>1, <3>1, <3>2
        <2>4. ASSUME NEW word, handleInput(word) \/ ClickAt(word) \/ CaretKey(word) PROVE Counted
            <3>1. CASE handleInput(word)
                BY <1>1, <3>1 DEF handleInput, InputAt
            <3>2. CASE ClickAt(word)
                BY <1>1, <3>2 DEF ClickAt
            <3>3. CASE CaretKey(word)
                BY <1>1, <3>3 DEF CaretKey
            <3> QED BY <2>4, <3>1, <3>2, <3>3
        <2>5. ASSUME hide PROVE Counted
            BY <1>1, <2>5 DEF hide
        <2>6. ASSUME handleAutocomplete PROVE Counted
            BY <1>1, <2>6 DEF handleAutocomplete
        <2>7. ASSUME \E step \in {-1, 1} : handleNavigation(step) PROVE Counted
            BY <2>2, <2>7
        <2>8. ASSUME \E items \in Prefixes(Items) : Rendered(items) PROVE Counted
            BY <2>3, <2>8
        <2>9. ASSUME \E word \in Queries \cup {NoWord} : handleInput(word) \/ ClickAt(word) \/ CaretKey(word)
              PROVE  Counted
            BY <2>4, <2>9
        <2>10. Counted
            BY <1>10, <2>5, <2>6, <2>7, <2>8, <2>9 DEF SuggestNext
        <2> QED BY <1>3, <2>10
    <1>11. CASE MasonryNext
        BY <1>1, <1>3, <1>11 DEF MasonryNext, ListChanged, handleResize, redistributeMemos, handleHeightChange,
            PrefixChanged, Redistribute
    <1>12. CASE w' = w
        BY <1>3, <1>12
    <1> QED BY <1>4, <1>5, <1>6, <1>7, <1>8, <1>9, <1>10, <1>11, <1>12 DEF PageNext, DialogsNext, WritingNext

\* The filters never have one twice, and what was last copied to and from the address says the same, of
\* any tags, words and days (MemoFilterContext.tsx:36-108).
THEOREM PageTypes == PageSpec => []PageTypeOK
    <1> DEFINE Inv == HasPart /\ ActsInv /\ FilterInv
    <1>1. PageInit => Inv
        BY PartsInit, ActsStart, FilterStart
    <1>2. Inv /\ [PageNext]_w => Inv'
        BY PartsStep, ActsStep, FilterStep
    <1>3. Inv => PageTypeOK
        <2> SUFFICES ASSUME ActsInv, FilterInv PROVE FilterTypeOK
            BY DEF PageTypeOK, ActsInv
        <2> SUFFICES ASSUME IsPart("filters"), FilterTypes, Copied PROVE FilterTypeOK
            BY DEF FilterInv, FilterTypeOK
        <2>1. w.loc.path \in Paths /\ w.shown.loc.path \in Paths
            BY DEF FilterTypes, Routes
        <2>2. {w.loc.q.fs, w.shown.fs, w.pend.add, w.want} \subseteq FilterLists
            BY DEF FilterTypes, Routes, UrlQueries, Updates
        <2>3. \A fs \in FilterLists : ToSet(fs) \subseteq Every /\ IsInjective(fs)
            BY DEF FilterLists, ToSet
        <2>4. w.synced.url.fs = w.synced.store.fs
            BY DEF Copied, Str
        <2> QED BY <2>1, <2>2, <2>3, <2>4 DEF FilterTypeOK, FilterTypes
    <1> QED BY <1>1, <1>2, <1>3, PTL DEF PageSpec

-----------------------------------------------------------------------------
(* The memo editors.                                                           *)

(* ---- the inductive invariants ---- *)
\* The shape of the state; its bounds do not matter here.
Uploads    == Files \X Nat
SomeMemos  == [content : Nat, metas : SUBSET Metas, atts : SUBSET Uploads, time : Nat]
SomeStates == [open : BOOLEAN, content : Nat, metas : SUBSET Metas, atts : SUBSET Uploads,
               files : SUBSET Files, time : Nat \cup {None}, loading : BOOLEAN, saving : BOOLEAN]
SomeJobs   == [pc : {"idle", "upload", "get", "put", "answered", "settling"}, live : BOOLEAN,
               state : SomeStates, new : SUBSET Uploads, prev : SomeMemos \cup {None}]

Shape ==
    /\ ed \in [Editors -> SomeStates] /\ job \in [Editors -> SomeJobs]
    /\ pending \in {None} \cup (Editors \X Nat) /\ draft \in Nat /\ memo \in SomeMemos
    /\ posted \in [Texts \cup {Blank} -> Nat] /\ uploads \in [Files -> Nat]
    /\ ntyped \in 0..MaxTyped
    /\ missed \in BOOLEAN /\ fault \in BOOLEAN

\* What matters of the editor of new memos and of its save, for DraftKept and PostedOnce.
Content == ed["new"].content
IsOpen  == ed["new"].open
Pc      == job["new"].pc
Live    == job["new"].live
Saved   == job["new"].state.content
Stores  == pending # None /\ pending[1] = "new"    \* the timer will store a draft

\* Texts not typed yet are nowhere.
Fresh ==
    /\ draft <= ntyped /\ Content <= ntyped /\ Saved <= ntyped
    /\ Stores => pending[2] <= ntyped
    /\ \A t \in Texts : t > ntyped => posted[t] = 0

\* A text that was posted is not on its way to a second post.
Saving(t) == Pc # "idle" /\ Saved = t

PostedInv ==
    \A t \in Texts \ twice :
        /\ posted[t] <= 1
        /\ Saving(t) /\ ~Live => Content # t
        /\ posted[t] = 1 /\ Content = t => Saving(t)
        /\ posted[t] = 1 /\ Saving(t) => Pc \in {"answered", "settling"}
        /\ Content = t => IsOpen

\* The draft follows the editor, up to the store that waits.
DraftInv ==
    /\ IsOpen /\ ~missed =>
          IF Stores THEN pending[2] = Content
          ELSE draft = Content \/ (Pc = "settling" /\ Live /\ Content # Blank)
    /\ Pc # "idle" /\ Live => IsOpen
    /\ \A t \in Texts : posted[t] > 0 /\ t \notin spoilt =>
           \/ draft # t /\ ~(Stores /\ pending[2] = t)
           \/ Saving(t) /\ Pc = "answered"

\* An attachment is linked to a memo or on its way to one.
Carrying(e) == job[e].pc \in {"upload", "get", "put"}

OrphanInv ==
    /\ memo.atts \subseteq linked
    /\ job["edit"].pc = "put" => job["edit"].prev \in SomeMemos /\ job["edit"].prev.atts \subseteq linked
    /\ job["new"].pc # "get"
    /\ ~fault => \A f \in Files : \A n \in 1..uploads[f] :
                     <<f, n>> \in linked \/ \E e \in Editors : Carrying(e) /\ <<f, n>> \in job[e].new

(* ---- the shape of the state ---- *)
LEMMA Bounds == MaxTyped \in Nat /\ MaxSteps \in Nat
    BY EditorAssumption

LEMMA ClosedShape == /\ Closed \in SomeStates /\ NoJob \in SomeJobs
                     /\ Closed.open = FALSE /\ Closed.content = Blank
                     /\ NoJob.pc = "idle" /\ NoJob.state = Closed /\ NoJob.live = FALSE
    <1>1. Closed \in SomeStates
        BY DEF Closed, SomeStates, Blank
    <1>2. Closed.open = FALSE /\ Closed.content = Blank
        BY DEF Closed
    <1> HIDE DEF Closed
    <1>3. NoJob \in SomeJobs /\ NoJob.pc = "idle" /\ NoJob.state = Closed /\ NoJob.live = FALSE
        BY <1>1 DEF NoJob, SomeJobs
    <1> QED BY <1>1, <1>2, <1>3

\* What a change of one field leaves in shape.
LEMMA StateShape ==
    ASSUME NEW d \in SomeStates
    PROVE  /\ \A c \in Nat : [d EXCEPT !.content = c] \in SomeStates
           /\ \A m \in SUBSET Metas : [d EXCEPT !.metas = m] \in SomeStates
           /\ \A a \in SUBSET Uploads : [d EXCEPT !.atts = a] \in SomeStates
           /\ \A f \in SUBSET Files : [d EXCEPT !.files = f] \in SomeStates
           /\ \A b \in BOOLEAN : /\ [d EXCEPT !.saving = b] \in SomeStates
                                 /\ [d EXCEPT !.loading = b] \in SomeStates
                                 /\ [d EXCEPT !.open = b] \in SomeStates
    BY DEF SomeStates

LEMMA JobShape ==
    ASSUME NEW j \in SomeJobs
    PROVE  /\ \A l \in {"idle", "upload", "get", "put", "answered", "settling"} :
                 [j EXCEPT !.pc = l] \in SomeJobs
           /\ \A b \in BOOLEAN : [j EXCEPT !.live = b] \in SomeJobs
           /\ \A m \in SomeMemos : [j EXCEPT !.pc = "put", !.prev = m] \in SomeJobs
           /\ \A n \in SUBSET Uploads, l \in {"upload", "get", "put"} :
                 [j EXCEPT !.new = n, !.pc = l] \in SomeJobs
    BY DEF SomeJobs

LEMMA LoadedShape ==
    ASSUME NEW d \in SomeStates, NEW m \in SomeMemos
    PROVE  LoadedState(d, m) \in SomeStates
    BY DEF LoadedState, SomeStates, SomeMemos

LEMMA StartedShape ==
    ASSUME NEW d \in SomeStates, NEW l \in {"upload", "get", "put"}
    PROVE  [NoJob EXCEPT !.pc = l, !.live = TRUE, !.state = d] \in SomeJobs
    <1>1. NoJob \in SomeJobs
        BY ClosedShape
    <1> QED BY <1>1 DEF SomeJobs

LEMMA AutoSaveShape ==
    ASSUME Shape, NEW e \in Editors, NEW text \in Nat, AutoSave(e, text)
    PROVE  pending' \in {None} \cup (Editors \X Nat) /\ missed' \in BOOLEAN
    BY DEF AutoSave, Shape, Blank

LEMMA AbandonShape == ASSUME Shape, NEW e \in Editors PROVE Abandon(e) \in [Editors -> SomeJobs]
    <1>1. job[e] \in SomeJobs /\ [job[e] EXCEPT !.live = FALSE] \in SomeJobs /\ NoJob \in SomeJobs
        BY JobShape, ClosedShape DEF Shape
    <1> QED BY <1>1 DEF Abandon, Shape

LEMMA FinallyShape == ASSUME Shape, NEW e \in Editors PROVE Finally(e) \in [Editors -> SomeStates]
    <1>1. [ed[e] EXCEPT !.saving = FALSE] \in SomeStates
        BY StateShape DEF Shape
    <1> QED BY <1>1 DEF Finally, Shape

LEMMA StartShape == ASSUME Shape, NEW S \in SUBSET Editors, Start(S) PROVE Shape'
    <1>1. \A e \in Editors : /\ [ed[e] EXCEPT !.saving = TRUE] \in SomeStates
                             /\ \A l \in {"upload", "get", "put"} :
                                  [NoJob EXCEPT !.pc = l, !.live = TRUE, !.state = ed[e]] \in SomeJobs
        BY StateShape, StartedShape DEF Shape
    <1>2. ed' \in [Editors -> SomeStates]
        BY <1>1 DEF Start, Shape
    <1>3. job' \in [Editors -> SomeJobs]
        BY <1>1 DEF Start, Shape, Uploaded
    <1> QED BY <1>2, <1>3 DEF Start, Shape, server, ghosts

LEMMA ChangeShape ==
    ASSUME Shape, NEW e \in Editors, NEW d \in SomeStates, NEW part, Change(e, d, part)
    PROVE  ed' \in [Editors -> SomeStates]
    BY DEF Change, Shape

LEMMA ShapeInit == Init => Shape
    <1> SUFFICES ASSUME Init PROVE Shape
        OBVIOUS
    <1>1. ed \in [Editors -> SomeStates] /\ job \in [Editors -> SomeJobs]
        BY ClosedShape DEF Init
    <1>2. memo \in SomeMemos
        BY Bounds DEF Init, SomeMemos, Loaded0, Uploads
    <1>3. posted \in [Texts \cup {Blank} -> Nat] /\ uploads \in [Files -> Nat]
        BY DEF Init
    <1>4. pending = None /\ draft = 0 /\ ntyped = 0 /\ 0 \in 0..MaxTyped
        BY Bounds DEF Init, Blank
    <1>5. missed = FALSE /\ fault = FALSE
        BY DEF Init
    <1> QED BY <1>1, <1>2, <1>3, <1>4, <1>5 DEF Shape

LEMMA ShapeStep == Shape /\ [Next]_vars => Shape'
    <1> SUFFICES ASSUME Shape, [Next]_vars PROVE Shape'
        OBVIOUS
    <1> USE Bounds DEF server, ghosts
    <1>0. CASE UNCHANGED vars
        BY <1>0 DEF vars, Shape
    <1>1. CASE OpenNew
        <2>1. [Closed EXCEPT !.open = TRUE, !.content = draft] \in SomeStates
            BY ClosedShape DEF SomeStates, Shape
        <2>2. pending' \in {None} \cup (Editors \X Nat) /\ missed' \in BOOLEAN
            BY <1>1, AutoSaveShape DEF OpenNew, Shape, Editors
        <2> QED BY <1>1, <2>1, <2>2 DEF OpenNew, Shape
    <1>2. CASE OpenEdit
        <2>1. [Closed EXCEPT !.open = TRUE, !.loading = TRUE] \in SomeStates
            BY ClosedShape DEF SomeStates
        <2>2. pending' \in {None} \cup (Editors \X Nat) /\ missed' \in BOOLEAN
            BY <1>2, AutoSaveShape DEF OpenEdit, Blank, Editors
        <2> QED BY <1>2, <2>1, <2>2 DEF OpenEdit, Shape
    <1>3. CASE Loaded
        <2>1. LoadedState(ed["edit"], memo) \in SomeStates /\ memo.content \in Nat
            BY LoadedShape DEF Shape, Editors, SomeMemos
        <2>2. pending' \in {None} \cup (Editors \X Nat) /\ missed' \in BOOLEAN
            BY <1>3, <2>1, AutoSaveShape DEF Loaded, Editors
        <2> QED BY <1>3, <2>1, <2>2 DEF Loaded, Shape
    <1>4. CASE LoadFailed
        <2>1. [ed["edit"] EXCEPT !.loading = FALSE] \in SomeStates
            BY StateShape DEF Shape, Editors
        <2>2. ed' = [ed EXCEPT !["edit"] = [ed["edit"] EXCEPT !.loading = FALSE]]
            BY <1>4 DEF LoadFailed, Shape, Editors
        <2>3. ed' \in [Editors -> SomeStates]
            BY <2>1, <2>2 DEF Shape
        <2> QED BY <1>4, <2>3 DEF LoadFailed, Shape
    <1>5. CASE Fire
        BY <1>5 DEF Fire, Store, Shape
    <1>6. CASE Reload
        <2>1. ed' \in [Editors -> SomeStates] /\ job' \in [Editors -> SomeJobs]
            BY <1>6, ClosedShape DEF Reload
        <2> QED BY <1>6, <2>1 DEF Reload, Shape
    <1>7. CASE SaveKeys
        BY <1>7, StartShape DEF SaveKeys
    <1>8. CASE Create
        <2>1. [job["new"] EXCEPT !.pc = "answered"] \in SomeJobs
            BY JobShape DEF Shape, Editors
        <2>2. job' = [job EXCEPT !["new"] = [job["new"] EXCEPT !.pc = "answered"]]
            BY <1>8 DEF Create, Shape, Editors
        <2>3. posted' \in [Texts \cup {Blank} -> Nat]
            <3> DEFINE t == job["new"].state.content
            <3>1. posted' = [posted EXCEPT ![t] = posted[t] + 1]
                BY <1>8 DEF Create
            <3>2. posted \in [Texts \cup {Blank} -> Nat]
                BY DEF Shape
            <3>3. \A u \in Texts \cup {Blank} : posted[u] \in Nat /\ posted[u] + 1 \in Nat
                BY <3>2
            <3>4. \A u \in Texts \cup {Blank} :
                    posted'[u] = IF u = t THEN posted[u] + 1 ELSE posted[u]
                <4> HIDE DEF t
                <4> QED BY <3>1, <3>2
            <3>5. posted' = [u \in Texts \cup {Blank} |-> posted'[u]]
                <4> HIDE DEF t
                <4> QED BY <3>1, <3>2
            <3> HIDE DEF t
            <3>6. \A u \in Texts \cup {Blank} : posted'[u] \in Nat
                BY <3>3, <3>4
            <3> QED BY <3>5, <3>6
        <2> QED BY ZenonT(90), <1>8, <2>1, <2>2, <2>3 DEF Create, Shape
    <1>9. CASE GetMemo
        <2>1. [job["edit"] EXCEPT !.pc = "put", !.prev = memo] \in SomeJobs
            BY JobShape DEF Shape, Editors
        <2>2. job' = [job EXCEPT !["edit"] = [job["edit"] EXCEPT !.pc = "put", !.prev = memo]]
            BY <1>9 DEF GetMemo, Shape, Editors
        <2> QED BY <1>9, <2>1, <2>2 DEF GetMemo, Shape
    <1>10. CASE NoChanges
        BY <1>10, ClosedShape DEF NoChanges, Shape
    <1>11. ASSUME NEW e \in Editors, Close(e) PROVE Shape'
        BY <1>11, ClosedShape, AbandonShape DEF Close, Shape
    <1>12. ASSUME NEW e \in Editors, SaveButton(e) PROVE Shape'
        BY <1>12, StartShape DEF SaveButton
    <1>13. ASSUME NEW e \in Editors, Answered(e) PROVE Shape'
        <2>1. [job[e] EXCEPT !.pc = "settling"] \in SomeJobs
            BY JobShape DEF Shape
        <2>2. job' = [job EXCEPT ![e] = [job[e] EXCEPT !.pc = "settling"]]
            BY <1>13 DEF Answered, Shape
        <2>3. draft' \in Nat /\ missed' \in BOOLEAN
            BY <1>13 DEF Answered, Clear, Blank, Shape
        <2> QED BY <1>13, <2>1, <2>2, <2>3 DEF Answered, Shape
    <1>14. ASSUME NEW e \in Editors, Settled(e) PROVE Shape'
        <2>1. Reset(ed[e]) \in SomeStates /\ Closed \in SomeStates
            BY ClosedShape, StateShape DEF Reset
        <2>2. ed' \in [Editors -> SomeStates]
            BY <1>14, <2>1 DEF Settled, Shape
        <2>3. pending' \in {None} \cup (Editors \X Nat) /\ missed' \in BOOLEAN
            <3>1. ed'[e].content \in Nat
                BY <2>2 DEF SomeStates
            <3> QED BY <1>14, <3>1, AutoSaveShape DEF Settled, Shape
        <2> QED BY <1>14, <2>2, <2>3, ClosedShape DEF Settled, Shape
    <1>15. ASSUME NEW e \in Editors, Fail(e) PROVE Shape'
        BY <1>15, ClosedShape, FinallyShape DEF Fail, Shape
    <1>16. ASSUME NEW e \in Editors, NEW text \in 0..MaxTyped, Type(e, text) PROVE Shape'
        <2>1. [ed[e] EXCEPT !.content = text] \in SomeStates
            BY StateShape DEF Shape
        <2>2. pending' \in {None} \cup (Editors \X Nat) /\ missed' \in BOOLEAN
            BY <1>16, AutoSaveShape DEF Type
        <2>3. ed' \in [Editors -> SomeStates]
            BY <1>16, <2>1, ChangeShape DEF Type
        <2> QED BY <1>16, <2>2, <2>3 DEF Type, Shape
    <1>17. ASSUME NEW e \in Editors, NEW x \in Metas, SetMeta(e, x) PROVE Shape'
        <2>1. [ed[e] EXCEPT !.metas = (ed[e].metas \cup {x}) \ (ed[e].metas \cap {x})] \in SomeStates
            <3>1. ed[e] \in SomeStates /\ ed[e].metas \in SUBSET Metas
                BY DEF Shape, SomeStates
            <3>2. (ed[e].metas \cup {x}) \ (ed[e].metas \cap {x}) \in SUBSET Metas
                BY <3>1
            <3> QED BY <3>1, <3>2, StateShape
        <2>2. ed' \in [Editors -> SomeStates]
            BY <1>17, <2>1, ChangeShape DEF SetMeta
        <2> QED BY <1>17, <2>2 DEF SetMeta, Shape
    <1>18. ASSUME NEW e \in Editors, NEW f \in Files, AddFile(e, f) \/ RemoveFile(e, f) PROVE Shape'
        <2>1. /\ [ed[e] EXCEPT !.files = ed[e].files \cup {f}] \in SomeStates
              /\ [ed[e] EXCEPT !.files = ed[e].files \ {f}] \in SomeStates
            <3>1. ed[e] \in SomeStates /\ ed[e].files \in SUBSET Files
                BY DEF Shape, SomeStates
            <3> QED BY <3>1, StateShape
        <2>2. ed' \in [Editors -> SomeStates]
            BY <1>18, <2>1, ChangeShape DEF AddFile, RemoveFile
        <2> QED BY <1>18, <2>2 DEF AddFile, RemoveFile, Shape
    <1>19. ASSUME NEW e \in Editors, NEW f \in Files, Upload(e, f) PROVE Shape'
        <2> DEFINE new == job[e].new \cup {<<f, uploads[f] + 1>>}
        <2>1. PICK l \in {"upload", "get", "put"} :
                job' = [job EXCEPT ![e].new = new, ![e].pc = l]
            BY <1>19 DEF Upload, Uploaded
        <2>2. job[e] \in SomeJobs /\ new \in SUBSET Uploads
            BY DEF Shape, SomeJobs, Uploads
        <2>3. job' = [job EXCEPT ![e] = [job[e] EXCEPT !.new = new, !.pc = l]]
            BY <2>1 DEF Shape
        <2>4. [job[e] EXCEPT !.new = new, !.pc = l] \in SomeJobs
            <3> HIDE DEF new
            <3>1. \A n \in SUBSET Uploads, k \in {"upload", "get", "put"} :
                    [job[e] EXCEPT !.new = n, !.pc = k] \in SomeJobs
                BY <2>2, JobShape
            <3>2. l \in {"upload", "get", "put"}
                BY <2>1
            <3> QED BY <2>2, <3>1, <3>2
        <2>5. job' \in [Editors -> SomeJobs]
            BY <2>3, <2>4 DEF Shape
        <2>6. uploads' \in [Files -> Nat]
            BY <1>19 DEF Upload, Shape
        <2> HIDE DEF new
        <2> QED BY <1>19, <2>5, <2>6 DEF Upload, Shape
    <1>20. ASSUME NEW e \in Editors, NEW a \in Attachments, RemoveAttachment(e, a) PROVE Shape'
        <2>1. [ed[e] EXCEPT !.atts = ed[e].atts \ {a}] \in SomeStates
            <3>1. ed[e] \in SomeStates /\ ed[e].atts \in SUBSET Uploads
                BY DEF Shape, SomeStates
            <3> QED BY <3>1, StateShape
        <2>2. ed' \in [Editors -> SomeStates]
            BY <1>20, <2>1, ChangeShape DEF RemoveAttachment
        <2> QED BY <1>20, <2>2 DEF RemoveAttachment, Shape
    <1>21. ASSUME NEW x \in Metas, OtherWrite(x) PROVE Shape'
        <2>1. memo' \in SomeMemos
            <3> DEFINE m == (memo.metas \cup {x}) \ (memo.metas \cap {x})
            <3>1. memo \in SomeMemos /\ m \in SUBSET Metas /\ Clock \subseteq Nat
                BY DEF Shape, SomeMemos, Clock
            <3>2. PICK now \in Clock : memo' = [memo EXCEPT !.metas = m, !.time = now]
                BY <1>21 DEF OtherWrite
            <3> HIDE DEF m
            <3> QED BY <3>1, <3>2 DEF SomeMemos
        <2> QED BY <1>21, <2>1 DEF OtherWrite, Shape
    <1>22. CASE Update
        <2>1. [job["edit"] EXCEPT !.pc = "answered"] \in SomeJobs
            BY JobShape DEF Shape, Editors
        <2>2. job' = [job EXCEPT !["edit"] = [job["edit"] EXCEPT !.pc = "answered"]]
            BY <1>22 DEF Update, Shape, Editors
        <2>3. ASSUME NEW now \in Clock PROVE Stamp(job["edit"], now) \in Nat
            <3>1. job["edit"].state.time \in Nat \cup {None} /\ memo.time \in Nat
                BY DEF Shape, Editors, SomeJobs, SomeStates, SomeMemos
            <3> QED BY <2>3, <3>1 DEF Stamp, Outdated, Clock
        <2>4. AllAttachments(job["edit"]) \in SUBSET Uploads /\ job["edit"].state \in SomeStates
            BY DEF Shape, Editors, SomeJobs, SomeStates, AllAttachments
        <2>5. memo' \in SomeMemos
            BY <1>22, <2>3, <2>4 DEF Update, Shape, SomeMemos, SomeStates
        <2> QED BY <1>22, <2>1, <2>2, <2>5 DEF Update, Shape
    <1> QED
        BY <1>0, <1>1, <1>2, <1>3, <1>4, <1>5, <1>6, <1>7, <1>8, <1>9, <1>10, <1>11, <1>12, <1>13,
           <1>14, <1>15, <1>16, <1>17, <1>18, <1>19, <1>20, <1>21, <1>22
        DEF Next

THEOREM Shaped == Spec => []Shape
    <1> QED BY ShapeInit, ShapeStep, PTL DEF Spec

(* ---- NoOrphans ---- *)
\* What an attachment on its way may become in a step.
Kept(e) == \A a \in job[e].new :
               Carrying(e) => a \in linked' \/ (Carrying(e)' /\ a \in job'[e].new)

LEMMA OrphanKept ==
    ASSUME OrphanInv, linked \subseteq linked', uploads' = uploads, fault => fault',
           \A e \in Editors : Kept(e)
    PROVE  ~fault' => \A f \in Files : \A n \in 1..uploads'[f] :
               <<f, n>> \in linked' \/ \E e \in Editors : Carrying(e)' /\ <<f, n>> \in job'[e].new
    <1> SUFFICES ASSUME ~fault', NEW f \in Files, NEW n \in 1..uploads'[f]
                 PROVE  <<f, n>> \in linked' \/ \E e \in Editors : Carrying(e)' /\ <<f, n>> \in job'[e].new
        OBVIOUS
    <1>1. <<f, n>> \in linked \/ \E e \in Editors : Carrying(e) /\ <<f, n>> \in job[e].new
        BY DEF OrphanInv
    <1> QED BY <1>1 DEF Kept

LEMMA OrphanFrame ==
    ASSUME OrphanInv, UNCHANGED <<memo, linked, uploads, job>>, fault => fault'
    PROVE  OrphanInv'
    <1>1. ~fault' => \A f \in Files : \A n \in 1..uploads'[f] :
              <<f, n>> \in linked' \/ \E e \in Editors : Carrying(e)' /\ <<f, n>> \in job'[e].new
        BY OrphanKept DEF Kept, Carrying
    <1> QED BY <1>1 DEF OrphanInv, Carrying

LEMMA OrphanStart == ASSUME Shape, OrphanInv, NEW S \in SUBSET Editors, Start(S) PROVE OrphanInv'
    <1>1. \A e \in Editors : /\ e \in S => job[e].pc = "idle" /\ job'[e].pc \in {"upload", Uploaded(e)}
                             /\ e \notin S => job'[e] = job[e]
        <2> SUFFICES ASSUME NEW e \in Editors, e \in S
                     PROVE  job'[e].pc \in {"upload", Uploaded(e)}
            BY DEF Start
        <2>1. job'[e] = [NoJob EXCEPT !.pc = IF ed[e].files = {} THEN Uploaded(e) ELSE "upload",
                                      !.live = TRUE, !.state = ed[e]]
            BY DEF Start
        <2> QED BY <2>1 DEF NoJob
    <1>2. UNCHANGED <<memo, linked, uploads, fault>>
        BY DEF Start, server, ghosts
    <1>3. \A e \in Editors : Kept(e)
        BY <1>1 DEF Kept, Carrying
    <1>4. ~fault' => \A f \in Files : \A n \in 1..uploads'[f] :
              <<f, n>> \in linked' \/ \E e \in Editors : Carrying(e)' /\ <<f, n>> \in job'[e].new
        BY <1>2, <1>3, OrphanKept
    <1>5. job'["new"].pc # "get"
        BY <1>1 DEF Uploaded, Editors, OrphanInv
    <1>6. job'["edit"].pc = "put" => job'["edit"] = job["edit"]
        BY <1>1 DEF Uploaded, Editors
    <1> QED BY <1>2, <1>4, <1>5, <1>6 DEF OrphanInv

LEMMA OrphanInit == Init => OrphanInv
    <1> SUFFICES ASSUME Init PROVE OrphanInv
        OBVIOUS
    <1>1. job["edit"].pc = "idle" /\ job["new"].pc = "idle"
        BY ClosedShape DEF Init, Editors
    <1>2. \A f \in Files : 1..uploads[f] = {}
        BY DEF Init
    <1> QED BY <1>1, <1>2 DEF Init, OrphanInv

LEMMA OrphanStep == Shape /\ OrphanInv /\ [Next]_vars => OrphanInv'
    <1> SUFFICES ASSUME Shape, OrphanInv, [Next]_vars PROVE OrphanInv'
        OBVIOUS
    <1> USE DEF server, ghosts
    <1>0. CASE UNCHANGED vars
        BY <1>0, OrphanFrame DEF vars
    <1>1. CASE OpenNew \/ OpenEdit \/ Loaded \/ LoadFailed \/ Fire
        BY <1>1, OrphanFrame DEF OpenNew, OpenEdit, Loaded, LoadFailed, Fire
    <1>2. CASE Reload
        <2>1. job' = [e \in Editors |-> NoJob]
            BY <1>2 DEF Reload
        <2>2. job'["edit"].pc = "idle" /\ job'["new"].pc = "idle"
            BY <2>1, ClosedShape DEF Editors
        <2> QED BY <1>2, <2>2 DEF Reload, OrphanInv
    <1>3. CASE SaveKeys
        BY <1>3, OrphanStart DEF SaveKeys
    <1>4. CASE Create
        <2>1. \A e \in Editors : e # "new" => job'[e] = job[e]
            BY <1>4 DEF Create, Shape
        <2>2. job'["new"].pc = "answered"
            BY <1>4 DEF Create, Shape, Editors, SomeJobs
        <2>3. linked' = linked \cup job["new"].state.atts \cup job["new"].new
            BY <1>4 DEF Create, AllAttachments
        <2>4. \A e \in Editors : Kept(e)
            BY <2>1, <2>3 DEF Kept, Carrying
        <2>5. ~fault' => \A f \in Files : \A n \in 1..uploads'[f] :
                  <<f, n>> \in linked' \/ \E e \in Editors : Carrying(e)' /\ <<f, n>> \in job'[e].new
            BY <1>4, <2>3, <2>4, OrphanKept DEF Create
        <2> QED BY <1>4, <2>1, <2>2, <2>3, <2>5 DEF Create, OrphanInv, Editors
    <1>5. CASE GetMemo
        <2>1. job'["new"] = job["new"] /\ job'["edit"].pc = "put" /\ job'["edit"].prev = memo
              /\ job'["edit"].new = job["edit"].new
            BY <1>5 DEF GetMemo, Shape, Editors, SomeJobs
        <2>2. \A e \in Editors : Kept(e)
            BY <2>1 DEF Kept, Carrying, Editors
        <2>3. ~fault' => \A f \in Files : \A n \in 1..uploads'[f] :
                  <<f, n>> \in linked' \/ \E e \in Editors : Carrying(e)' /\ <<f, n>> \in job'[e].new
            BY <1>5, <2>2, OrphanKept DEF GetMemo
        <2> QED BY <1>5, <2>1, <2>3 DEF GetMemo, OrphanInv, Shape
    <1>6. CASE NoChanges
        <2>1. job'["new"] = job["new"] /\ job'["edit"].pc = "idle"
            BY <1>6, ClosedShape DEF NoChanges, Shape, Editors
        <2>2. job["edit"].pc = "put" /\ AllAttachments(job["edit"]) = job["edit"].prev.atts
            BY <1>6 DEF NoChanges, Unchanged, Changed, Parts
        <2>3. job["edit"].new \subseteq linked
            BY <2>2 DEF AllAttachments, OrphanInv
        <2>4. \A e \in Editors : Kept(e)
            BY <1>6, <2>1, <2>3 DEF Kept, Carrying, Editors, NoChanges
        <2>5. ~fault' => \A f \in Files : \A n \in 1..uploads'[f] :
                  <<f, n>> \in linked' \/ \E e \in Editors : Carrying(e)' /\ <<f, n>> \in job'[e].new
            BY <1>6, <2>4, OrphanKept DEF NoChanges
        <2> QED BY <1>6, <2>1, <2>5 DEF NoChanges, OrphanInv
    <1>7. CASE Update
        <2>1. job'["new"] = job["new"] /\ job'["edit"].pc = "answered"
            BY <1>7 DEF Update, Shape, Editors, SomeJobs
        <2>2. job["edit"].pc = "put" /\ linked' = linked \cup memo'.atts
            BY <1>7 DEF Update
        <2>3. memo'.atts = IF "atts" \in Changed(job["edit"]) THEN AllAttachments(job["edit"]) ELSE memo.atts
            BY <1>7 DEF Update
        <2>4. "atts" \notin Changed(job["edit"]) =>
                  AllAttachments(job["edit"]) = job["edit"].prev.atts
            BY DEF Changed, Parts
        <2>5. job["edit"].new \subseteq linked'
            BY <2>2, <2>3, <2>4 DEF AllAttachments, OrphanInv
        <2>6. \A e \in Editors : Kept(e)
            BY <2>1, <2>2, <2>5 DEF Kept, Carrying, Editors
        <2>7. ~fault' => \A f \in Files : \A n \in 1..uploads'[f] :
                  <<f, n>> \in linked' \/ \E e \in Editors : Carrying(e)' /\ <<f, n>> \in job'[e].new
            BY <1>7, <2>2, <2>6, OrphanKept DEF Update
        <2> QED BY <2>1, <2>2, <2>7 DEF OrphanInv
    <1>8. ASSUME NEW e \in Editors, Close(e) PROVE OrphanInv'
        <2>1. \A c \in Editors : /\ job'[c].pc = job[c].pc
                                 /\ job[c].pc # "idle" => job'[c].new = job[c].new /\ job'[c].prev = job[c].prev
            <3>1. \A c \in Editors : c # e => job'[c] = job[c]
                BY <1>8 DEF Close, Abandon, Shape
            <3>2. job'[e] = IF job[e].pc = "idle" THEN NoJob ELSE [job[e] EXCEPT !.live = FALSE]
                BY <1>8 DEF Close, Abandon, Shape
            <3>3. job[e] \in SomeJobs
                BY DEF Shape
            <3>4. job'[e].pc = job[e].pc
                BY <3>2, <3>3, ClosedShape DEF SomeJobs
            <3>5. job[e].pc # "idle" => job'[e].new = job[e].new /\ job'[e].prev = job[e].prev
                BY <3>2, <3>3 DEF SomeJobs
            <3> QED BY <3>1, <3>4, <3>5
        <2>2. \A c \in Editors : Kept(c)
            BY <2>1 DEF Kept, Carrying
        <2>3. ~fault' => \A f \in Files : \A n \in 1..uploads'[f] :
                  <<f, n>> \in linked' \/ \E c \in Editors : Carrying(c)' /\ <<f, n>> \in job'[c].new
            BY <1>8, <2>2, OrphanKept DEF Close
        <2> QED BY <1>8, <2>1, <2>3 DEF Close, OrphanInv, Editors
    <1>9. ASSUME NEW e \in Editors, SaveButton(e) PROVE OrphanInv'
        BY <1>9, OrphanStart DEF SaveButton
    <1>10. ASSUME NEW e \in Editors, Answered(e) \/ Settled(e) PROVE OrphanInv'
        <2>1. \A c \in Editors : c # e => job'[c] = job[c]
            BY <1>10 DEF Answered, Settled, Shape
        <2>2. job[e].pc \in {"answered", "settling"} /\ UNCHANGED <<memo, linked, uploads, fault>>
            BY <1>10 DEF Answered, Settled
        <2>3. job'[e].pc \in {"settling", "idle"}
            BY <1>10, ClosedShape DEF Answered, Settled, Shape, SomeJobs
        <2>4. \A c \in Editors : Kept(c)
            BY <2>1, <2>2 DEF Kept, Carrying
        <2>5. ~fault' => \A f \in Files : \A n \in 1..uploads'[f] :
                  <<f, n>> \in linked' \/ \E c \in Editors : Carrying(c)' /\ <<f, n>> \in job'[c].new
            BY <2>2, <2>4, OrphanKept
        <2> QED BY <2>1, <2>2, <2>3, <2>5 DEF OrphanInv, Editors
    <1>11. ASSUME NEW e \in Editors, Fail(e) PROVE OrphanInv'
        <2>1. \A c \in Editors : c # e => job'[c] = job[c]
            BY <1>11 DEF Fail, Shape
        <2>2. job'[e].pc = "idle"
            BY <1>11, ClosedShape DEF Fail, Shape
        <2> QED BY <1>11, <2>1, <2>2 DEF Fail, OrphanInv, Editors
    <1>12. ASSUME NEW e \in Editors, NEW f \in Files, AddFile(e, f) \/ RemoveFile(e, f) PROVE OrphanInv'
        BY <1>12, OrphanFrame DEF AddFile, RemoveFile, Change
    <1>13. ASSUME NEW e \in Editors,
                  \/ \E text \in 0..MaxTyped : Type(e, text)
                  \/ \E x \in Metas : SetMeta(e, x)
                  \/ \E a \in Attachments : RemoveAttachment(e, a)
           PROVE  OrphanInv'
        BY <1>13, OrphanFrame DEF Type, SetMeta, RemoveAttachment, Change
    <1>14. ASSUME NEW e \in Editors, NEW f \in Files, Upload(e, f) PROVE OrphanInv'
        <2> DEFINE a == <<f, uploads[f] + 1>>
        <2>1. \A c \in Editors : c # e => job'[c] = job[c]
            BY <1>14 DEF Upload, Shape
        <2>2. job[e].pc = "upload" /\ UNCHANGED <<memo, linked, fault>>
            BY <1>14 DEF Upload
        <2>3. PICK l \in {"upload", Uploaded(e)} :
                  job' = [job EXCEPT ![e].new = job[e].new \cup {a}, ![e].pc = l]
            BY <1>14 DEF Upload
        <2>4. job'[e] = [job[e] EXCEPT !.new = job[e].new \cup {a}, !.pc = l] /\ job[e] \in SomeJobs
            BY <2>3 DEF Shape
        <2>5. job'[e].new = job[e].new \cup {a} /\ job'[e].pc = l
            <3> HIDE DEF a
            <3> QED BY <2>4 DEF SomeJobs
        <2>6. job'[e].pc \in {"upload", Uploaded(e)}
            BY <2>3, <2>5
        <2>7. \A g \in Files : uploads'[g] = IF g = f THEN uploads[f] + 1 ELSE uploads[g]
            BY <1>14 DEF Upload, Shape
        <2>8. ASSUME ~fault', NEW g \in Files, NEW n \in 1..uploads'[g]
              PROVE  <<g, n>> \in linked' \/ \E c \in Editors : Carrying(c)' /\ <<g, n>> \in job'[c].new
            <3>1. CASE g = f /\ n = uploads[f] + 1
                BY <3>1, <2>5, <2>6 DEF Carrying, Uploaded
            <3>2. CASE ~(g = f /\ n = uploads[f] + 1)
                <4>1. n \in 1..uploads[g]
                    BY <3>2, <2>7, <2>8 DEF Shape
                <4>2. <<g, n>> \in linked \/ \E c \in Editors : Carrying(c) /\ <<g, n>> \in job[c].new
                    BY <4>1, <2>2, <2>8 DEF OrphanInv
                <4>3. \A c \in Editors : Carrying(c) => Carrying(c)' /\ job[c].new \subseteq job'[c].new
                    <5> HIDE DEF a
                    <5> QED BY <2>1, <2>5, <2>6 DEF Carrying, Uploaded
                <4> QED BY <4>2, <4>3, <2>2
            <3> QED BY <3>1, <3>2
        <2>9. job'["new"].pc # "get"
            BY <2>1, <2>6 DEF Uploaded, Editors, OrphanInv
        <2>10. job'["edit"].pc = "put" => job'["edit"] = job["edit"]
            BY <2>1, <2>6 DEF Uploaded, Editors
        <2> HIDE DEF a
        <2> QED BY <2>2, <2>8, <2>9, <2>10 DEF OrphanInv
    <1>15. ASSUME NEW x \in Metas, OtherWrite(x) PROVE OrphanInv'
        <2>1. memo'.atts = memo.atts
            BY <1>15 DEF OtherWrite, Shape, SomeMemos
        <2>2. ~fault' => \A f \in Files : \A n \in 1..uploads'[f] :
                  <<f, n>> \in linked' \/ \E c \in Editors : Carrying(c)' /\ <<f, n>> \in job'[c].new
            BY <1>15, OrphanKept DEF OtherWrite, Kept, Carrying
        <2> QED BY <1>15, <2>1, <2>2 DEF OtherWrite, OrphanInv
    <1> QED
        BY <1>0, <1>1, <1>2, <1>3, <1>4, <1>5, <1>6, <1>7, <1>8, <1>9, <1>10, <1>11, <1>12, <1>13, <1>14, <1>15
        DEF Next

\* When no request fails and no save is under way, every attachment uploaded belongs to a memo
\* (uploadService, memoService), whatever was saved, changed, cancelled or reopened before.
THEOREM UploadsAreLinked == Spec => []NoOrphans
    <1>1. OrphanInv => NoOrphans
        BY DEF OrphanInv, NoOrphans, Carrying
    <1> QED BY <1>1, ShapeInit, ShapeStep, OrphanInit, OrphanStep, PTL DEF Spec

(* ---- DraftKept and PostedOnce: the steps of the editor of new memos ---- *)
SameEditor == Content' = Content /\ IsOpen' = IsOpen
SameJob    == Pc' = Pc /\ Live' = Live /\ Saved' = Saved
SamePosts  == posted' = posted /\ twice' = twice
SameTimer  == pending' = pending /\ missed' = missed
NoJobNow   == Pc' = "idle" /\ ~Live' /\ Saved' = Blank

\* Steps of the rest of the page; "edit" may take the timer over.
Elsewhere ==
    /\ SameEditor /\ SameJob /\ SamePosts /\ draft' = draft /\ spoilt' = spoilt
    /\ ntyped' \in ntyped..MaxTyped
    /\ SameTimer \/ (~Stores' /\ missed' = (missed \/ (Stores /\ IsOpen)))
Opens ==
    /\ ~IsOpen /\ IsOpen' /\ Content' = draft /\ SameJob /\ posted' = posted
    /\ draft' = draft /\ spoilt' = spoilt /\ ntyped' = ntyped
    /\ pending' = <<"new", draft>> /\ ~missed'
    /\ twice' = IF draft # Blank /\ (posted[draft] > 0 \/ Saving(draft)) THEN twice \cup {draft} ELSE twice
Fires ==
    /\ SameEditor /\ SameJob /\ SamePosts /\ spoilt' = spoilt /\ ntyped' = ntyped
    /\ pending' = None /\ missed' = missed
    /\ draft' = IF Stores THEN pending[2] ELSE draft
Reloads ==
    /\ ~IsOpen' /\ Content' = Blank /\ NoJobNow /\ SamePosts
    /\ spoilt' = spoilt \cup {Saved} /\ ntyped' = ntyped /\ draft' = draft
    /\ pending' = None
Starts ==
    /\ Pc = "idle" /\ Pc' \in {"upload", "put"} /\ Live' /\ Saved' = Content /\ IsOpen
    /\ SameEditor /\ SamePosts /\ SameTimer /\ draft' = draft /\ spoilt' = spoilt /\ ntyped' = ntyped
UploadsFile ==
    /\ Pc = "upload" /\ Pc' \in {"upload", "put"} /\ Live' = Live /\ Saved' = Saved
    /\ SameEditor /\ SamePosts /\ SameTimer /\ draft' = draft /\ spoilt' = spoilt /\ ntyped' = ntyped
Creates ==
    /\ Pc = "put" /\ Pc' = "answered" /\ Live' = Live /\ Saved' = Saved
    /\ posted' = [posted EXCEPT ![Saved] = posted[Saved] + 1] /\ twice' = twice
    /\ SameEditor /\ SameTimer /\ draft' = draft /\ spoilt' = spoilt /\ ntyped' = ntyped
Closes ==
    /\ ~IsOpen' /\ Content' = Blank
    /\ ~Live' /\ Pc' = Pc /\ (Pc # "idle" => Saved' = Saved) /\ (Pc = "idle" => Saved' = Blank)
    /\ SamePosts /\ SameTimer /\ draft' = draft /\ spoilt' = spoilt /\ ntyped' = ntyped
Answers ==
    /\ Pc = "answered" /\ Pc' = "settling" /\ Live' = Live /\ Saved' = Saved
    /\ SameEditor /\ SamePosts /\ draft' = Blank /\ ntyped' = ntyped /\ pending' = pending
    /\ spoilt' = IF pending = <<"new", Saved>> THEN spoilt \cup {Saved} ELSE spoilt
    /\ missed' = (missed \/ (~Live /\ IsOpen))
Settling ==
    /\ Pc = "settling" /\ NoJobNow /\ SamePosts
    /\ draft' = draft /\ spoilt' = spoilt /\ ntyped' = ntyped
    /\ \/ ~Live /\ SameEditor /\ SameTimer
       \/ Live /\ Content' = Blank /\ ~IsOpen' /\ SameTimer
       \/ Live /\ Content' = Blank /\ IsOpen' /\ Content = Blank /\ SameTimer
       \/ Live /\ Content' = Blank /\ IsOpen' /\ pending' = <<"new", Blank>> /\ ~missed'
Fails ==
    /\ Pc # "settling" /\ NoJobNow /\ SameEditor /\ SameTimer /\ posted' = posted
    /\ draft' = draft /\ ntyped' = ntyped
    /\ spoilt' = IF Pc = "answered" THEN spoilt \cup {Saved} ELSE spoilt
    /\ twice' = IF Pc = "answered" THEN twice \cup {Saved} ELSE twice
Types ==
    /\ IsOpen /\ IsOpen' /\ SameJob /\ SamePosts /\ draft' = draft /\ spoilt' = spoilt
    /\ \/ Content' = Blank /\ ntyped' = ntyped
       \/ Content' = ntyped + 1 /\ ntyped' = ntyped + 1 /\ ntyped < MaxTyped
    /\ pending' = <<"new", Content'>> /\ ~missed'

NewStep == \/ Elsewhere \/ Opens \/ Fires \/ Reloads \/ Starts \/ UploadsFile \/ Creates
           \/ Closes \/ Answers \/ Settling \/ Fails \/ Types

LEMMA StartNew ==
    ASSUME Shape, NEW S \in SUBSET Editors, Start(S), \A e \in S : ed[e].open
    PROVE  Starts \/ Elsewhere
    <1> USE DEF server, ghosts, SameEditor, SameTimer, SamePosts
    <1>1. Content' = Content /\ IsOpen' = IsOpen
        <2>1. ed'["new"] = IF "new" \in S THEN [ed["new"] EXCEPT !.saving = TRUE] ELSE ed["new"]
            BY DEF Start, Editors
        <2>2. ed["new"] \in SomeStates
            BY DEF Shape, Editors
        <2> QED BY <2>1, <2>2 DEF Content, IsOpen, SomeStates
    <1>2. CASE "new" \in S
        <2>1. job'["new"] = [NoJob EXCEPT !.pc = IF ed["new"].files = {} THEN "put" ELSE "upload",
                                          !.live = TRUE, !.state = ed["new"]]
            BY <1>2 DEF Start, Editors, Uploaded
        <2>2. Pc' \in {"upload", "put"} /\ Live' /\ Saved' = Content
            BY <2>1 DEF NoJob, Pc, Live, Saved, Content
        <2> QED BY <1>1, <1>2, <2>2 DEF Starts, Start, Pc, IsOpen
    <1>3. CASE "new" \notin S
        <2>1. job'["new"] = job["new"]
            BY <1>3 DEF Start, Editors
        <2>2. SameJob
            BY <2>1 DEF SameJob, Pc, Live, Saved
        <2>3. ntyped' \in ntyped..MaxTyped
            <3>1. ntyped' = ntyped
                BY DEF Start
            <3>2. ntyped \in 0..MaxTyped
                BY DEF Shape
            <3> QED BY <3>1, <3>2, Bounds
        <2> QED BY <1>1, <2>2, <2>3 DEF Start, Elsewhere
    <1> QED BY <1>2, <1>3

\* A step that leaves the editor of new memos and its save alone.
LEMMA ElsewhereStep ==
    ASSUME Shape, ed'["new"] = ed["new"], job'["new"] = job["new"],
           UNCHANGED <<posted, twice, draft, spoilt>>, ntyped' \in ntyped..MaxTyped,
           \/ UNCHANGED <<pending, missed>>
           \/ \E text : AutoSave("edit", text)
    PROVE  Elsewhere
    <1>1. SameEditor /\ SameJob
        BY DEF SameEditor, SameJob, Content, IsOpen, Pc, Live, Saved
    <1>2. SameTimer \/ (~Stores' /\ missed' = (missed \/ (Stores /\ IsOpen)))
        BY DEF SameTimer, Stores, AutoSave, IsOpen
    <1> QED BY <1>1, <1>2 DEF Elsewhere, SamePosts

LEMMA NewSteps == Shape /\ [Next]_vars => NewStep
    <1> SUFFICES ASSUME Shape, [Next]_vars PROVE NewStep
        OBVIOUS
    <1> USE Bounds DEF server, ghosts, NewStep
    <1>0. ntyped \in ntyped..MaxTyped
        BY DEF Shape
    <1>1. CASE UNCHANGED vars
        BY <1>0, <1>1, ElsewhereStep DEF vars
    <1>2. CASE OpenNew
        <2>1. ed'["new"] = [Closed EXCEPT !.open = TRUE, !.content = draft]
            BY <1>2 DEF OpenNew, Shape, Editors
        <2>2. Content' = draft /\ IsOpen'
            BY <2>1 DEF Closed, Content, IsOpen
        <2>3. SameJob
            BY <1>2 DEF OpenNew, SameJob, Pc, Live, Saved
        <2>4. ~IsOpen /\ pending' = <<"new", draft>> /\ ~missed'
            BY <1>2 DEF OpenNew, AutoSave, IsOpen
        <2> QED BY <1>2, <2>2, <2>3, <2>4 DEF OpenNew, Opens, Saving, Pc, Saved
    <1>3. CASE OpenEdit
        <2>1. ed'["new"] = ed["new"]
            BY <1>3 DEF OpenEdit, Shape, Editors
        <2> QED BY <1>0, <1>3, <2>1, ElsewhereStep DEF OpenEdit
    <1>4. CASE Loaded
        <2>1. ed'["new"] = ed["new"]
            BY <1>4 DEF Loaded, Shape, Editors
        <2> QED BY <1>0, <1>4, <2>1, ElsewhereStep DEF Loaded
    <1>5. CASE LoadFailed
        <2>1. ed'["new"] = ed["new"]
            BY <1>5 DEF LoadFailed, Shape, Editors
        <2> QED BY <1>0, <1>5, <2>1, ElsewhereStep DEF LoadFailed
    <1>6. CASE Fire
        BY <1>6 DEF Fire, Fires, Store, Stores, SameEditor, SameJob, SamePosts,
                    Content, IsOpen, Pc, Live, Saved
    <1>7. CASE Reload
        <2>1. ed'["new"] = Closed /\ job'["new"] = NoJob
            BY <1>7 DEF Reload, Editors
        <2>2. ~IsOpen' /\ Content' = Blank /\ NoJobNow
            BY <2>1, ClosedShape DEF IsOpen, Content, NoJobNow, Pc, Live, Saved
        <2> QED BY <1>7, <2>2 DEF Reload, Reloads, SamePosts, Saved
    <1>8. CASE SaveKeys
        <2> DEFINE S == {e \in Editors : CanSave(ed[e])}
        <2>1. Start(S) /\ S \in SUBSET Editors /\ \A e \in S : ed[e].open
            BY <1>8 DEF SaveKeys
        <2> HIDE DEF S
        <2> QED BY <2>1, StartNew
    <1>9. CASE Create
        <2>1. job'["new"] = [job["new"] EXCEPT !.pc = "answered"] /\ job["new"] \in SomeJobs
            BY <1>9 DEF Create, Shape, Editors
        <2>2. Pc = "put" /\ Pc' = "answered" /\ Live' = Live /\ Saved' = Saved
            BY <1>9, <2>1 DEF Create, SomeJobs, Pc, Live, Saved
        <2> QED BY <1>9, <2>2 DEF Create, Creates, SameEditor, SameTimer, Content, IsOpen, Saved
    <1>10. CASE GetMemo \/ NoChanges \/ Update
        <2>1. ed'["new"] = ed["new"] /\ job'["new"] = job["new"]
            BY <1>10 DEF GetMemo, NoChanges, Update, Shape, Editors
        <2>2. UNCHANGED <<posted, twice, draft, spoilt, pending, missed, ntyped>>
            BY <1>10 DEF GetMemo, NoChanges, Update
        <2> QED BY <1>0, <2>1, <2>2, ElsewhereStep
    <1>11. CASE Close("new")
        <2>1. ed'["new"] = Closed /\ job'["new"] = IF Pc = "idle" THEN NoJob ELSE [job["new"] EXCEPT !.live = FALSE]
            BY <1>11 DEF Close, Abandon, Shape, Editors, Pc
        <2>2. job["new"] \in SomeJobs
            BY DEF Shape, Editors
        <2>3. ~IsOpen' /\ Content' = Blank
            BY <2>1, ClosedShape DEF IsOpen, Content
        <2>4. CASE Pc = "idle"
            <3>1. ~Live' /\ Pc' = Pc /\ Saved' = Blank
                BY <2>1, <2>4, ClosedShape DEF Live, Pc, Saved
            <3> QED BY <1>11, <2>3, <2>4, <3>1 DEF Close, Closes, SamePosts, SameTimer
        <2>5. CASE Pc # "idle"
            <3>1. ~Live' /\ Pc' = Pc /\ Saved' = Saved
                BY <2>1, <2>2, <2>5 DEF Live, Pc, Saved, SomeJobs
            <3> QED BY <1>11, <2>3, <2>5, <3>1 DEF Close, Closes, SamePosts, SameTimer
        <2> QED BY <2>4, <2>5
    <1>12. CASE Close("edit") \/ Answered("edit") \/ Settled("edit") \/ Fail("edit")
        <2>1. ed'["new"] = ed["new"]
            BY <1>12 DEF Close, Answered, Settled, Fail, Finally, Shape, Editors
        <2>2. job'["new"] = job["new"]
            BY <1>12 DEF Close, Abandon, Answered, Settled, Fail, Shape, Editors
        <2>3. UNCHANGED <<posted, twice, draft, spoilt, pending, missed, ntyped>>
            BY <1>12 DEF Close, Answered, Settled, Fail, Shape
        <2> QED BY <1>0, <2>1, <2>2, <2>3, ElsewhereStep
    <1>13. ASSUME NEW e \in Editors, SaveButton(e) PROVE NewStep
        BY <1>13, StartNew DEF SaveButton
    <1>14. CASE Answered("new")
        <2>1. job'["new"] = [job["new"] EXCEPT !.pc = "settling"] /\ job["new"] \in SomeJobs
            BY <1>14 DEF Answered, Shape, Editors
        <2>2. Pc = "answered" /\ Pc' = "settling" /\ Live' = Live /\ Saved' = Saved
            BY <1>14, <2>1 DEF Answered, SomeJobs, Pc, Live, Saved
        <2>3. /\ spoilt' = IF pending = <<"new", Saved>> THEN spoilt \cup {Saved} ELSE spoilt
              /\ missed' = (missed \/ (~Live /\ IsOpen))
            BY <1>14 DEF Answered, Saved, Live, IsOpen
        <2> QED BY <1>14, <2>2, <2>3 DEF Answered, Answers, Clear, SameEditor, SamePosts, Content, IsOpen
    <1>15. CASE Settled("new")
        <2>1. job'["new"] = NoJob
            BY <1>15 DEF Settled, Shape, Editors
        <2>2. Pc = "settling" /\ NoJobNow
            BY <1>15, <2>1, ClosedShape DEF Settled, Pc, Live, Saved, NoJobNow
        <2>3. SamePosts /\ draft' = draft /\ spoilt' = spoilt /\ ntyped' = ntyped
            BY <1>15 DEF Settled, SamePosts
        <2>4. CASE ~Live
            <3>1. SameEditor /\ SameTimer
                BY <1>15, <2>4 DEF Settled, SameEditor, SameTimer, Live, Content, IsOpen
            <3> QED BY <2>2, <2>3, <2>4, <3>1 DEF Settling
        <2>5. CASE Live /\ kind = "comment"
            <3>1. ed'["new"] = Closed /\ SameTimer
                BY <1>15, <2>5 DEF Settled, Live, SameTimer, Shape, Editors
            <3>2. Content' = Blank /\ ~IsOpen'
                BY <3>1, ClosedShape DEF Content, IsOpen
            <3> QED BY <2>2, <2>3, <2>5, <3>1, <3>2 DEF Settling
        <2>6. CASE Live /\ kind # "comment"
            <3>1. ed'["new"] = Reset(ed["new"])
                BY <1>15, <2>6 DEF Settled, Live, Shape, Editors
            <3>2. Content' = Blank /\ IsOpen'
                BY <3>1 DEF Content, IsOpen, Reset, Closed
            <3>3. CASE Content = Blank
                <4>1. SameTimer
                    BY <1>15, <3>3 DEF Settled, Content, SameTimer
                <4> QED BY <2>2, <2>3, <2>6, <3>2, <3>3, <4>1 DEF Settling
            <3>4. CASE Content # Blank
                <4>1. AutoSave("new", ed'["new"].content)
                    BY <1>15, <2>6, <3>4 DEF Settled, Content, Live
                <4>2. pending' = <<"new", Blank>> /\ ~missed'
                    BY <3>2, <4>1 DEF AutoSave, Content
                <4> QED BY <2>2, <2>3, <2>6, <3>2, <4>2 DEF Settling
            <3> QED BY <3>3, <3>4
        <2> QED BY <2>4, <2>5, <2>6
    <1>16. CASE Fail("new")
        <2>1. job'["new"] = NoJob
            BY <1>16 DEF Fail, Shape, Editors
        <2>2. Pc # "settling" /\ NoJobNow
            BY <1>16, <2>1, ClosedShape DEF Fail, Pc, Live, Saved, NoJobNow
        <2>3. SameEditor
            <3>1. ed'["new"] \in {ed["new"], [ed["new"] EXCEPT !.saving = FALSE]} /\ ed["new"] \in SomeStates
                BY <1>16 DEF Fail, Finally, Shape, Editors
            <3> QED BY <3>1 DEF SameEditor, Content, IsOpen, SomeStates
        <2> QED BY <1>16, <2>2, <2>3 DEF Fail, Fails, SameTimer, Pc, Saved
    <1>17. ASSUME NEW text \in 0..MaxTyped, Type("new", text) PROVE NewStep
        <2>1. ed'["new"] = [ed["new"] EXCEPT !.content = text] /\ ed["new"] \in SomeStates
            BY <1>17 DEF Type, Change, Shape, Editors
        <2>2. Content' = text /\ IsOpen' /\ IsOpen
            BY <1>17, <2>1 DEF Type, SomeStates, Content, IsOpen
        <2>3. pending' = <<"new", Content'>> /\ ~missed'
            BY <1>17, <2>2 DEF Type, AutoSave
        <2>4. SameJob /\ SamePosts
            BY <1>17 DEF Type, Change, SameJob, SamePosts, Pc, Live, Saved
        <2> QED BY <1>17, <2>2, <2>3, <2>4 DEF Type, Types
    <1>18. ASSUME NEW text \in 0..MaxTyped, Type("edit", text) PROVE NewStep
        <2>1. ed'["new"] = ed["new"] /\ job'["new"] = job["new"] /\ AutoSave("edit", text)
            BY <1>18 DEF Type, Change, Shape, Editors
        <2>2. ntyped' \in ntyped..MaxTyped
            BY <1>18 DEF Type, Shape
        <2> QED BY <1>18, <2>1, <2>2, ElsewhereStep DEF Type
    <1>19. ASSUME NEW e \in Editors, NEW d \in SomeStates, NEW part, Change(e, d, part),
                  d.content = ed[e].content, d.open = ed[e].open,
                  UNCHANGED <<kind, job, pending, draft, server, ntyped, known, missed, spoilt, twice, fault>>
           PROVE  NewStep
        <2>1. SameEditor
            BY <1>19 DEF Change, Shape, SameEditor, Content, IsOpen
        <2> QED BY <1>0, <1>19, <2>1 DEF Elsewhere, SameJob, SamePosts, SameTimer, Pc, Live, Saved
    <1>20. ASSUME NEW e \in Editors, NEW x \in Metas, SetMeta(e, x) PROVE NewStep
        <2> DEFINE m == (ed[e].metas \cup {x}) \ (ed[e].metas \cap {x})
        <2>1. ed[e] \in SomeStates /\ m \in SUBSET Metas
            BY DEF Shape, SomeStates
        <2>2. Change(e, [ed[e] EXCEPT !.metas = m], "metas")
            BY <1>20 DEF SetMeta
        <2> HIDE DEF m
        <2>3. [ed[e] EXCEPT !.metas = m] \in SomeStates
            BY <2>1, StateShape
        <2>4. [ed[e] EXCEPT !.metas = m].content = ed[e].content /\ [ed[e] EXCEPT !.metas = m].open = ed[e].open
            BY <2>1 DEF SomeStates
        <2> QED BY <1>20, <2>2, <2>3, <2>4, <1>19 DEF SetMeta
    <1>21. ASSUME NEW e \in Editors, NEW f \in Files, AddFile(e, f) \/ RemoveFile(e, f) PROVE NewStep
        <2>1. PICK F \in SUBSET Files : Change(e, [ed[e] EXCEPT !.files = F], "atts")
            <3>1. ed[e].files \cup {f} \in SUBSET Files /\ ed[e].files \ {f} \in SUBSET Files
                BY DEF Shape, SomeStates
            <3> QED BY <1>21, <3>1 DEF AddFile, RemoveFile
        <2>2. ed[e] \in SomeStates
            BY DEF Shape
        <2>3. [ed[e] EXCEPT !.files = F] \in SomeStates
            BY <2>1, <2>2, StateShape
        <2>4. [ed[e] EXCEPT !.files = F].content = ed[e].content /\ [ed[e] EXCEPT !.files = F].open = ed[e].open
            BY <2>2 DEF SomeStates
        <2> QED BY <1>21, <2>1, <2>3, <2>4, <1>19 DEF AddFile, RemoveFile
    <1>22. ASSUME NEW e \in Editors, NEW a \in Attachments, RemoveAttachment(e, a) PROVE NewStep
        <2> DEFINE A == ed[e].atts \ {a}
        <2>1. ed[e] \in SomeStates /\ A \in SUBSET Uploads
            BY DEF Shape, SomeStates
        <2>2. Change(e, [ed[e] EXCEPT !.atts = A], "atts")
            BY <1>22 DEF RemoveAttachment
        <2> HIDE DEF A
        <2>3. [ed[e] EXCEPT !.atts = A] \in SomeStates
            BY <2>1, StateShape
        <2>4. [ed[e] EXCEPT !.atts = A].content = ed[e].content /\ [ed[e] EXCEPT !.atts = A].open = ed[e].open
            BY <2>1 DEF SomeStates
        <2> QED BY <1>22, <2>2, <2>3, <2>4, <1>19 DEF RemoveAttachment
    <1>23. ASSUME NEW f \in Files, Upload("new", f) PROVE NewStep
        <2> DEFINE new == job["new"].new \cup {<<f, uploads[f] + 1>>}
        <2>1. PICK l \in {"upload", "put"} : job' = [job EXCEPT !["new"].new = new, !["new"].pc = l]
            BY <1>23 DEF Upload, Uploaded
        <2>2. job'["new"] = [job["new"] EXCEPT !.new = new, !.pc = l] /\ job["new"] \in SomeJobs
            BY <2>1 DEF Shape, Editors
        <2> HIDE DEF new
        <2>3. Pc = "upload" /\ Pc' \in {"upload", "put"} /\ Live' = Live /\ Saved' = Saved
            BY <1>23, <2>1, <2>2 DEF Upload, SomeJobs, Pc, Live, Saved
        <2> QED BY <1>23, <2>3 DEF Upload, UploadsFile, SameEditor, SamePosts, SameTimer, Content, IsOpen
    <1>24. ASSUME NEW f \in Files, Upload("edit", f) PROVE NewStep
        <2>1. ed'["new"] = ed["new"] /\ job'["new"] = job["new"]
            BY <1>24 DEF Upload, Shape, Editors
        <2> QED BY <1>0, <1>24, <2>1, ElsewhereStep DEF Upload
    <1>25. ASSUME NEW x \in Metas, OtherWrite(x) PROVE NewStep
        BY <1>0, <1>25, ElsewhereStep DEF OtherWrite
    <1> QED
        BY <1>1, <1>2, <1>3, <1>4, <1>5, <1>6, <1>7, <1>8, <1>9, <1>10, <1>11, <1>12, <1>13, <1>14, <1>15,
           <1>16, <1>17, <1>18, <1>20, <1>21, <1>22, <1>23, <1>24, <1>25
        DEF Next, Editors

(* ---- the invariants over these steps ---- *)
\* What the invariants need to know of the shape of the state.
NewShape ==
    /\ ntyped \in 0..MaxTyped /\ draft \in Nat /\ Content \in Nat /\ Saved \in Nat
    /\ posted \in [Texts \cup {Blank} -> Nat]
    /\ Stores => pending = <<"new", pending[2]>> /\ pending[2] \in Nat

LEMMA NewShaped == Shape => NewShape
    <1> SUFFICES ASSUME Shape PROVE NewShape
        OBVIOUS
    <1>1. ed["new"] \in SomeStates /\ job["new"].state \in SomeStates
        BY DEF Shape, Editors, SomeJobs
    <1>2. Content \in Nat /\ Saved \in Nat
        BY <1>1 DEF Content, Saved, SomeStates
    <1>3. Stores => pending = <<"new", pending[2]>> /\ pending[2] \in Nat
        BY DEF Shape, Stores
    <1> QED BY <1>2, <1>3 DEF Shape, NewShape

LEMMA TimerHolds ==
    ASSUME NewShape, Fresh, NEW t \in Nat, t <= ntyped + 1, pending' = <<"new", t>>, ntyped < MaxTyped \/ t <= ntyped
    PROVE  Stores' /\ pending'[2] = t
    <1>1. <<"new", t>> \in {"new", "edit"} \X (0..(MaxTyped + 1))
        BY Bounds DEF NewShape
    <1> QED BY <1>1, EditorAssumption DEF Stores

LEMMA PostedInit == Init => Fresh /\ PostedInv /\ DraftInv
    <1> SUFFICES ASSUME Init PROVE Fresh /\ PostedInv /\ DraftInv
        OBVIOUS
    <1>1. Content = Blank /\ ~IsOpen /\ Pc = "idle" /\ ~Live /\ Saved = Blank
        BY ClosedShape DEF Init, Content, IsOpen, Pc, Live, Saved, Editors
    <1>2. ~Stores
        BY DEF Init, Stores
    <1>3. \A t \in Texts : posted[t] = 0 /\ t # Blank
        BY Bounds DEF Init, Texts, Blank
    <1>4. Fresh
        BY <1>1, <1>2, <1>3 DEF Init, Fresh, Blank
    <1>5. PostedInv
        BY <1>1, <1>3 DEF PostedInv, Saving
    <1>6. DraftInv
        BY <1>1, <1>3 DEF DraftInv
    <1> QED BY <1>4, <1>5, <1>6

LEMMA FreshStep == NewShape /\ NewShape' /\ Fresh /\ NewStep => Fresh'
    <1> SUFFICES ASSUME NewShape, NewShape', Fresh, NewStep PROVE Fresh'
        OBVIOUS
    <1> USE Bounds DEF SameEditor, SameJob, SamePosts, SameTimer, NoJobNow, NewShape, Blank
    <1>1. ntyped <= ntyped' /\ ntyped' \in Nat
        BY DEF NewStep, Elsewhere, Opens, Fires, Reloads, Starts, UploadsFile, Creates, Closes, Answers,
               Settling, Fails, Types
    <1>2. draft' <= ntyped' /\ Content' <= ntyped' /\ Saved' <= ntyped'
        BY DEF Fresh, NewStep, Elsewhere, Opens, Fires, Reloads, Starts, UploadsFile, Creates, Closes, Answers,
               Settling, Fails, Types
    <1>3. Stores' => pending'[2] <= ntyped'
        BY <1>2 DEF Stores, Fresh, NewStep, Elsewhere, Opens, Fires, Reloads, Starts, UploadsFile, Creates,
               Closes, Answers, Settling, Fails, Types
    <1>4. ASSUME NEW t \in Texts, t > ntyped' PROVE posted'[t] = 0
        <2>1. t > ntyped
            BY <1>1, <1>4 DEF Texts
        <2>2. CASE Creates
            <3>1. t # Saved
                BY <2>1 DEF Fresh
            <3> QED BY <2>1, <2>2, <3>1 DEF Creates, Fresh
        <2>3. CASE ~Creates
            BY <2>1, <2>3 DEF Fresh, NewStep, Elsewhere, Opens, Fires, Reloads, Starts, UploadsFile, Closes,
               Answers, Settling, Fails, Types
        <2> QED BY <2>2, <2>3
    <1> QED BY <1>2, <1>3, <1>4 DEF Fresh

LEMMA PostedStep == NewShape /\ Fresh /\ PostedInv /\ NewStep => PostedInv'
    <1> SUFFICES ASSUME NewShape, Fresh, PostedInv, NewStep, NEW t \in Texts, t \notin twice'
                 PROVE  /\ posted'[t] <= 1
                        /\ Saving(t)' /\ ~Live' => Content' # t
                        /\ posted'[t] = 1 /\ Content' = t => Saving(t)'
                        /\ posted'[t] = 1 /\ Saving(t)' => Pc' \in {"answered", "settling"}
                        /\ Content' = t => IsOpen'
        BY DEF PostedInv
    <1> USE DEF SameEditor, SameJob, SamePosts, SameTimer, NoJobNow
    <1>1. t \notin twice
        BY DEF NewStep, Elsewhere, Opens, Fires, Reloads, Starts, UploadsFile, Creates, Closes, Answers,
               Settling, Fails, Types
    <1>2. /\ posted[t] <= 1
          /\ Saving(t) /\ ~Live => Content # t
          /\ posted[t] = 1 /\ Content = t => Saving(t)
          /\ posted[t] = 1 /\ Saving(t) => Pc \in {"answered", "settling"}
          /\ Content = t => IsOpen
        BY <1>1 DEF PostedInv
    <1>3. t # Blank /\ posted[t] \in Nat
        BY Bounds DEF NewShape, Texts, Blank
    <1>4. CASE Elsewhere \/ Fires \/ Answers
        BY <1>2, <1>4 DEF Elsewhere, Fires, Answers, Saving
    <1>5. CASE Opens
        <2>1. t = draft => posted[t] = 0 /\ ~Saving(t)
            BY <1>3, <1>5 DEF Opens
        <2> QED BY <1>2, <1>5, <2>1 DEF Opens, Saving
    <1>6. CASE Reloads
        BY <1>2, <1>3, <1>6 DEF Reloads, Saving
    <1>7. CASE Starts
        BY <1>2, <1>7 DEF Starts, Saving
    <1>8. CASE UploadsFile
        BY <1>2, <1>8 DEF UploadsFile, Saving
    <1>9. CASE Creates
        <2>1. CASE t = Saved
            <3>1. posted[t] = 0
                BY <1>2, <1>3, <1>9, <2>1 DEF Creates, Saving
            <3>2. posted'[t] = 1
                BY <1>9, <2>1, <3>1 DEF Creates, NewShape
            <3> QED BY <1>2, <1>9, <2>1, <3>2 DEF Creates, Saving
        <2>2. CASE t # Saved
            <3>1. posted'[t] = posted[t]
                BY <1>9, <2>2 DEF Creates, NewShape
            <3> QED BY <1>2, <1>9, <2>2, <3>1 DEF Creates, Saving
        <2> QED BY <2>1, <2>2
    <1>10. CASE Closes
        BY <1>2, <1>3, <1>10 DEF Closes, Saving
    <1>11. CASE Settling
        BY <1>2, <1>3, <1>11 DEF Settling, Saving
    <1>12. CASE Fails
        BY <1>2, <1>12 DEF Fails, Saving
    <1>13. CASE Types
        <2>1. Content' = t => posted[t] = 0 /\ Saved # t
            <3>1. CASE Content' = Blank
                BY <1>3, <3>1
            <3>2. CASE Content' = ntyped + 1
                BY <3>2 DEF Fresh, NewShape
            <3> QED BY <1>13, <3>1, <3>2 DEF Types
        <2> QED BY <1>2, <1>13, <2>1 DEF Types, Saving
    <1> QED
        BY <1>4, <1>5, <1>6, <1>7, <1>8, <1>9, <1>10, <1>11, <1>12, <1>13 DEF NewStep

LEMMA DraftStep == NewShape /\ Fresh /\ DraftInv /\ NewStep => DraftInv'
    <1> SUFFICES ASSUME NewShape, Fresh, DraftInv, NewStep PROVE DraftInv'
        OBVIOUS
    <1> USE DEF SameEditor, SameJob, SamePosts, SameTimer, NoJobNow
    <1> DEFINE Follows == IsOpen /\ ~missed =>
                   IF Stores THEN pending[2] = Content
                   ELSE draft = Content \/ (Pc = "settling" /\ Live /\ Content # Blank)
               DraftDropped(t) == posted[t] > 0 /\ t \notin spoilt =>
                   \/ draft # t /\ ~(Stores /\ pending[2] = t)
                   \/ Saving(t) /\ Pc = "answered"
    <1>1. Follows /\ \A t \in Texts : DraftDropped(t)
        BY DEF DraftInv
    <1>2. Pc' # "idle" /\ Live' => IsOpen'
        BY DEF DraftInv, NewStep, Elsewhere, Opens, Fires, Reloads, Starts, UploadsFile, Creates, Closes,
               Answers, Settling, Fails, Types
    <1>3. Follows'
        <2>1. CASE Elsewhere
            <3>1. CASE SameTimer
                BY <1>1, <2>1, <3>1 DEF Elsewhere, Stores
            <3>2. CASE ~Stores' /\ missed' = (missed \/ (Stores /\ IsOpen))
                <4>1. IsOpen /\ ~missed' => ~missed /\ ~Stores
                    BY <3>2
                <4> QED BY <1>1, <2>1, <3>2, <4>1 DEF Elsewhere
            <3> QED BY <2>1, <3>1, <3>2 DEF Elsewhere
        <2>2. CASE Opens \/ Types
            <3>1. pending' = <<"new", Content'>>
                BY <2>2 DEF Opens, Types
            <3>2. Content' \in Nat /\ Content' <= ntyped + 1 /\ (ntyped < MaxTyped \/ Content' <= ntyped)
                BY <2>2 DEF Opens, Types, Fresh, NewShape, Blank
            <3> QED BY <3>1, <3>2, TimerHolds
        <2>3. CASE Fires
            BY <1>1, <2>3 DEF Fires, Stores
        <2>4. CASE Reloads \/ Closes
            BY <2>4 DEF Reloads, Closes
        <2>5. CASE Starts \/ UploadsFile \/ Creates
            BY <1>1, <2>5 DEF Starts, UploadsFile, Creates, Stores
        <2>6. CASE Answers
            BY <1>1, <2>6 DEF Answers, Stores
        <2>7. CASE Settling
            <3>1. CASE pending' = <<"new", Blank>> /\ Content' = Blank
                <4>1. Stores' /\ pending'[2] = Blank
                    BY <3>1, TimerHolds DEF NewShape, Blank
                <4> QED BY <3>1, <4>1
            <3>2. CASE Live /\ ~IsOpen'
                BY <3>2
            <3>3. CASE SameTimer /\ Content' = Content /\ (IsOpen' => IsOpen) /\ (~Live \/ Content = Blank)
                <4>1. Stores' = Stores /\ pending' = pending /\ missed' = missed /\ draft' = draft
                    BY <2>7, <3>3 DEF Settling, Stores
                <4> QED BY <1>1, <2>7, <3>3, <4>1 DEF Settling
            <3>4. Live /\ IsOpen' => IsOpen
                BY <2>7 DEF DraftInv, Settling
            <3> QED BY <2>7, <3>1, <3>2, <3>3, <3>4 DEF Settling
        <2>8. CASE Fails
            BY <1>1, <2>8 DEF Fails, Stores
        <2> QED BY <2>1, <2>2, <2>3, <2>4, <2>5, <2>6, <2>7, <2>8 DEF NewStep
    <1>4. ASSUME NEW t \in Texts PROVE DraftDropped(t)'
        <2>0. DraftDropped(t) /\ t # Blank /\ posted[t] \in Nat
            BY <1>1, Bounds DEF NewShape, Texts, Blank
        <2>1. CASE Elsewhere
            BY <2>0, <2>1 DEF Elsewhere, Stores, Saving
        <2>2. CASE Opens
            BY <2>0, <2>2 DEF Opens, Stores, Saving
        <2>3. CASE Fires
            BY <2>0, <2>3 DEF Fires, Stores, Saving
        <2>4. CASE Reloads
            BY <2>0, <2>4 DEF Reloads, Stores, Saving
        <2>5. CASE Starts \/ UploadsFile
            BY <2>0, <2>5 DEF Starts, UploadsFile, Stores, Saving
        <2>6. CASE Creates
            <3>1. t # Saved => posted'[t] = posted[t]
                BY <2>6 DEF Creates, NewShape
            <3> QED BY <2>0, <2>6, <3>1 DEF Creates, Stores, Saving
        <2>7. CASE Closes
            BY <2>0, <2>7 DEF Closes, Stores, Saving
        <2>8. CASE Answers
            <3>1. Stores /\ pending[2] = Saved => pending = <<"new", Saved>>
                BY DEF NewShape
            <3> QED BY <2>0, <2>8, <3>1 DEF Answers, Stores, Saving
        <2>9. CASE Settling
            BY <2>0, <2>9 DEF Settling, Stores, Saving
        <2>10. CASE Fails
            BY <2>0, <2>10 DEF Fails, Stores, Saving
        <2>11. CASE Types
            <3>1. Content' = t => posted[t] = 0
                BY <2>0, <2>11 DEF Types, Fresh, NewShape
            <3> QED BY <2>0, <2>11, <3>1 DEF Types, Stores, Saving
        <2> QED BY <2>1, <2>2, <2>3, <2>4, <2>5, <2>6, <2>7, <2>8, <2>9, <2>10, <2>11 DEF NewStep
    <1> QED BY <1>2, <1>3, <1>4 DEF DraftInv

EditInv == Shape /\ Fresh /\ PostedInv /\ DraftInv

LEMMA EditStep == EditInv /\ [Next]_vars => EditInv'
    <1> SUFFICES ASSUME EditInv, [Next]_vars PROVE EditInv'
        OBVIOUS
    <1>1. Shape' /\ NewShape /\ NewShape' /\ NewStep
        <2>1. Shape'
            BY ShapeStep DEF EditInv
        <2>2. NewShape' 
            BY <2>1, NewShaped, PTL
        <2> QED BY <2>1, <2>2, NewShaped, NewSteps DEF EditInv
    <1> QED BY <1>1, FreshStep, PostedStep, DraftStep DEF EditInv

\* No text is posted twice by the editor of new memos (handleSave), unless a draft brought it back
\* or the answer to its first post was lost, for any number of texts, saves and faults.
THEOREM NeverPostedTwice == Spec => []PostedOnce
    <1>1. Init => EditInv
        BY ShapeInit, PostedInit DEF EditInv
    <1>2. EditInv => PostedOnce
        BY DEF EditInv, PostedInv, PostedOnce
    <1> QED BY <1>1, <1>2, EditStep, PTL DEF Spec

\* When no store waits, the draft in local storage is what the editor shows, and a text that was
\* posted is not offered again, with the exceptions DraftKept names (cacheService, useAutoSave).
THEOREM DraftsAreKept == Spec => []DraftKept
    <1>1. Init => EditInv
        BY ShapeInit, PostedInit DEF EditInv
    <1>2. EditInv => DraftKept
        <2> SUFFICES ASSUME EditInv PROVE DraftKept
            OBVIOUS
        <2>1. NewShape
            BY NewShaped DEF EditInv
        <2>2. IsOpen /\ pending = None /\ ~missed /\ Pc # "settling" => draft = Content
            BY DEF EditInv, DraftInv, Stores
        <2>3. ASSUME draft # Blank, draft \notin spoilt, Pc = "idle" PROVE posted[draft] = 0
            <3>1. draft \in Texts /\ posted[draft] \in Nat
                BY <2>1, <2>3, Bounds DEF NewShape, EditInv, Fresh, Texts, Blank
            <3> QED BY <2>3, <3>1 DEF EditInv, DraftInv
        <2> QED BY <2>2, <2>3 DEF DraftKept, IsOpen, Pc, Content
    <1> QED BY <1>1, <1>2, EditStep, PTL DEF Spec

(* ---- what an update leaves alone ---- *)
Edit == ed["edit"]
Save == job["edit"]

\* What the user did not touch is as the server has it.
Follows(d) ==
    /\ "content" \in touched \/ d.content = memo.content
    /\ "metas" \in touched \/ d.metas = memo.metas
    /\ "atts" \in touched \/ (d.atts = memo.atts /\ d.files = {})
    /\ d.time = memo.time

\* It is so of the editor, of the state a save took from it, and of the memo the save has read.
MaskInv ==
    /\ Edit.open => "atts" \in touched \/ Edit.files = {}
    /\ Edit.open /\ Save.pc # "idle" /\ known => Save.live
    /\ Save.new \subseteq Save.state.files \X Nat
    /\ known => /\ Edit.open /\ Save.pc \notin {"answered", "settling"} => Follows(Edit)
                /\ Save.pc \in {"upload", "get", "put"} => Follows(Save.state)
                /\ Save.pc = "put" => Save.prev = memo

SameEdit ==
    /\ Edit'.open = Edit.open /\ Edit'.content = Edit.content /\ Edit'.metas = Edit.metas
    /\ Edit'.atts = Edit.atts /\ Edit'.files = Edit.files /\ Edit'.time = Edit.time

LEMMA EditShape == Shape => Edit \in SomeStates /\ Save \in SomeJobs /\ Save.state \in SomeStates
    BY DEF Shape, Edit, Save, Editors, SomeJobs

\* A step that leaves the fields of "edit" and its save alone.
LEMMA MaskFrame ==
    ASSUME MaskInv, SameEdit, Save' = Save, touched \subseteq touched', known' => known /\ memo' = memo
    PROVE  MaskInv'
    BY DEF MaskInv, SameEdit, Follows

\* A change of one part, which the user has touched from then on.
LEMMA MaskChange ==
    ASSUME Shape, MaskInv, NEW d \in SomeStates, NEW part \in Parts, Change("edit", d, part),
           d.open = Edit.open, d.time = Edit.time,
           part = "content" \/ d.content = Edit.content,
           part = "metas" \/ d.metas = Edit.metas,
           part = "atts" \/ (d.atts = Edit.atts /\ d.files = Edit.files),
           UNCHANGED <<job, memo, known>>
    PROVE  MaskInv'
    <1>1. Edit' = d
        BY DEF Change, Shape, Editors, Edit
    <1>2. touched' = touched \cup {part} /\ Save' = Save
        BY DEF Change, Save
    <1> QED BY <1>1, <1>2 DEF MaskInv, Follows

\* A save takes the state of the editor.
LEMMA MaskStart ==
    ASSUME Shape, MaskInv, NEW S \in SUBSET Editors, Start(S), \A e \in S : ed[e].open
    PROVE  MaskInv'
    <1>1. memo' = memo /\ touched' = touched /\ known' = known
        BY DEF Start, server, ghosts
    <1>2. CASE "edit" \notin S
        <2>1. Edit' = Edit /\ Save' = Save
            BY <1>2 DEF Start, Editors, Edit, Save
        <2> QED BY <1>1, <2>1, MaskFrame DEF SameEdit
    <1>3. CASE "edit" \in S
        <2>1. Edit' = [Edit EXCEPT !.saving = TRUE] /\ Edit.open /\ Save.pc = "idle"
            BY <1>3 DEF Start, Editors, Edit, Save
        <2>2. PICK l \in {"upload", "get"} : Save' = [NoJob EXCEPT !.pc = l, !.live = TRUE, !.state = Edit]
            BY <1>3 DEF Start, Editors, Edit, Save, Uploaded
        <2>3. SameEdit
            BY <2>1, EditShape DEF SameEdit, SomeStates
        <2>4. Save'.pc = l /\ Save'.live /\ Save'.state = Edit /\ Save'.new = {}
            BY <2>2 DEF NoJob
        <2> QED BY <1>1, <2>1, <2>3, <2>4 DEF MaskInv, SameEdit, Follows
    <1> QED BY <1>2, <1>3

LEMMA MaskInit == Init => MaskInv
    <1> SUFFICES ASSUME Init PROVE MaskInv
        OBVIOUS
    <1>1. Edit = Closed /\ Save = NoJob /\ ~known
        BY DEF Init, Edit, Save, Editors
    <1>2. ~Edit.open /\ Save.new = {}
        BY <1>1, ClosedShape DEF NoJob
    <1> QED BY <1>1, <1>2 DEF MaskInv

LEMMA MaskStep == Shape /\ MaskInv /\ [Next]_vars => MaskInv'
    <1> SUFFICES ASSUME Shape, MaskInv, [Next]_vars PROVE MaskInv'
        OBVIOUS
    <1> USE DEF server, ghosts
    <1>0. Edit \in SomeStates /\ Save \in SomeJobs /\ Save.state \in SomeStates
        BY EditShape
    <1>1. ASSUME ed'["edit"] = ed["edit"], job'["edit"] = job["edit"], touched' = touched,
                 known' => known /\ memo' = memo
          PROVE  MaskInv'
        BY <1>1, MaskFrame DEF SameEdit, Edit, Save
    <1>2. CASE UNCHANGED vars
        BY <1>1, <1>2 DEF vars
    <1>3. CASE OpenNew \/ Fire \/ Create
        <2>1. ed'["edit"] = ed["edit"] /\ job'["edit"] = job["edit"]
            BY <1>3 DEF OpenNew, Fire, Create, Shape, Editors
        <2> QED BY <1>1, <1>3, <2>1 DEF OpenNew, Fire, Create
    <1>4. CASE OpenEdit
        <2>1. Edit' = [Closed EXCEPT !.open = TRUE, !.loading = TRUE] /\ Save' = Save /\ ~known'
            BY <1>4 DEF OpenEdit, Shape, Editors, Edit, Save
        <2>2. Edit'.files = {}
            BY <2>1 DEF Closed
        <2> QED BY <2>1, <2>2 DEF MaskInv
    <1>5. CASE Loaded
        <2>1. Edit' = LoadedState(Edit, memo) /\ Save' = Save /\ memo' = memo
            BY <1>5 DEF Loaded, Shape, Editors, Edit, Save
        <2>2. touched' = touched \ {"content", "metas"} /\ known' = (Save.pc = "idle")
            BY <1>5 DEF Loaded, Save
        <2>3. /\ Edit'.open = Edit.open /\ Edit'.files = Edit.files /\ Edit'.content = memo.content
              /\ Edit'.metas = memo.metas /\ Edit'.atts = memo.atts /\ Edit'.time = memo.time
            BY <1>0, <2>1 DEF LoadedState, SomeStates
        <2> QED BY <2>1, <2>2, <2>3 DEF MaskInv, Follows
    <1>6. CASE LoadFailed
        <2>1. Edit' = [Edit EXCEPT !.loading = FALSE] /\ Save' = Save
            BY <1>6 DEF LoadFailed, Shape, Editors, Edit, Save
        <2>2. SameEdit
            BY <1>0, <2>1 DEF SameEdit, SomeStates
        <2> QED BY <1>6, <2>1, <2>2, MaskFrame DEF LoadFailed
    <1>7. CASE Reload
        <2>1. Edit' = Closed /\ Save' = NoJob /\ ~known'
            BY <1>7 DEF Reload, Editors, Edit, Save
        <2>2. ~Edit'.open /\ Save'.new = {}
            BY <2>1, ClosedShape DEF NoJob
        <2> QED BY <2>1, <2>2 DEF MaskInv
    <1>8. CASE SaveKeys
        <2> DEFINE S == {e \in Editors : CanSave(ed[e])}
        <2>1. Start(S) /\ S \in SUBSET Editors /\ \A e \in S : ed[e].open
            BY <1>8 DEF SaveKeys
        <2> HIDE DEF S
        <2> QED BY <2>1, MaskStart
    <1>9. ASSUME NEW e \in Editors, SaveButton(e) PROVE MaskInv'
        BY <1>9, MaskStart DEF SaveButton
    <1>10. CASE GetMemo
        <2>1. /\ Edit' = Edit /\ Save.pc = "get" /\ Save' = [Save EXCEPT !.pc = "put", !.prev = memo]
              /\ UNCHANGED <<memo, touched, known>>
            BY <1>10 DEF GetMemo, Shape, Editors, Edit, Save
        <2>2. /\ Save'.pc = "put" /\ Save'.prev = memo /\ Save'.live = Save.live
              /\ Save'.state = Save.state /\ Save'.new = Save.new
            BY <1>0, <2>1 DEF SomeJobs
        <2> QED BY <2>1, <2>2 DEF MaskInv, Follows
    <1>11. CASE NoChanges
        <2>1. /\ Edit' = IF Save.live THEN Closed ELSE Edit
              /\ Save' = NoJob /\ Save.pc = "put" /\ memo' = memo
              /\ IF Save.live THEN ~known' ELSE touched' = touched /\ known' = known
            BY <1>11 DEF NoChanges, Shape, Editors, Edit, Save
        <2>2. Save'.pc = "idle" /\ Save'.new = {} /\ (Save.live => ~Edit'.open)
            BY <2>1, ClosedShape DEF NoJob
        <2> QED BY <2>1, <2>2 DEF MaskInv, Follows
    <1>12. CASE Update
        <2>1. /\ Edit' = Edit /\ Save.pc = "put" /\ Save' = [Save EXCEPT !.pc = "answered"]
              /\ UNCHANGED <<touched, known>>
            BY <1>12 DEF Update, Shape, Editors, Edit, Save
        <2>2. Save'.pc = "answered" /\ Save'.live = Save.live /\ Save'.state = Save.state /\ Save'.new = Save.new
            BY <1>0, <2>1 DEF SomeJobs
        <2> QED BY <2>1, <2>2 DEF MaskInv
    <1>13. CASE Close("edit")
        <2>1. /\ Edit' = Closed /\ UNCHANGED <<memo, touched, known>>
              /\ Save' = IF Save.pc = "idle" THEN NoJob ELSE [Save EXCEPT !.live = FALSE]
            BY <1>13 DEF Close, Abandon, Shape, Editors, Edit, Save
        <2>2. ~Edit'.open
            BY <2>1, ClosedShape
        <2>3. CASE Save.pc = "idle"
            <3>1. Save'.pc = "idle" /\ Save'.new = {}
                BY <2>1, <2>3 DEF NoJob
            <3> QED BY <2>2, <3>1 DEF MaskInv
        <2>4. CASE Save.pc # "idle"
            <3>1. /\ Save'.pc = Save.pc /\ Save'.prev = Save.prev
                  /\ Save'.state = Save.state /\ Save'.new = Save.new
                BY <1>0, <2>1, <2>4 DEF SomeJobs
            <3> QED BY <2>1, <2>2, <3>1 DEF MaskInv, Follows
        <2> QED BY <2>3, <2>4
    <1>14. CASE Answered("edit")
        <2>1. /\ Edit' = Edit /\ Save.pc = "answered" /\ Save' = [Save EXCEPT !.pc = "settling"]
              /\ UNCHANGED <<memo, touched, known>>
            BY <1>14 DEF Answered, Shape, Editors, Edit, Save
        <2>2. Save'.pc = "settling" /\ Save'.live = Save.live /\ Save'.state = Save.state /\ Save'.new = Save.new
            BY <1>0, <2>1 DEF SomeJobs
        <2> QED BY <2>1, <2>2 DEF MaskInv
    <1>15. CASE Settled("edit")
        <2>1. /\ Edit' = IF Save.live THEN Closed ELSE Edit
              /\ Save' = NoJob /\ Save.pc = "settling" /\ memo' = memo
              /\ IF Save.live THEN ~known' ELSE touched' = touched /\ known' = known
            BY <1>15 DEF Settled, Shape, Editors, Edit, Save
        <2>2. Save'.pc = "idle" /\ Save'.new = {} /\ (Save.live => ~Edit'.open)
            BY <2>1, ClosedShape DEF NoJob
        <2> QED BY <2>1, <2>2 DEF MaskInv, Follows
    <1>16. CASE Fail("edit")
        <2>1. /\ Edit' \in {Edit, [Edit EXCEPT !.saving = FALSE]} /\ Save' = NoJob
              /\ UNCHANGED <<memo, touched>>
              /\ Save.pc \in {"upload", "get", "put", "answered"}
              /\ known' => known /\ Save.pc # "answered"
            BY <1>16 DEF Fail, Finally, Shape, Editors, Edit, Save
        <2>2. SameEdit
            BY <1>0, <2>1 DEF SameEdit, SomeStates
        <2>3. Save'.pc = "idle" /\ Save'.new = {}
            BY <2>1 DEF NoJob
        <2> QED BY <2>1, <2>2, <2>3 DEF MaskInv, SameEdit, Follows
    <1>17. CASE Close("new") \/ Answered("new") \/ Settled("new") \/ Fail("new")
        <2>1. ed'["edit"] = ed["edit"]
            BY <1>17 DEF Close, Answered, Settled, Fail, Finally, Shape, Editors
        <2>2. job'["edit"] = job["edit"]
            BY <1>17 DEF Close, Abandon, Answered, Settled, Fail, Shape, Editors
        <2>3. touched' = touched /\ memo' = memo
            BY <1>17 DEF Close, Answered, Settled, Fail
        <2>4. known' => known
            <3>1. CASE Close("new") \/ Answered("new") \/ Settled("new")
                BY <3>1 DEF Close, Answered, Settled
            <3>2. CASE Fail("new")
                BY <3>2 DEF Fail
            <3> QED BY <1>17, <3>1, <3>2
        <2> QED BY <1>1, <2>1, <2>2, <2>3, <2>4
    <1>18. ASSUME NEW d, NEW part, Change("new", d, part), UNCHANGED <<job, memo, known>> PROVE MaskInv'
        <2>1. ed'["edit"] = ed["edit"] /\ touched' = touched
            BY <1>18 DEF Change, Shape, Editors
        <2> QED BY <1>1, <1>18, <2>1
    <1>19. ASSUME NEW text \in 0..MaxTyped, NEW e \in Editors, Type(e, text) PROVE MaskInv'
        <2>1. CASE e = "new"
            BY <1>18, <1>19, <2>1 DEF Type
        <2>2. CASE e = "edit"
            <3> DEFINE d == [Edit EXCEPT !.content = text]
            <3>1. Change("edit", d, "content") /\ UNCHANGED <<job, memo, known>>
                BY <1>19, <2>2 DEF Type, Edit
            <3>2. /\ d \in SomeStates /\ d.open = Edit.open /\ d.time = Edit.time /\ d.metas = Edit.metas
                  /\ d.atts = Edit.atts /\ d.files = Edit.files
                BY <1>0, Bounds DEF SomeStates
            <3> HIDE DEF d
            <3> QED BY <3>1, <3>2, MaskChange DEF Parts
        <2> QED BY <2>1, <2>2 DEF Editors
    <1>20. ASSUME NEW x \in Metas, NEW e \in Editors, SetMeta(e, x) PROVE MaskInv'
        <2>1. CASE e = "new"
            BY <1>18, <1>20, <2>1 DEF SetMeta
        <2>2. CASE e = "edit"
            <3>1. PICK m \in SUBSET Metas : Change("edit", [Edit EXCEPT !.metas = m], "metas")
                <4>1. (Edit.metas \cup {x}) \ (Edit.metas \cap {x}) \in SUBSET Metas
                    BY <1>0 DEF SomeStates
                <4> QED BY <1>20, <2>2, <4>1 DEF SetMeta, Edit
            <3> DEFINE d == [Edit EXCEPT !.metas = m]
            <3>2. /\ d \in SomeStates /\ d.open = Edit.open /\ d.time = Edit.time /\ d.content = Edit.content
                  /\ d.atts = Edit.atts /\ d.files = Edit.files
                BY <1>0 DEF SomeStates
            <3>3. UNCHANGED <<job, memo, known>>
                BY <1>20 DEF SetMeta
            <3>4. Change("edit", d, "metas")
                BY <3>1
            <3> HIDE DEF d
            <3> QED BY <3>2, <3>3, <3>4, MaskChange DEF Parts
        <2> QED BY <2>1, <2>2 DEF Editors
    <1>21. ASSUME NEW f \in Files, NEW e \in Editors, AddFile(e, f) \/ RemoveFile(e, f) PROVE MaskInv'
        <2>1. CASE e = "new"
            BY <1>18, <1>21, <2>1 DEF AddFile, RemoveFile
        <2>2. CASE e = "edit"
            <3>1. PICK F \in SUBSET Files : Change("edit", [Edit EXCEPT !.files = F], "atts")
                <4>1. Edit.files \cup {f} \in SUBSET Files /\ Edit.files \ {f} \in SUBSET Files
                    BY <1>0 DEF SomeStates
                <4> QED BY <1>21, <2>2, <4>1 DEF AddFile, RemoveFile, Edit
            <3> DEFINE d == [Edit EXCEPT !.files = F]
            <3>2. /\ d \in SomeStates /\ d.open = Edit.open /\ d.time = Edit.time /\ d.content = Edit.content
                  /\ d.metas = Edit.metas
                BY <1>0 DEF SomeStates
            <3>3. UNCHANGED <<job, memo, known>>
                BY <1>21 DEF AddFile, RemoveFile
            <3>4. Change("edit", d, "atts")
                BY <3>1
            <3> HIDE DEF d
            <3> QED BY <3>2, <3>3, <3>4, MaskChange DEF Parts
        <2> QED BY <2>1, <2>2 DEF Editors
    <1>22. ASSUME NEW a \in Attachments, NEW e \in Editors, RemoveAttachment(e, a) PROVE MaskInv'
        <2>1. CASE e = "new"
            BY <1>18, <1>22, <2>1 DEF RemoveAttachment
        <2>2. CASE e = "edit"
            <3> DEFINE d == [Edit EXCEPT !.atts = @ \ {a}]
            <3>1. Change("edit", d, "atts") /\ UNCHANGED <<job, memo, known>>
                BY <1>22, <2>2 DEF RemoveAttachment, Edit
            <3>2. /\ d \in SomeStates /\ d.open = Edit.open /\ d.time = Edit.time /\ d.content = Edit.content
                  /\ d.metas = Edit.metas
                BY <1>0 DEF SomeStates
            <3> HIDE DEF d
            <3> QED BY <3>1, <3>2, MaskChange DEF Parts
        <2> QED BY <2>1, <2>2 DEF Editors
    <1>23. ASSUME NEW f \in Files, Upload("new", f) PROVE MaskInv'
        <2>1. ed'["edit"] = ed["edit"] /\ job'["edit"] = job["edit"]
            BY <1>23 DEF Upload, Shape, Editors
        <2> QED BY <1>1, <1>23, <2>1 DEF Upload
    <1>24. ASSUME NEW f \in Files, Upload("edit", f) PROVE MaskInv'
        <2> DEFINE new == Save.new \cup {<<f, uploads[f] + 1>>}
        <2>1. PICK l \in {"upload", "get"} : job' = [job EXCEPT !["edit"].new = new, !["edit"].pc = l]
            BY <1>24 DEF Upload, Uploaded, Save
        <2>2. f \in Save.state.files /\ uploads[f] + 1 \in Nat
            BY <1>24 DEF Upload, Shape, Save
        <2>3. new \subseteq Save.state.files \X Nat
            BY <2>2 DEF MaskInv
        <2>4. Edit' = Edit /\ Save.pc = "upload" /\ UNCHANGED <<memo, touched, known>>
            BY <1>24 DEF Upload, Edit, Save
        <2> HIDE DEF new
        <2>5. Save' = [Save EXCEPT !.new = new, !.pc = l]
            BY <2>1 DEF Shape, Editors, Save
        <2>6. Save'.pc = l /\ Save'.live = Save.live /\ Save'.state = Save.state /\ Save'.new = new
            BY <1>0, <2>5 DEF SomeJobs
        <2> QED BY <2>3, <2>4, <2>6 DEF MaskInv, Follows
    <1>25. ASSUME NEW x \in Metas, OtherWrite(x) PROVE MaskInv'
        BY <1>1, <1>25 DEF OtherWrite
    <1> QED
        BY <1>2, <1>3, <1>4, <1>5, <1>6, <1>7, <1>8, <1>9, <1>10, <1>11, <1>12, <1>13, <1>14, <1>15,
           <1>16, <1>17, <1>19, <1>20, <1>21, <1>22, <1>23, <1>24, <1>25
        DEF Next, Editors

\* An update of a memo that was loaded and that no other client has changed since leaves what the
\* user did not touch as it was, and does not move its update time back (buildUpdateMask).
THEOREM UpdatesAreMasked == Spec => KeepsUntouched
    <1>1. Init => Shape /\ MaskInv
        BY ShapeInit, MaskInit
    <1>2. Shape /\ MaskInv /\ [Next]_vars => (Shape /\ MaskInv)'
        BY ShapeStep, MaskStep
    <1> DEFINE MaskKept ==
            job["edit"].pc = "put" /\ memo' # memo /\ known /\ known'
              => /\ "content" \in touched \/ memo'.content = memo.content
                 /\ "metas" \in touched \/ memo'.metas = memo.metas
                 /\ "atts" \in touched \/ memo'.atts = memo.atts
                 /\ memo'.time >= memo.time
    <1>3. Shape /\ MaskInv /\ [Next]_vars => [MaskKept]_vars
        <2> SUFFICES ASSUME Shape, MaskInv, Next, Save.pc = "put", memo' # memo, known, known'
                     PROVE  /\ "content" \in touched \/ memo'.content = memo.content
                            /\ "metas" \in touched \/ memo'.metas = memo.metas
                            /\ "atts" \in touched \/ memo'.atts = memo.atts
                            /\ memo'.time >= memo.time
            BY DEF Save
        <2>1. Update
            <3>1. memo' = memo
                    \/ ~(OpenNew \/ OpenEdit \/ Loaded \/ LoadFailed \/ Fire \/ Reload \/ Create \/ GetMemo \/ NoChanges)
                BY DEF OpenNew, OpenEdit, Loaded, LoadFailed, Fire, Reload, Create, GetMemo, NoChanges, server
            <3>2. memo' = memo \/ ~(SaveKeys \/ \E e \in Editors : SaveButton(e))
                BY DEF SaveKeys, SaveButton, Start, server
            <3>3. memo' = memo \/ ~(\E e \in Editors : Close(e) \/ Answered(e) \/ Settled(e) \/ Fail(e))
                BY DEF Close, Answered, Settled, Fail, server
            <3>4. memo' = memo \/ ~(\E e \in Editors :
                                      \/ \E text \in 0..MaxTyped : Type(e, text)
                                      \/ \E x \in Metas : SetMeta(e, x)
                                      \/ \E f \in Files : AddFile(e, f) \/ RemoveFile(e, f) \/ Upload(e, f)
                                      \/ \E a \in Attachments : RemoveAttachment(e, a))
                BY DEF Type, SetMeta, AddFile, RemoveFile, Upload, RemoveAttachment, server
            <3>5. ~(\E x \in Metas : OtherWrite(x))
                BY DEF OtherWrite
            <3> QED BY <3>1, <3>2, <3>3, <3>4, <3>5 DEF Next
        <2> DEFINE c == Changed(Save)
        <2>2. PICK now \in Clock :
                 memo' = [content |-> IF "content" \in c THEN Save.state.content ELSE memo.content,
                          metas   |-> IF "metas" \in c THEN Save.state.metas ELSE memo.metas,
                          atts    |-> IF "atts" \in c THEN AllAttachments(Save) ELSE memo.atts,
                          time    |-> Stamp(Save, now)]
            BY <2>1 DEF Update, Save
        <2>3. /\ memo'.content = IF "content" \in c THEN Save.state.content ELSE memo.content
              /\ memo'.metas = IF "metas" \in c THEN Save.state.metas ELSE memo.metas
              /\ memo'.atts = IF "atts" \in c THEN AllAttachments(Save) ELSE memo.atts
              /\ memo'.time = Stamp(Save, now)
            BY <2>2
        <2>4. Follows(Save.state) /\ Save.prev = memo /\ Save.new \subseteq Save.state.files \X Nat
            BY DEF MaskInv
        <2>5. /\ "content" \in c => Save.state.content # memo.content
              /\ "metas" \in c => Save.state.metas # memo.metas
              /\ "atts" \in c => AllAttachments(Save) # memo.atts
            BY <2>4 DEF Changed, Parts
        <2>6. "atts" \in touched \/ AllAttachments(Save) = memo.atts
            BY <2>4 DEF Follows, AllAttachments
        <2>7. /\ "content" \in c => "content" \in touched
              /\ "metas" \in c => "metas" \in touched
              /\ "atts" \in c => "atts" \in touched
            BY <2>4, <2>5, <2>6 DEF Follows
        <2>8. memo'.time >= memo.time
            <3>1. ~Outdated(Save)
                BY <2>4 DEF Outdated, Follows
            <3>2. memo.time \in Nat
                BY DEF Shape, SomeMemos
            <3> QED BY <2>3, <3>1, <3>2 DEF Stamp, Clock
        <2> HIDE DEF c
        <2> QED BY <2>3, <2>7, <2>8
    <1> QED BY <1>1, <1>2, <1>3, PTL DEF Spec, KeepsUntouched
=============================================================================
