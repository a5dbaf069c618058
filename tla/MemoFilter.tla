----------------------------- MODULE MemoFilter -----------------------------
(***************************************************************************)
(* The filters of the memo lists are kept twice: in the state of          *)
(* MemoFilterProvider (contexts/MemoFilterContext.tsx) and in the         *)
(* parameter "filter" of the address.  Two effects copy each into the     *)
(* other, two references remember what was copied last, and RootLayout    *)
(* removes every filter when the path changes and the address has none.   *)
(*                                                                         *)
(* React renders later than it is asked to: pend holds the updates of the *)
(* provider's state that no render has applied yet, shown the address and *)
(* the filters of the last render.  A render may apply the new address,   *)
(* the updates, or both; its effects follow at once.                      *)
(***************************************************************************)
EXTENDS Widget, SequencesExt

CONSTANTS Tags, Words, Days   \* the values of the three factors a user sets

Every == Tags \cup Words \cup Days

(* The text of the parameter: what stringifyFilters gives for a list, or,  *)
(* when raw, another text that parses to the same list.                    *)
Str(fs) == [fs |-> fs, raw |-> FALSE]
Typed(fs) == [fs |-> fs, raw |-> TRUE]
NoQuery == Str(<<>>)
parseFilterQuery(q) == q.fs

Paths == {"home", "explore", "memo"}
Addresses == [path : Paths,
              q : {NoQuery} \cup {Str(<<d>>) : d \in Days} \cup {Typed(<<t>>) : t \in Tags}]

(* An update of the list: what it removes, then what it adds.              *)
FilterUpdate == [drop : SUBSET Every, add : Seq(Every)]
NoUpdate == [drop |-> {}, add |-> <<>>]
addFilter(f) == [drop |-> {}, add |-> <<f>>]
removeFilter(S) == [drop |-> S, add |-> <<>>]
setFilters(fs) == [drop |-> Every, add |-> fs]

Without(fs, S) == At(fs, {i \in DOMAIN fs : fs[i] \notin S})
uniqBy(fs) == At(fs, {i \in DOMAIN fs : \A j \in 1..(i - 1) : fs[j] # fs[i]})
Apply(fs, u) == uniqBy(Without(fs, u.drop) \o u.add)

(* Two updates in a row are one. *)
Then(u, v) == [drop |-> u.drop \cup v.drop, add |-> uniqBy(Without(u.add, v.drop) \o v.add)]

AtRest == w.pend = NoUpdate /\ w.loc = w.shown.loc

-----------------------------------------------------------------------------
(* The page is loaded at an address.  useState parses the parameter; the   *)
(* first effects find an address that was never copied, or, in RootLayout, *)
(* a path that was never rendered.                                         *)
Mounted(loc) ==
    LET q == loc.q
        fs == parseFilterQuery(q)
    IN [part |-> "filters", acts |-> 0, loc |-> loc, hist |-> <<>>, shown |-> [loc |-> loc, fs |-> fs],
        pend |-> IF q = NoQuery THEN removeFilter(Every) ELSE setFilters(fs),
        synced |-> [url |-> q, store |-> Str(fs)],
        want |-> fs, overlap |-> FALSE, crossed |-> FALSE]

FilterInit == \E loc \in Addresses : w = Mounted(loc)

(* Mutant of RouteEffect: it looks at the address alone. *)
RouteAlways(at) == IF at.q = NoQuery THEN removeFilter(Every) ELSE NoUpdate

(* RootLayout: when the route changes and the address has no filter.       *)
RouteEffect(at) ==
    IF at.path # w.shown.loc.path /\ at.q = NoQuery THEN removeFilter(Every) ELSE NoUpdate

(* "Sync URL to state": an address that differs from the one copied last.  *)
(* Its list replaces whatever the effect of the route asked for.           *)
UrlNews(at) == at.q # w.shown.loc.q /\ at.q # w.synced.url
UrlEffect(at) == IF UrlNews(at) THEN setFilters(parseFilterQuery(at.q)) ELSE RouteEffect(at)

(* Mutant of UrlSynced: the list copied last is not remembered. *)
UrlSyncedAlone(at) == IF UrlNews(at) THEN [w.synced EXCEPT !.url = at.q] ELSE w.synced

UrlSynced(at) == IF UrlNews(at) THEN [url |-> at.q, store |-> Str(parseFilterQuery(at.q))]
                                ELSE w.synced

(* "Sync state to URL": a list that neither reference has seen replaces    *)
(* the parameter, on the path the router is at by then.                    *)
StoreNews(fs, ran, synced) == ran /\ Str(fs) \notin {synced.url, synced.store}

Render(byAddress, byState) ==
    LET at == IF byAddress THEN w.loc ELSE w.shown.loc
        fs == IF byState THEN Apply(w.shown.fs, w.pend) ELSE w.shown.fs
        ran == byState \/ at.q # w.shown.loc.q
        news == StoreNews(fs, ran, UrlSynced(at))
    IN /\ IsPart("filters")
       /\ byAddress => w.loc # w.shown.loc
       /\ byState => w.pend # NoUpdate
       /\ w' = [w EXCEPT
            !.shown = [loc |-> at, fs |-> fs],
            !.pend = Then(IF byState THEN NoUpdate ELSE @, UrlEffect(at)),
            !.synced = IF news THEN [url |-> Str(fs), store |-> Str(fs)] ELSE UrlSynced(at),
            !.loc = IF news THEN [@ EXCEPT !.q = Str(fs)] ELSE @]

RenderAddress == Render(TRUE, FALSE)
RenderState == Render(FALSE, TRUE)
RenderBoth == Render(TRUE, TRUE)

-----------------------------------------------------------------------------
(* What the user does.  want is what the filters should become, overlap    *)
(* that the user acted before the last thing done had come to rest, and    *)
(* crossed that the page was left in such a moment.                        *)

(* A handler of the page shown asks for update u. *)
Ask(u) ==
    /\ w.shown.loc.path # "memo"
    /\ w' = [w EXCEPT !.acts = @ + 1, !.pend = Then(@, u), !.overlap = ~AtRest,
                      !.want = Apply(w.shown.fs, u)]

(* A tag of the explorer or of a memo in a list: the handler decides by    *)
(* the filters of the last render.                                         *)
TagUpdate(t) ==
    IF t \in ToSet(w.shown.fs) THEN removeFilter({t})
                               ELSE Then(removeFilter(Tags), addFilter(t))
handleTagClick(t) == May("filters") /\ Ask(TagUpdate(t))

(* The words of the search, added one after the other. *)
Search(words) == May("filters") /\ Ask(Then(NoUpdate, [drop |-> {}, add |-> words]))

handleRemoveFilter(f) ==
    May("filters") /\ f \in ToSet(w.shown.fs) /\ Ask(removeFilter({f}))

(* A step of the router to the address loc, with the entries hist behind it. *)
Moved(loc, hist) ==
    [w EXCEPT !.acts = @ + 1, !.loc = loc, !.hist = hist, !.overlap = ~AtRest,
              !.crossed = @ \/ ~AtRest, !.want = loc.q.fs]

Go(loc) == w' = Moved(loc, Append(w.hist, w.loc))

(* A link of the navigation, or a memo of a list.                          *)
NavLink(p) == May("filters") /\ Go([path |-> p, q |-> NoQuery])

navigateToDateFilter(d) ==
    May("filters") /\ w.shown.loc.path # "memo" /\ Go([path |-> "home", q |-> Str(<<d>>)])

(* A tag clicked on the page of a memo, whose parent page is a list or,    *)
(* when the memo was opened from another memo, that one.                   *)
TagOfMemoPage(t, parent) ==
    May("filters") /\ w.shown.loc.path = "memo" /\ Go([path |-> parent, q |-> Str(<<t>>)])

Back ==
    /\ May("filters")
    /\ w.hist # <<>>
    /\ w' = Moved(Last(w.hist), Front(w.hist))

ReloadPage ==
    /\ May("filters")
    /\ w' = [Mounted(w.loc) EXCEPT !.acts = w.acts + 1, !.hist = w.hist]

FilterRender == RenderAddress \/ RenderState \/ RenderBoth

FilterNext ==
    \/ RenderAddress
    \/ RenderState
    \/ RenderBoth
    \/ \E t \in Tags : handleTagClick(t)
    \/ \E words \in {<<x>> : x \in Words} \cup (Words \X Words) : Search(words)
    \/ \E f \in Every : handleRemoveFilter(f)
    \/ \E p \in Paths : NavLink(p)
    \/ \E d \in Days : navigateToDateFilter(d)
    \/ \E t \in Tags, parent \in {"home", "memo"} : TagOfMemoPage(t, parent)
    \/ Back
    \/ ReloadPage

-----------------------------------------------------------------------------
FilterTypeOK ==
    IsPart("filters") =>
        /\ w.loc.path \in Paths /\ w.shown.loc.path \in Paths
        /\ \A fs \in {w.loc.q.fs, w.shown.fs, w.pend.add, w.want} :
               ToSet(fs) \subseteq Every /\ IsInjective(fs)
        /\ w.synced.url.fs = w.synced.store.fs
        /\ w.overlap \in BOOLEAN /\ w.crossed \in BOOLEAN

(* Once everything asked for is rendered, the address and the filters say  *)
(* the same: a reload or a link that is passed on shows the same memos     *)
(* (MemoFilterContext.tsx:70, :80).  Not promised after the page was left  *)
(* while a change was under way.  And they say what the user did last with *)
(* nothing under way: neither effect undoes it.                            *)
UrlTrue ==
    IsPart("filters") /\ AtRest /\ ~w.crossed =>
        /\ parseFilterQuery(w.loc.q) = w.shown.fs
        /\ ~w.overlap => w.shown.fs = w.want

(* The two effects do not chase each other for ever.                       *)
Settles == <>[](IsPart("filters") => AtRest)
=============================================================================
