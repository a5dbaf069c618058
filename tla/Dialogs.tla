------------------------------- MODULE Dialogs -------------------------------
(***************************************************************************)
(* Three parts of the page that ask a server about what the user looks at *)
(* or points to, and must not mix up the answers:                         *)
(*   profile  MainLayout asks for the user of a profile page, whose       *)
(*            statistics the side panel shows (layouts/MainLayout.tsx);    *)
(*   link     the dialog that searches for a memo to refer to, 300 ms     *)
(*            after the last key (MemoEditor/hooks/useLinkMemo.ts);        *)
(*   place    the dialog that attaches a place: the map gives a position, *)
(*            a geocoding service its name (MemoEditor/Toolbar/            *)
(*            InsertMenu.tsx, hooks/useLocation.ts, useAbortController.ts).*)
(***************************************************************************)
EXTENDS Widget

CONSTANTS Users,      \* users that have a profile page
          SearchTexts,      \* texts that are searched for
          Points,     \* positions on the map
          Here,       \* the position the browser tells
          Nothing        \* no user, no position, nothing found

ASSUME NothingIsOutside == Nothing \notin Users \cup SearchTexts \cup Points \cup {Here}

-----------------------------------------------------------------------------
(* Profile.  late: the answer applied last was about another profile than  *)
(* the one shown.                                                          *)
ProfileInit ==
    w = [part |-> "profile", acts |-> 0,
         page |-> "home", asks |-> {}, stats |-> Nothing, late |-> FALSE]

(* A profile is asked for; the statistics stay until the answer.           *)
VisitProfile(u) ==
    /\ May("profile")
    /\ w.page # u
    /\ w' = [w EXCEPT !.acts = @ + 1, !.page = u, !.asks = @ \cup {u}]

VisitHome ==
    /\ May("profile")
    /\ w.page # "home"
    /\ w' = [w EXCEPT !.acts = @ + 1, !.page = "home", !.stats = Nothing]

setProfileUserName(u, stats) ==
    /\ IsPart("profile")
    /\ u \in w.asks
    /\ w' = [w EXCEPT !.asks = @ \ {u}, !.stats = stats, !.late = u # w.page]

ProfileFound(u) == setProfileUserName(u, u)

ProfileFailed(u) == setProfileUserName(u, Nothing)

-----------------------------------------------------------------------------
(* Link.  timer: the 300 ms are running; asks: the searches under way;     *)
(* good: the last search to settle was the last one sent, and it succeeded. *)
NoText == ""

LinkInit ==
    w = [part |-> "link", acts |-> 0, open |-> FALSE, text |-> NoText, timer |-> TRUE, asks |-> {},
         asked |-> NoText, fetching |-> TRUE, found |-> Nothing, rels |-> {}, good |-> FALSE]

(* useDebounce: the timer starts again when isOpen or searchText changes.  *)
Debounced(rec) == [rec EXCEPT !.timer = @ \/ rec.open # w.open \/ rec.text # w.text]

SetLinkOpen(open) ==
    /\ May("link")
    /\ w.open # open
    /\ w' = Debounced([w EXCEPT !.acts = @ + 1, !.open = open])

setSearchText(t) ==
    /\ May("link")
    /\ w.open
    /\ w' = Debounced([w EXCEPT !.acts = @ + 1, !.text = t])

(* The timer has run out: the search is for the text of the last render.   *)
LinkSearch ==
    /\ IsPart("link")
    /\ w.timer
    /\ w' = IF w.open
              THEN [w EXCEPT !.timer = FALSE, !.fetching = TRUE, !.asks = @ \cup {w.text},
                             !.asked = w.text]
              ELSE [w EXCEPT !.timer = FALSE]

LinkFound(t) ==
    /\ IsPart("link")
    /\ t \in w.asks
    /\ w' = [w EXCEPT !.asks = @ \ {t}, !.found = t, !.fetching = FALSE, !.good = t = w.asked]

LinkFailed(t) ==
    /\ IsPart("link")
    /\ t \in w.asks
    /\ w' = [w EXCEPT !.asks = @ \ {t}, !.fetching = FALSE, !.good = FALSE]

(* A memo found is picked: memos that are related already are not shown.   *)
addMemoRelation ==
    /\ May("link")
    /\ w.open
    /\ w.found \notin {Nothing} \cup w.rels
    /\ w' = Debounced([w EXCEPT !.acts = @ + 1, !.rels = @ \cup {w.found}, !.open = FALSE])

-----------------------------------------------------------------------------
(* Place.  A name is the position it was given for.  asks: the geocoding   *)
(* requests that are not aborted; geo: the browser was asked for its       *)
(* position.  typed: the name is the user's; moved: the position was       *)
(* changed without asking for its name; cancelled: the dialog was          *)
(* cancelled; told: the browser answered after that.                       *)
NoPlace == [pos |-> Nothing, name |-> Nothing]

PlaceInit ==
    \E saved \in {NoPlace} \cup {[pos |-> p, name |-> p] : p \in Points} :
        w = [part |-> "place", acts |-> 0, pos |-> saved.pos, name |-> saved.name, saved |-> saved,
             open |-> FALSE, init |-> FALSE, geo |-> FALSE, asks |-> {},
             typed |-> FALSE, moved |-> FALSE, cancelled |-> FALSE, told |-> FALSE]

handleLocationClick ==
    /\ May("place")
    /\ ~w.open
    /\ w' = [w EXCEPT !.acts = @ + 1, !.open = TRUE, !.cancelled = FALSE,
                      !.geo = @ \/ (w.saved = NoPlace /\ ~w.init)]

Geolocated ==
    /\ IsPart("place")
    /\ w.geo
    /\ w' = [w EXCEPT !.geo = FALSE, !.init = TRUE, !.pos = Here, !.moved = TRUE,
                      !.told = w.cancelled]

GeolocationFailed == IsPart("place") /\ w.geo /\ w' = [w EXCEPT !.geo = FALSE]

(* Mutant of abortAndCreate: the requests made before go on. *)
createOnly(asks, p) == asks \cup {p}

(* The requests left when another one is made, or when the dialog is       *)
(* cancelled.                                                              *)
abort(asks) == {}
abortAndCreate(asks, p) == abort(asks) \cup {p}

handlePositionChange(p) ==
    /\ May("place")
    /\ w.open
    /\ w' = [w EXCEPT !.acts = @ + 1, !.init = TRUE, !.pos = p, !.moved = FALSE,
                      !.asks = abortAndCreate(@, p)]

(* The answer, or the coordinates when the service fails.                  *)
fetchReverseGeocode(p) ==
    /\ IsPart("place")
    /\ p \in w.asks
    /\ w' = [w EXCEPT !.asks = @ \ {p}, !.name = p, !.typed = FALSE]

setPlaceholder ==
    /\ May("place")
    /\ w.open
    /\ w.pos # Nothing
    /\ w' = [w EXCEPT !.acts = @ + 1, !.name = "typed", !.typed = TRUE]

(* A coordinate typed moves the position, if there is one, and that alone. *)
updateCoordinate(p) ==
    /\ May("place")
    /\ w.open
    /\ w.pos # Nothing
    /\ w' = [w EXCEPT !.acts = @ + 1, !.pos = p, !.moved = TRUE]

handleLocationConfirm ==
    /\ May("place")
    /\ w.open
    /\ w.pos # Nothing /\ w.name # Nothing
    /\ w' = [w EXCEPT !.acts = @ + 1, !.saved = [pos |-> w.pos, name |-> w.name], !.open = FALSE]

handleLocationCancel ==
    /\ May("place")
    /\ w.open
    /\ w' = [w EXCEPT !.acts = @ + 1, !.asks = abort(@), !.pos = Nothing, !.name = Nothing,
                      !.init = FALSE, !.open = FALSE, !.typed = FALSE, !.moved = FALSE,
                      !.cancelled = TRUE, !.told = FALSE]

(* The dialog is left by its cross or by Escape: nothing but open changes. *)
DismissPlace == May("place") /\ w.open /\ w' = [w EXCEPT !.acts = @ + 1, !.open = FALSE]

(* The place is taken off the memo in the editor's metadata.               *)
RemovePlace ==
    /\ May("place")
    /\ ~w.open
    /\ w.saved # NoPlace
    /\ w' = [w EXCEPT !.acts = @ + 1, !.saved = NoPlace]

-----------------------------------------------------------------------------
DialogsInit == ProfileInit \/ LinkInit \/ PlaceInit

ProfileNext ==
    \/ \E u \in Users : VisitProfile(u) \/ ProfileFound(u) \/ ProfileFailed(u)
    \/ VisitHome

LinkNext ==
    \/ \E open \in BOOLEAN : SetLinkOpen(open)
    \/ \E t \in SearchTexts \cup {NoText} : setSearchText(t) \/ LinkFound(t) \/ LinkFailed(t)
    \/ LinkSearch
    \/ addMemoRelation

PlaceNext ==
    \/ handleLocationClick
    \/ Geolocated
    \/ GeolocationFailed
    \/ \E p \in Points : handlePositionChange(p) \/ fetchReverseGeocode(p) \/ updateCoordinate(p)
    \/ setPlaceholder
    \/ handleLocationConfirm
    \/ handleLocationCancel
    \/ DismissPlace
    \/ RemovePlace

DialogsNext == ProfileNext \/ LinkNext \/ PlaceNext

(* An answer is shown for what it was asked about and for nothing else.    *)
(*   The panel of a profile page never keeps the statistics of another      *)
(* user once the answers are in (MainLayout.tsx:38-45), whatever pages were *)
(* visited in between, unless an answer came late and was applied last.     *)
(*   With no search under way the link dialog lists the memos of the text   *)
(* it shows, and says so (useLinkMemo.ts:27-50), when the last search sent  *)
(* succeeded and was the last one answered.                                 *)
(*   With no geocoding under way the name is that of the position shown,    *)
(* unless the user typed one of them (InsertMenu.tsx:117-134), and a place  *)
(* that was cancelled stays so (InsertMenu.tsx:83-87): no answer brings it  *)
(* back the next time the dialog is opened, but for the browser's own.      *)
AnswersTrue ==
    /\ IsPart("profile") /\ w.asks = {} /\ w.page \in Users /\ ~w.late => w.stats \in {w.page, Nothing}
    /\ IsPart("link") /\ w.open /\ ~w.timer /\ w.asks = {} /\ w.good =>
           w.found = w.text /\ ~w.fetching
    /\ IsPart("place") =>
           /\ w.asks = {} /\ ~w.typed /\ ~w.moved => w.name = w.pos
           /\ w.cancelled /\ ~w.told => [pos |-> w.pos, name |-> w.name] = NoPlace
=============================================================================
