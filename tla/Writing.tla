------------------------------- MODULE Writing -------------------------------
(***************************************************************************)
(* What the client does to the text of a memo, line by line:              *)
(*   lines    Enter in a list of the editor (MemoEditor/Editor/           *)
(*            useListCompletion.ts, utils/markdown-list-detection.ts);     *)
(*   tasks    a task ticked in the memo shown, the finished tasks removed *)
(*            (utils/markdown-manipulation.ts, MemoContent/               *)
(*            TaskListItem.tsx);                                          *)
(*   suggest  the tags and commands suggested at the caret                *)
(*            (MemoEditor/Editor/useSuggestions.ts).                      *)
(***************************************************************************)
EXTENDS Widget, Integers, FiniteSets, SequencesExt

CONSTANTS MaxLines,     \* lines of a memo with tasks
          Items,        \* the tags or commands there are, the ones used most first
          Queries,      \* what is typed after the trigger character
          Matching,     \* the items that match each query
          NoWord        \* the caret is at no word, or at one without the trigger

ASSUME MaxLinesIsNat == MaxLines \in Nat
ASSUME ItemsAreListed == Items \in Seq(ToSet(Items)) /\ IsInjective(Items)
ASSUME MatchingOfQueries == Matching \in [Queries -> SUBSET ToSet(Items)]

-----------------------------------------------------------------------------
(* lines.  A line has an indent, the mark of a list, the number of an      *)
(* ordered one, a checkbox, white space after the last of them, and text.  *)
Line == [indent : 0..1, mark : {"none", "-", "1.", "1)"}, num : 0..5,
         box : {"none", "open", "done"}, gap : BOOLEAN, text : BOOLEAN]

Numbered(line) == line.mark \in {"1.", "1)"}
Boxed(line) == line.box # "none"

(* What a user can have typed: no text glued to the mark of a list.        *)
Typable == {line \in Line : /\ line.num = (IF Numbered(line) THEN 1 ELSE 0)
                           /\ (line.mark = "none" => ~Boxed(line) /\ ~line.gap)
                           /\ (line.mark # "none" /\ line.text => line.gap)}

BlankLine == [indent |-> 0, mark |-> "none", num |-> 0, box |-> "none", gap |-> FALSE,
              text |-> FALSE]

(* detectLastListItem: the mark needs white space after it, which the      *)
(* space before a checkbox is; a task is detected by its own white space.  *)
detectLastListItem(line) ==
    CASE line.mark = "-" /\ Boxed(line) /\ line.gap -> "task"
      [] line.mark = "-" /\ (Boxed(line) \/ line.gap) -> "unordered"
      [] Numbered(line) /\ (Boxed(line) \/ line.gap) -> "ordered"
      [] OTHER -> "none"

(* Mutant of isEmptyListItem: an empty task is not one. *)
isEmptyButTask(line) ==
    ~line.text /\ ~Boxed(line) /\ (line.mark = "-" \/ Numbered(line))

isEmptyListItem(line) == ~line.text /\ (line.mark = "-" \/ (Numbered(line) /\ ~Boxed(line)))

(* The item that goes on the list: a task to do, or the next number, with  *)
(* a full stop whatever the delimiter was.                                 *)
generateListContinuation(line) ==
    LET type == detectLastListItem(line)
    IN [indent |-> line.indent,
        mark |-> IF type = "ordered" THEN "1." ELSE line.mark,
        num |-> IF type = "ordered" THEN line.num + 1 ELSE 0,
        box |-> IF type = "task" THEN "open" ELSE "none",
        gap |-> TRUE, text |-> line.text]

(* tail: the caret is between the mark and the text, not at the end;       *)
(* above: what was left of the caret at the last Enter; pressed: how often *)
(* Enter was pressed since something else was done.                        *)
LinesInit ==
    \E line \in Typable :
        w = [part |-> "lines", acts |-> 0,
             line |-> line, tail |-> FALSE, above |-> BlankLine, pressed |-> 0]

(* What is left of the caret decides; what is right of it stays there.  A  *)
(* line that is no list item breaks as in any text area.                   *)
Enter ==
    LET before == [w.line EXCEPT !.text = @ /\ ~w.tail]
        item == detectLastListItem(before) # "none"
        mark == IF item /\ ~isEmptyListItem(before) THEN generateListContinuation(before)
                                                    ELSE BlankLine
    IN /\ May("lines")
       /\ w.line.num < 5
       /\ w' = [w EXCEPT !.acts = @ + 1, !.pressed = @ + 1,
                         !.above = before,
                         !.line = [mark EXCEPT !.text = w.tail]]

MoveCaret ==
    /\ May("lines")
    /\ w.line.text
    /\ w' = [w EXCEPT !.acts = @ + 1, !.pressed = 0, !.tail = ~@]

TypeText ==
    /\ May("lines")
    /\ ~w.line.text
    /\ (w.line.mark # "none" => w.line.gap)
    /\ w' = [w EXCEPT !.acts = @ + 1, !.line.text = TRUE, !.pressed = 0]

-----------------------------------------------------------------------------
(* tasks.  The lines of a memo: plain text, an empty line, a fence of a    *)
(* code block, or a task with a mark, indented by four spaces when nested. *)
TextLine == [kind |-> "text"]
EmptyLine == [kind |-> "empty"]
Fence == [kind |-> "fence"]
TaskLine == [kind : {"task"}, numbered : {FALSE}, nested : BOOLEAN, done : BOOLEAN]
                \cup [kind : {"task"}, numbered : {TRUE}, nested : {FALSE}, done : BOOLEAN]
MemoLine == {TextLine, EmptyLine, Fence} \cup TaskLine

(* Is line i inside a code block? *)
InFence(doc, i) == Cardinality({j \in 1..i : doc[j] = Fence}) % 2 = 1

(* A list is over at a fence, or at a paragraph of its own.                *)
EndsList(doc, j) ==
    doc[j] = Fence \/ (doc[j] = TextLine /\ j > 1 /\ doc[j - 1] = EmptyLine)

(* A task at the margin starts or goes on a list; a nested one belongs to  *)
(* a list that is still open, or it is no task.                            *)
IsRoot(doc, i) == doc[i] \in TaskLine /\ ~doc[i].nested /\ ~InFence(doc, i)
IsNested(doc, i) ==
    /\ doc[i] \in TaskLine /\ doc[i].nested
    /\ \E j \in 1..(i - 1) : IsRoot(doc, j) /\ \A k \in j..i : ~EndsList(doc, k)
IsTask(doc, i) == IsRoot(doc, i) \/ IsNested(doc, i)

(* The lines of the tasks, as the page shows them and as the code finds    *)
(* them: both read the same tree.                                          *)
TaskLines(doc) == {i \in DOMAIN doc : IsTask(doc, i)}
RenderedTasks(doc) == Ascending(TaskLines(doc))

(* Mutant of extractTasksFromAst: whatever line looks like a task is one. *)
extractTasksByPattern(doc) == Ascending({i \in DOMAIN doc : doc[i] \in TaskLine})

extractTasksFromAst(doc) == Ascending(TaskLines(doc))

(* The pattern that ticks a line knows the marks of unordered lists only.  *)
toggleTaskAtLine(doc, i, checked) ==
    IF doc[i] \in TaskLine /\ ~doc[i].numbered THEN [doc EXCEPT ![i].done = checked] ELSE doc

toggleTaskAtIndex(doc, n, checked) ==
    IF n \in DOMAIN extractTasksFromAst(doc)
      THEN toggleTaskAtLine(doc, extractTasksFromAst(doc)[n], checked)
      ELSE doc

Finished(doc) == {i \in ToSet(extractTasksFromAst(doc)) : doc[i].done}

(* A finished task goes with the empty line below it.                      *)
Dropped(doc) ==
    Finished(doc) \cup {i \in DOMAIN doc : doc[i] = EmptyLine /\ i - 1 \in Finished(doc)}

removeCompletedTasks(doc) == At(doc, DOMAIN doc \ Dropped(doc))

(* clicked: the line of the task ticked by the last step, or 0.            *)
TasksInit ==
    \E n \in 0..MaxLines : \E doc \in [1..n -> MemoLine] :
        w = [part |-> "tasks", acts |-> 0, doc |-> doc, clicked |-> 0]

(* The task clicked is found by its place among the tasks of the page.     *)
handleChange(n) ==
    /\ May("tasks")
    /\ n \in DOMAIN RenderedTasks(w.doc)
    /\ LET i == RenderedTasks(w.doc)[n]
       IN w' = [w EXCEPT !.acts = @ + 1, !.clicked = i,
                         !.doc = toggleTaskAtIndex(@, n, ~@[i].done)]

handleRemoveCompletedTaskListItems ==
    /\ May("tasks")
    /\ Finished(w.doc) # {}
    /\ w' = [w EXCEPT !.acts = @ + 1, !.clicked = 0, !.doc = removeCompletedTasks(@)]

-----------------------------------------------------------------------------
(* suggest.  word: what follows the trigger at the caret; list: the items  *)
(* that match it, as they were at the last render; sel: the entry          *)
(* selected; position: the popup has one; moved: a key put the caret at    *)
(* another word since the last input; stale: the list changed since then.  *)
suggestions(items, word) ==
    IF word = NoWord THEN <<>> ELSE At(items, {i \in DOMAIN items : items[i] \in Matching[word]})

SuggestInit ==
    \E items \in Prefixes(Items) :
        w = [part |-> "suggest", acts |-> 0, items |-> items, word |-> NoWord, list |-> <<>>,
             sel |-> 0, position |-> FALSE, moved |-> FALSE, stale |-> FALSE]

isVisible == w.position /\ w.list # <<>>

(* The text changed: the popup is shown at a word with the trigger.        *)
InputAt(word, sel) ==
    /\ May("suggest")
    /\ w' = [w EXCEPT !.acts = @ + 1, !.word = word, !.sel = sel, !.position = word # NoWord,
                      !.list = suggestions(w.items, word), !.moved = FALSE, !.stale = FALSE]

(* Mutant of handleInput: the selection stays where it was. *)
handleInputKeeping(word) == InputAt(word, w.sel)
handleInput(word)        == InputAt(word, 0)

(* The caret is put at another word by a click, which hides the popup, ... *)
ClickAt(word) ==
    /\ May("suggest")
    /\ w' = [w EXCEPT !.acts = @ + 1, !.word = word, !.position = FALSE]

(* ... or by a key of which the popup knows nothing, Home, End, PageUp or  *)
(* PageDown, with a popup open: it stays, and nothing renders.             *)
CaretKey(word) ==
    /\ May("suggest")
    /\ word # w.word
    /\ w' = [w EXCEPT !.acts = @ + 1, !.word = word, !.moved = TRUE]

(* Escape, an arrow to the side, a click or the loss of the focus.         *)
hide == May("suggest") /\ w.position /\ w' = [w EXCEPT !.acts = @ + 1, !.position = FALSE]

(* A render makes the list for the word that is at the caret by then.      *)
Listing(state) ==
    LET list == suggestions(state.items, state.word)
    IN [state EXCEPT !.list = list, !.stale = @ \/ list # state.list]

(* The keys go round the list of the last render; the same entry again     *)
(* renders nothing.                                                        *)
handleNavigation(step) ==
    /\ May("suggest")
    /\ isVisible
    /\ LET n == Len(w.list)
           selected == [w EXCEPT !.acts = @ + 1, !.sel = (@ + step + n) % n]
       IN w' = IF selected.sel = w.sel THEN selected ELSE Listing(selected)

(* Enter, Tab or a click takes an item: the word is replaced, and a space  *)
(* follows it.                                                             *)
handleAutocomplete ==
    /\ May("suggest")
    /\ isVisible
    /\ w' = [w EXCEPT !.acts = @ + 1, !.word = NoWord, !.list = <<>>, !.position = FALSE]

(* The tags are fetched again, or the editor renders for another reason.   *)
Rendered(items) ==
    /\ May("suggest")
    /\ w' = Listing([w EXCEPT !.acts = @ + 1, !.items = items])

-----------------------------------------------------------------------------
WritingInit == LinesInit \/ TasksInit \/ SuggestInit

LinesNext == Enter \/ MoveCaret \/ TypeText

TasksNext ==
    \/ \E n \in 1..MaxLines : handleChange(n)
    \/ handleRemoveCompletedTaskListItems

SuggestNext ==
    \/ \E word \in Queries \cup {NoWord} : handleInput(word) \/ ClickAt(word) \/ CaretKey(word)
    \/ hide
    \/ \E step \in {-1, 1} : handleNavigation(step)
    \/ handleAutocomplete
    \/ \E items \in Prefixes(Items) : Rendered(items)

WritingNext == LinesNext \/ TasksNext \/ SuggestNext

(* Enter after an item that has text writes one of the same list: of the   *)
(* same kind and indent, a task to do, with the next number.  Pressed      *)
(* twice in a row, with nothing typed, it ends any list: what the first    *)
(* one writes is what the second one takes for an empty item               *)
(* (useListCompletion.ts:12-55, markdown-list-detection.ts:53-67).         *)
ListsGoOn ==
    IsPart("lines") =>
        /\ w.pressed = 1 /\ w.above.text /\ detectLastListItem(w.above) # "none" =>
               /\ detectLastListItem(w.line) = detectLastListItem(w.above)
               /\ w.line.indent = w.above.indent
               /\ w.line.box # "done"
               /\ Numbered(w.line) => w.line.num = w.above.num + 1
        /\ w.pressed >= 2 => w.line.mark = "none"

(* A task ticked on the page changes that task and no other line, whatever *)
(* looks like a task in code blocks and paragraphs above it                *)
(* (TaskListItem.tsx:25-55); a numbered task does not change at all.       *)
(* Removing the finished tasks leaves none at the margin and keeps those   *)
(* to do there, tasks as they were (markdown-manipulation.ts:73-96).       *)
RootsThat(doc, done) == {i \in DOMAIN doc : IsRoot(doc, i) /\ doc[i].done = done}
TasksTrue ==
    [][IsPart("tasks") =>
          IF w'.clicked # 0
            THEN /\ DOMAIN w'.doc = DOMAIN w.doc
                 /\ \A i \in DOMAIN w.doc :
                        IF i = w'.clicked /\ ~w.doc[i].numbered
                          THEN w'.doc[i] = [w.doc[i] EXCEPT !.done = ~@]
                          ELSE w'.doc[i] = w.doc[i]
            ELSE /\ RootsThat(w'.doc, TRUE) = {}
                 /\ Cardinality(RootsThat(w'.doc, FALSE)) = Cardinality(RootsThat(w.doc, FALSE))]_w

(* While the popup is open the entry selected is one of those in its list, *)
(* so that Enter puts in what is highlighted (useSuggestions.ts:86-125),   *)
(* whatever was typed, chosen and left, and although Home or End took the  *)
(* caret elsewhere, as long as no render has made another list since the   *)
(* last input; and the list is the one for the word at the caret, the one  *)
(* Enter replaces, unless a key took the caret away from it.               *)
SelectedShown ==
    IsPart("suggest") /\ isVisible =>
        /\ ~w.stale => w.sel < Len(w.list)
        /\ ~w.moved => w.list = suggestions(w.items, w.word)
=============================================================================
