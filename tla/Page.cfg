CONSTANTS
    m1 = m1
    m2 = m2
    m3 = m3
    i1 = i1
    i2 = i2
    i3 = i3
    all = all
    some = some
    one = one
    MaxActs <- MCMaxActs
    Tags = {t1, t2}
    Words = {w1}
    Days = {d1}
    Users = {u1, u2}
    SearchTexts = {x1, x2}
    Points = {p1, p2}
    Here = here
    Nothing = Nothing
    MaxLines = 4
    Items <- MCItems
    Queries = {all, some, one}
    Matching <- MCMatching
    NoWord = NoWord
    Lists <- MCLists
    Heights = {1, 3}
    Widths = {1, 2, 3}
    NoTimer = NoTimer
SPECIFICATION PageFairSpec
INVARIANTS
    UrlTrue
    AnswersTrue
    ListsGoOn
    SelectedShown
    GridTrue
PROPERTIES
    TasksTrue
    Settles
CHECK_DEADLOCK FALSE
