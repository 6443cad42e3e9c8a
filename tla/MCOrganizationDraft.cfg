CONSTANTS
    Agents = {a1, a2}
    Keys = {k}
    n1 = n1
    n2 = n2
    Noted = {n1, n2}
    NotedEdges <- OneContained
    Related <- ToNewEvents
    Annotation = Annotation
    Unread = Unread
    MaxRestarts = 1
SPECIFICATION Spec
SYMMETRY Symmetry
CHECK_DEADLOCK FALSE
INVARIANTS
    BookIsForest
    UnsavedHasAuthor
    ReportIsTaken
