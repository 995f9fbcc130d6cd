SPECIFICATION Spec
CONSTANTS
    p1 = p1
    p2 = p2
    e1 = e1
    e2 = e2
    Presses = {p1, p2}
    Editors = {e1, e2}
    NoEditor = NoEditor
    MaxRefreshes = 2
INVARIANTS CancelledPictureNotPosted
