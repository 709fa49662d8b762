CONSTANTS
    p1 = p1  p2 = p2  p3 = p3  h1 = h1  h2 = h2  h3 = h3  h4 = h4
    Proc = {p1, p2}
    Handle = {h1, h2, h3}
    ProcOf <- TwoAndOne
    NoHandle = NoHandle
    OpenFails = {p1, p2}
    DeferFails = FALSE
    MaxDeferred = 1
SPECIFICATION Spec
INVARIANT LocksSurviveClose
