CONSTANTS
    p1 = p1  p2 = p2  p3 = p3  h1 = h1  h2 = h2  h3 = h3  h4 = h4
    Proc = {p1, p2}
    Handle = {h1, h2, h3}
    ProcOf <- TwoAndOne
    NoHandle = NoHandle
    OpenFails = {p2}
    DeferFails = TRUE
    MaxDeferred = 1
SPECIFICATION FairSpec
INVARIANTS TypeOK Exclusion Accounting KernelMatches DeferredCloseIsDone
    ReservedIsSeen AssertsHold
PROPERTIES ImplementsFileLock PendingIsServed
