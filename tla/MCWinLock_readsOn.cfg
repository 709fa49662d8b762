SPECIFICATION Spec
CONSTANTS
    Handle = {h1, h2, h3}
    Byte = {0, 1}
    May = {"readsOn"}
INVARIANT Exclusion
