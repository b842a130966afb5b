SPECIFICATION Spec
CONSTANTS
    root = root
    linked = linked
    ofRoot = ofRoot
    ofLinked = ofLinked
    onRoot = onRoot
    Nobody = Nobody
    Threads = {t1, t2}
    Sources = {root}
    Tokens = {ofRoot}
    Callbacks = {onRoot}
    Links = {}
    Timed = {}
    SourceOf <- TokenOfRoot
    TokenOf <- CallbackOnly
INVARIANTS
    RegisteredMeansCalled
