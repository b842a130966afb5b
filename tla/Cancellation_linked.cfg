SPECIFICATION FairSpec
CONSTANTS
    root = root
    linked = linked
    ofRoot = ofRoot
    ofLinked = ofLinked
    onRoot = onRoot
    Nobody = Nobody
    Threads = {t1, t2}
    Sources = {root, linked}
    Tokens = {ofRoot, ofLinked}
    Callbacks = {onRoot}
    Links = {linked}
    Timed = {root}
    SourceOf <- TokensOfBoth
    TokenOf <- CallbackAndLink
INVARIANTS
    TypeOK
    CancelReachesTokens
    LinkedSourceAlive
PROPERTIES
    NoCallAfterUnregister
    CallsReturn
    TimeoutReachesTokens
