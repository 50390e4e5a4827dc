CONSTANTS
    p1 = p1
    p2 = p2
    k1 = k1
    k2 = k2
    ts = ts
    NilObject = NilObject
    Procs <- MCProcs
    Keys <- MCKeys
    CacheType = "filesystem"
    ContentLength = 3
    Wants <- MCWants
    Responses <- MCResponses
    MediaTypeOf <- MCMediaTypeOf
    CompressTypes = {"text/plain"}
    DocIds = {1, 2, 3}
    MaxRequests = 2
    StoreMayFail = TRUE
    OtherRefs = {}
SPECIFICATION Spec
INVARIANTS
    TypeOK
    CacheReadsLastWrite
    NoVolatileHeadersFromCache
    StatusMatchesDelta
PROPERTIES
    RefinesAbstractCache
