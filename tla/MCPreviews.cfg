SPECIFICATION FairSpec
CONSTANTS
    ann = ann
    bob = bob
    q1 = q1
    i1 = i1
    i2 = i2
    Accounts = {ann, bob}
    Requests = {q1, q2, q3, q4}
    Requester <- MCRequester
    Pages = {p1}
    Images = {i1, i2}
    ImagesOf <- MCImagesOf
    Thumbs = {}
    MaxConcurrent = 1
    MaxPerUser = 1
    MaxQueued = 1
    CacheMax = 1
    ImageMax = 1
    ImageCacheMax = 1
    Nil = Nil
INVARIANTS
    SlotsAreCounted
    BytesCoverTheCache
PROPERTIES
    RefusalsAreNotCached
    EveryRequestIsAnswered
