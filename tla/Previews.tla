------------------------------ MODULE Previews ------------------------------
(***************************************************************************)
(* Link previews: the two limiters every outbound fetch goes through, the  *)
(* cache of previews, the images they name, and the cache of their bytes.  *)
(*                                                                         *)
(*   stage    where a request stands; "out" is one not being served        *)
(*   target   the page or image it is for                                  *)
(*   active, queue   globalLimit: slots taken, and its waiters             *)
(*   own      the Limiter of a user; limits says who has one in userLimits *)
(*   cache    previews in the order the map iterates, each with its result *)
(*   known    knownImages, in that order                                   *)
(*   images   imageCache, in that order, each with its size                *)
(*   bytes    imageCacheBytes                                              *)
(*                                                                         *)
(* A fetch runs from its slot to its end outside this process: "head" is   *)
(* connecting, redirects and headers, "body" is reading.  It may fail at   *)
(* any moment (a blocked or broken address, a status, a type, a parse      *)
(* miss), and a peer may never answer; only the deadline is certain.  An   *)
(* entry may expire at any time, which is more than one TTL allows.  Sizes *)
(* are in units; the contents of a page are not kept.                      *)
(***************************************************************************)
EXTENDS Naturals, Sequences, FiniteSets, SequencesExt

CONSTANTS
    Accounts,
    Requests,
    Requester,          \* Requester[q], the account request q comes from
    Pages,
    Images,
    ImagesOf,           \* ImagesOf[p], the image and favicon p's preview names, or Nil
    Thumbs,             \* images matching YOUTUBE_THUMB_RE
    MaxConcurrent,      \* DEFAULT_MAX_CONCURRENT
    MaxPerUser,         \* DEFAULT_MAX_PER_USER
    MaxQueued,          \* MAX_QUEUED_PER_USER
    CacheMax,           \* DEFAULT_CACHE_MAX
    ImageMax,           \* IMAGE_MAX_BYTES
    ImageCacheMax,      \* IMAGE_CACHE_MAX_BYTES
    Nil

ASSUME PreviewsAssumption ==
    /\ Requester \in [Requests -> Accounts]
    /\ ImagesOf \in [Pages -> [image : Images \cup {Nil}, favicon : Images \cup {Nil}]]
    /\ Thumbs \subseteq Images
    /\ Nil \notin Pages \cup Images
    /\ Pages \cap Images = {}
    /\ MaxConcurrent \in Nat \ {0}
    /\ MaxPerUser \in Nat \ {0}
    /\ MaxQueued \in Nat
    /\ CacheMax \in Nat \ {0}
    /\ ImageMax \in Nat \ {0}
    /\ ImageCacheMax \in Nat
    /\ ImageMax <= ImageCacheMax

VARIABLES stage, target, active, queue, own, limits, cache, known, images, bytes

limiterVars == <<active, queue, own, limits>>
imageVars == <<images, bytes>>
cacheVars == <<cache, known, imageVars>>
previewVars == <<stage, target, limiterVars, cacheVars>>

Stages == {"out", "own", "global", "head", "body"}

\* Somebody's request holds a slot of globalLimit.
Fetching(q) == stage[q] \in {"head", "body"}

Entries(K, V) == [key : K, value : V, fresh : BOOLEAN]

PreviewsTypeOK ==
    /\ stage \in [Requests -> Stages]
    /\ target \in [Requests -> Pages \cup Images \cup {Nil}]
    /\ active \in 0..MaxConcurrent
    /\ queue \in Seq(Requests)
    /\ own \in [Accounts -> [active : 0..MaxPerUser, waiting : Seq(Requests)]]
    /\ \A u \in Accounts : Len(own[u].waiting) <= MaxQueued
    /\ limits \subseteq Accounts
    /\ cache \in Seq(Entries(Pages, BOOLEAN)) /\ Len(cache) <= CacheMax
    /\ known \in Seq(Entries(Images, {TRUE})) /\ Len(known) <= 2 * CacheMax
    /\ images \in Seq(Entries(Images, 1..ImageMax))
    /\ bytes \in Nat

NewLimiter == [active |-> 0, waiting |-> <<>>]

PreviewsInit ==
    /\ stage = [q \in Requests |-> "out"]
    /\ target = [q \in Requests |-> Nil]
    /\ active = 0
    /\ queue = <<>>
    /\ own = [u \in Accounts |-> NewLimiter]
    /\ limits = {}
    /\ cache = <<>>
    /\ known = <<>>
    /\ images = <<>>
    /\ bytes = 0

-----------------------------------------------------------------------------
(* Maps that iterate in insertion order.  A definition introduced as a     *)
(* slip is a plausible bug in the one that follows.                        *)

Has(map, k) == \E i \in DOMAIN map : map[i].key = k

At(map, k) == map[CHOOSE i \in DOMAIN map : map[i].key = k]

\* Map.delete of the one entry of k, if there is one.
Without(map, k) ==
    IF Has(map, k) THEN RemoveAt(map, CHOOSE i \in DOMAIN map : map[i].key = k) ELSE map

Entry(k, v) == [key |-> k, value |-> v, fresh |-> TRUE]

\* Map.set: an entry of the same key is replaced where it stands.
Put(map, e) ==
    IF Has(map, e.key)
    THEN [i \in DOMAIN map |-> IF map[i].key = e.key THEN e ELSE map[i]]
    ELSE Append(map, e)

Valid(map, k) == Has(map, k) /\ At(map, k).fresh

\* The map when the time of k's entry is over.
Aged(map, k) ==
    [i \in DOMAIN map |->
        IF map[i].key = k THEN [map[i] EXCEPT !.fresh = FALSE] ELSE map[i]]

\* What lruGet leaves: a valid entry is moved last, an expired one is gone.
Looked(map, k) ==
    IF Valid(map, k) THEN Append(Without(map, k), At(map, k)) ELSE Without(map, k)

\* rememberImage
Remembered(map, k) ==
    LET m == Append(Without(map, k), Entry(k, TRUE))
    IN  IF k = Nil THEN map ELSE IF Len(m) > 2 * CacheMax THEN Tail(m) ELSE m

\* cacheSet: the oldest goes even when p is there already.
Cached(map, p, good) ==
    Put(IF Len(map) >= CacheMax THEN Tail(map) ELSE map, Entry(p, good))

\* SizeTo(map)[i] is the size of the i oldest.
SizeTo(map) ==
    LET S[i \in 0..Len(map)] == IF i = 0 THEN 0 ELSE S[i - 1] + map[i].value IN S

Size(map) == SizeTo(map)[Len(map)]

\* A slip for Evicted: entries go until none is left, for their bytes stay counted.
EvictedKeeping(map, n) ==
    [map |-> IF n > ImageCacheMax THEN <<>> ELSE map, bytes |-> n]

\* imageCacheSet's loop: the oldest go until the count fits or none is left.
Evicted(map, n) ==
    LET After(i) == [map |-> SubSeq(map, i + 1, Len(map)),
                     bytes |-> n - SizeTo(map)[i]]
        Enough(i) == After(i).bytes <= ImageCacheMax \/ i = Len(map)
    IN  After(CHOOSE i \in 0..Len(map) :
                Enough(i) /\ \A j \in 0..(i - 1) : ~Enough(j))

-----------------------------------------------------------------------------
(* The limiters.                                                           *)

L == [active |-> active, queue |-> queue]

\* What q finds at globalLimit.run, and leaves: a slot, or a place in the queue.
GlobalRun(g, q) ==
    IF g.active < MaxConcurrent
    THEN [active |-> g.active + 1, queue |-> g.queue]
    ELSE [active |-> g.active, queue |-> Append(g.queue, q)]

\* A slip for GlobalDone: the slot is freed although a waiter takes it.
GlobalDoneFrees(g) ==
    [active |-> g.active - 1, queue |-> IF g.queue = <<>> THEN <<>> ELSE Tail(g.queue)]

\* The finally of globalLimit.run: the slot goes to the next waiter, or back.
GlobalDone(g) ==
    IF g.queue = <<>>
    THEN [active |-> g.active - 1, queue |-> <<>>]
    ELSE [active |-> g.active, queue |-> Tail(g.queue)]

Idle(l) == l.active = 0 /\ l.waiting = <<>>

\* Who has a limiter in userLimits when a task of u's is over.
Kept(u, l) == IF Idle(l) THEN limits \ {u} ELSE limits

Own(u) == IF u \in limits THEN own[u] ELSE NewLimiter

StageIn(g, q) == IF \E i \in DOMAIN g.queue : g.queue[i] = q THEN "global" ELSE "head"

Full(u) == Own(u).active >= MaxPerUser

Refused(u) == Full(u) /\ Len(Own(u).waiting) >= MaxQueued

\* limited(): q gets a slot of both limiters, waits for one, or is refused.
Acquire(q, t) ==
    LET u == Requester[q]
        l == Own(u)
        g == GlobalRun(L, q)
    IN  \/ /\ ~Full(u)
           /\ own' = [own EXCEPT ![u] = [l EXCEPT !.active = @ + 1]]
           /\ limits' = limits \cup {u}
           /\ active' = g.active
           /\ queue' = g.queue
           /\ stage' = [stage EXCEPT ![q] = StageIn(g, q)]
           /\ target' = [target EXCEPT ![q] = t]
        \/ /\ Full(u) /\ ~Refused(u)
           /\ own' = [own EXCEPT ![u] = [l EXCEPT !.waiting = Append(@, q)]]
           /\ stage' = [stage EXCEPT ![q] = "own"]
           /\ target' = [target EXCEPT ![q] = t]
           /\ UNCHANGED <<active, queue, limits>>
        \/ Refused(u) /\ UNCHANGED <<limiterVars, stage, target>>

\* Both finallys, the waiters they wake, and the idle limiter's removal.
Release(q) ==
    LET u == Requester[q]
        l == own[u]
        g1 == GlobalDone(L)
        next == Head(l.waiting)
        g2 == IF l.waiting = <<>> THEN g1 ELSE GlobalRun(g1, next)
        l2 == IF l.waiting = <<>>
              THEN [l EXCEPT !.active = @ - 1]
              ELSE [l EXCEPT !.waiting = Tail(@)]
    IN  /\ own' = [own EXCEPT ![u] = l2]
        /\ limits' = Kept(u, l2)
        /\ active' = g2.active
        /\ queue' = g2.queue
        /\ target' = [target EXCEPT ![q] = Nil]
        /\ stage' = [r \in Requests |->
                IF r = q THEN "out"
                ELSE IF queue # <<>> /\ r = Head(queue) THEN "head"
                ELSE IF l.waiting # <<>> /\ r = next THEN StageIn(g2, r)
                ELSE stage[r]]

-----------------------------------------------------------------------------
(* Requests.                                                               *)

\* A slip for LookedUp: a refusal leaves a null behind.
LookedUpOrNull(q, p) ==
    IF ~Valid(cache, p) /\ Refused(Requester[q])
    THEN Cached(Looked(cache, p), p, FALSE)
    ELSE Looked(cache, p)

\* The cache once q has asked for p.
LookedUp(q, p) == Looked(cache, p)

\* getPreview up to its fetch: a cached result, null included, is served as it is.
AskPreview(q, p) ==
    /\ stage[q] = "out"
    /\ cache' = LookedUp(q, p)
    /\ IF Valid(cache, p)
       THEN UNCHANGED <<limiterVars, stage, target>>
       ELSE Acquire(q, p)
    /\ UNCHANGED <<known, imageVars>>

Known(i) == i \in Thumbs \/ Valid(known, i)

\* getImage up to its fetch: an image no preview named is not looked for.
AskImage(q, i) ==
    /\ stage[q] = "out"
    /\ known' = IF Known(i) THEN known ELSE Without(known, i)
    /\ IF Known(i)
       THEN /\ images' = Looked(images, i)
            /\ IF Valid(images, i)
               THEN UNCHANGED <<limiterVars, stage, target>>
               ELSE Acquire(q, i)
       ELSE UNCHANGED <<images, limiterVars, stage, target>>
    /\ UNCHANGED <<cache, bytes>>

\* The headers are in, after any redirects; reading begins.
HeadersArrive(q) ==
    /\ stage[q] = "head"
    /\ stage' = [stage EXCEPT ![q] = "body"]
    /\ UNCHANGED <<target, limiterVars, cacheVars>>

\* A page is done: its preview, or null, is cached, and its images are known.
PreviewEnds(q, good) ==
    LET p == target[q]
        named == ImagesOf[p]
    IN  /\ p \in Pages
        /\ Release(q)
        /\ cache' = Cached(cache, p, good)
        /\ known' = IF good
                     THEN Remembered(Remembered(known, named.image), named.favicon)
                     ELSE known
        /\ UNCHANGED imageVars

\* An image is done: its n bytes are cached.
ImageEnds(q, n) ==
    LET after == Evicted(Put(images, Entry(target[q], n)), bytes + n)
    IN  /\ target[q] \in Images
        /\ Release(q)
        /\ images' = after.map
        /\ bytes' = after.bytes
        /\ UNCHANGED <<cache, known>>

\* An image that could not be fetched is not remembered.
ImageFails(q) ==
    /\ target[q] \in Images
    /\ Release(q)
    /\ UNCHANGED cacheVars

BodyArrives(q) ==
    /\ stage[q] = "body"
    /\ PreviewEnds(q, TRUE) \/ \E n \in 1..ImageMax : ImageEnds(q, n)

Fails(q) == PreviewEnds(q, FALSE) \/ ImageFails(q)

\* A refusal on the way: the address, the redirects, the status, the type or the content.
FetchFails(q) == Fetching(q) /\ Fails(q)

\* A slip for TimedOut: the deadline is over once the headers are there.
TimedOutHead(q) == stage[q] = "head"

\* One deadline, set when the slot is taken, covers every hop and the body.
TimedOut(q) == Fetching(q)

Deadline(q) == TimedOut(q) /\ Fails(q)

\* A cached preview, a known image or a cached image gets too old.
Expires(k) ==
    /\ \/ Valid(cache, k) /\ cache' = Aged(cache, k) /\ UNCHANGED <<known, images>>
       \/ Valid(known, k) /\ known' = Aged(known, k) /\ UNCHANGED <<cache, images>>
       \/ Valid(images, k) /\ images' = Aged(images, k) /\ UNCHANGED <<cache, known>>
    /\ UNCHANGED <<stage, target, limiterVars, bytes>>

PreviewsNext ==
    \/ \E q \in Requests :
        \/ \E p \in Pages : AskPreview(q, p)
        \/ \E i \in Images : AskImage(q, i)
        \/ HeadersArrive(q) \/ BodyArrives(q) \/ FetchFails(q) \/ Deadline(q)
    \/ \E k \in Pages \cup Images : Expires(k)

PreviewsSpec == PreviewsInit /\ [][PreviewsNext]_previewVars

\* Timers fire.  Nothing is assumed of the servers at the other end.
Fairness == \A q \in Requests : WF_previewVars(Deadline(q))

FairSpec == PreviewsSpec /\ Fairness

-----------------------------------------------------------------------------
(* Properties.                                                             *)

With(stages, R) == {q \in R : stage[q] \in stages}

\* A slot handed from a finished fetch to a waiter is neither lost nor counted
\* twice: the two levels of counters are the requests that hold slots, nobody
\* waits while there is one to have, the queues hold who waits, and userLimits
\* has a limiter for exactly the users who have something under way.
SlotsAreCounted ==
    /\ PreviewsTypeOK
    /\ active = Cardinality(With({"head", "body"}, Requests))
    /\ ToSet(queue) = With({"global"}, Requests)
    /\ queue # <<>> => active = MaxConcurrent
    /\ \A u \in Accounts :
        LET mine == {q \in Requests : Requester[q] = u}
            l == Own(u)
        IN  /\ l.active = Cardinality(With({"global", "head", "body"}, mine))
            /\ ToSet(l.waiting) = With({"own"}, mine)
            /\ l.waiting # <<>> => l.active = MaxPerUser
            /\ u \in limits <=> ~Idle(own[u])

\* imageCacheBytes is not the size of what is cached: an entry that expires or
\* is fetched twice leaves its bytes in the count (lruGet, imageCacheSet).  It
\* is never less, so the cache keeps to its limit.
BytesCoverTheCache ==
    /\ Size(images) <= bytes
    /\ bytes <= ImageCacheMax

\* A result is cached for a page only as a fetch of that page ends: a refusal
\* because the queue is full leaves no null behind (getPreview).
RefusalsAreNotCached ==
    [][ \A p \in Pages :
          /\ Has(cache', p)
          /\ Has(cache, p) => At(cache', p).value # At(cache, p).value
          => \E q \in Requests :
                target[q] = p /\ Fetching(q) /\ stage'[q] = "out" ]_previewVars

\* Whatever the other end does, a request that waits in either queue or for an
\* answer is over some day: one deadline per fetch is enough for those behind.
EveryRequestIsAnswered ==
    \A q \in Requests : stage[q] # "out" ~> stage[q] = "out"

=============================================================================
