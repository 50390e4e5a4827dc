---------------------------- MODULE CachePipeline ----------------------------
(***************************************************************************)
(* The cache pipeline of src/pkg/proxy/engines/cache.go: QueryCache,       *)
(* WriteCache and DocumentFromHTTPResponse, run concurrently by request    *)
(* handlers (Procs) against one shared cache.                              *)
(*                                                                         *)
(* A memory cache (CacheType = "memory", the default provider of           *)
(* cache/options/defaults) stores the live *HTTPDocument by reference, so  *)
(* every handler that reads a key shares one object in the heap `docs`.    *)
(* Any other provider stores bytes: a compression byte and a msgpack       *)
(* payload, decoded into a fresh document on every read.                   *)
(*                                                                         *)
(* A handler serves a request in steps: QueryCache's lookup, QueryCache's  *)
(* classification (which writes d.isFulfillment), the caller's response    *)
(* (Respond), an upstream fetch turned into a document by                  *)
(* DocumentFromHTTPResponse (Fetch), and WriteCache.  Respond and the      *)
(* choice to fetch or revalidate are the caller's code, modelled from the  *)
(* spec; the other steps are translated from cache.go.                     *)
(***************************************************************************)
EXTENDS Integers, Sequences, FiniteSets, Functions, TLC, RangeAlgebra

CONSTANTS
    Procs,          \* request handler goroutines
    Keys,           \* cache keys
    CacheType,      \* provider of the cache: "memory" or a byte store
    ContentLength,  \* length of the origin object, when it is known
    Wants,          \* range sets a client may ask for; <<>> is the whole body
    Responses,      \* upstream responses the origin may return
    MediaTypeOf,    \* mime.ParseMediaType: Content-Type value -> media type
                    \* (values outside its domain fail to parse)
    CompressTypes,  \* media types the backend compresses
    DocIds,         \* heap addresses of HTTPDocument objects
    MaxRequests,    \* requests each handler serves
    StoreMayFail,   \* whether a byte store's Retrieve/Store may fail
    OtherRefs,      \* what else a memory cache may hold under a key: objects
                    \* of other types stored by other users of the cache
    NilObject       \* a nil reference held under a key

NoRef == 0

ASSUME /\ NoRef \notin DocIds
       /\ Cardinality(DocIds) >= Cardinality(Procs) + Cardinality(Keys)
       /\ ContentLength \in Nat \ {0}
       /\ MaxRequests \in Nat \ {0}
       /\ StoreMayFail \in BOOLEAN
       /\ (OtherRefs \cup {NilObject}) \cap DocIds = {}

VARIABLES
    store,    \* store[k]: {} (absent), {id} or {other} (memory), {blob} (bytes)
    docs,     \* the heap: live HTTPDocument objects by address
    pc,       \* pc[p]: the step handler p is at
    key,      \* key[p]: the key of p's current request
    want,     \* want[p]: the ranges p's client asked for
    ref,      \* ref[p]: address of the document p holds, or NoRef
    status,   \* status[p]: lookup status QueryCache returned to p
    delta,    \* delta[p]: missing ranges QueryCache returned to p
    fulfil,   \* fulfil[p]: the isFulfillment value p's QueryCache computed
    reqs,     \* reqs[p]: requests p has finished
    written,  \* history: written[k] = {content of the last write of k} or {}
    seen      \* history: seen[p] = written[key[p]] when p's lookup ran

vars == <<store, docs, pc, key, want, ref, status, delta, fulfil, reqs,
          written, seen>>

-----------------------------------------------------------------------------
(* Headers are sets of <<name, value>> pairs.                              *)

Del(h, n) == {x \in h : x[1] # n}
Get(h, n) == IF \E x \in h : x[1] = n THEN (CHOOSE x \in h : x[1] = n)[2] ELSE ""

\* Headers WriteCache removes before a document is cached.
VolatileHeaders == {"Date", "Transfer-Encoding", "Content-Range",
                    "X-Trickster-Result"}

\* Mutant: Transfer-Encoding survives the scrub.
ScrubHeadersKeepsTE(h) ==
    Del(Del(Del(h, "Date"), "Content-Range"), "X-Trickster-Result")

\* Mutant: Content-Range survives the scrub.
ScrubHeadersKeepsCR(h) ==
    Del(Del(Del(h, "Date"), "Transfer-Encoding"), "X-Trickster-Result")

\* cache.go 167-174: the header scrub done under d.headerLock.
ScrubHeaders(h) ==
    Del(Del(Del(Del(h, "Date"), "Transfer-Encoding"), "Content-Range"),
        "X-Trickster-Result")

\* CachingPolicy.ResetClientConditionals on a (possibly nil) policy.
ResetClientConditionals(cp) ==
    IF cp.present THEN [cp EXCEPT !.clientConditional = FALSE] ELSE cp

\* cache.go 180-187: compress only identity-encoded, transformable content
\* whose parsed media type is one of the backend's compressible types.
Compressible(d, h) ==
    /\ Get(h, "Content-Encoding") \in {"", "identity"}
    /\ ~d.policy.present \/ ~d.policy.noTransform
    /\ d.contentType \in DOMAIN MediaTypeOf
    /\ MediaTypeOf[d.contentType] \in CompressTypes

\* Mutant: the transient isFulfillment flag is persisted with the document.
ContentKeepsFlags(d) == d

\* The persistent part of a document: what MarshalMsg writes and what a
\* fresh &HTTPDocument{} holds after UnmarshalMsg (transient flags zero).
Content(d) == [d EXCEPT !.isFulfillment = FALSE]

\* Mutant: the compression byte is written the wrong way round.
EncodeBitSwapped(d, compress) ==
    [bit |-> IF compress THEN 0 ELSE 1,
     payload |-> [snappy |-> compress, valid |-> TRUE, doc |-> Content(d)]]

\* cache.go 209-222: serialise, then prepend 1 and snappy-encode, or 0.
Encode(d, compress) ==
    [bit |-> IF compress THEN 1 ELSE 0,
     payload |-> [snappy |-> compress, valid |-> TRUE, doc |-> Content(d)]]

\* Mutant: the compression byte is ignored and the payload read as is.
InflateIgnoresBit(b) == b.payload

\* cache.go 93-108: peel the compression byte; a snappy decode that fails
\* leaves the payload as it was (its error is shadowed and dropped).
Inflate(b) ==
    IF b.bit = 1 /\ b.payload.snappy
    THEN [b.payload EXCEPT !.snappy = FALSE]
    ELSE b.payload

\* UnmarshalMsg succeeds only on an uncompressed payload in this version's
\* document format.
Unmarshals(payload) == ~payload.snappy /\ payload.valid

\* cache.go 248-277: DocumentFromHTTPResponse.  The content length is the
\* response's: -1 when it is unknown (a chunked body, or a 206 whose
\* Content-Range total is "*").  A multipart/byteranges
\* Content-Type is not kept as the document's type; a 206 is split into
\* range parts (ParsePartialContentBody), anything else becomes the body.
DocumentFromHTTPResponse(r) ==
    LET ct == Get(r.headers, "Content-Type") IN
    [statusCode    |-> r.code,
     policy        |-> r.policy,
     cl            |-> r.cl,
     headers       |-> r.headers,
     contentType   |-> IF ct \in DOMAIN MediaTypeOf
                          /\ MediaTypeOf[ct] = "multipart/byteranges"
                       THEN "" ELSE ct,
     ranges        |-> IF r.code = 206 THEN r.ranges ELSE <<>>,
     rangeParts    |-> r.code = 206,
     isFulfillment |-> FALSE]

\* Mutant: the RangeMiss branch is lost.
LookupStatusNoRangeMiss(dl, rs) == IF dl = <<>> THEN "Hit" ELSE "PartialHit"

\* Mutant: equality is tested before emptiness.
LookupStatusSwapped(dl, rs) ==
    IF RangesEqual(dl, rs) THEN "RangeMiss"
    ELSE IF dl = <<>> THEN "Hit" ELSE "PartialHit"

\* QueryCache's classification (cache.go 136-143): no delta is a Hit.
LookupStatus(dl, rs) ==
    IF dl = <<>> THEN "Hit"
    ELSE IF RangesEqual(dl, rs) THEN "RangeMiss" ELSE "PartialHit"

\* Mutant: a store that keeps the earlier entry beside the new one.
StoreEntryKeepsOld(st, k, v) == [st EXCEPT ![k] = @ \cup {v}]

\* Mutant: an add-if-absent store; the first writer wins.
StoreEntryFirstWins(st, k, v) == IF st[k] = {} THEN [st EXCEPT ![k] = {v}] ELSE st

\* Store / StoreReference (cache.go 205, 224): the key's entry is replaced;
\* the last writer wins.
StoreEntry(st, k, v) == [st EXCEPT ![k] = {v}]

\* Document addresses a store holds; only a memory cache holds addresses.
StoredIds(st) ==
    IF CacheType = "memory" THEN DocIds \cap UNION {st[k] : k \in Keys} ELSE {}

\* Garbage collection: the heap keeps the objects still referenced.
Collect(heap, refs, st) ==
    Restrict(heap, DOMAIN heap \cap (Range(refs) \cup StoredIds(st)))

\* Entries a byte store may hold from before this process started (a
\* filesystem or remote cache outlives the process): a payload in a format
\* UnmarshalMsg rejects, raw or compressed.
LegacyBlobs ==
    LET d == Content(DocumentFromHTTPResponse(CHOOSE r \in Responses : TRUE)) IN
    {[bit |-> b, payload |-> [snappy |-> b = 1, valid |-> FALSE, doc |-> d]] :
        b \in {0, 1}}

FreeId == CHOOSE i \in DocIds : i \notin DOMAIN docs

-----------------------------------------------------------------------------
Init ==
    /\ store  \in [Keys -> IF CacheType = "memory" THEN {{}} \cup {{o} : o \in OtherRefs}
                          ELSE {{}} \cup {{b} : b \in LegacyBlobs}]
    /\ docs    = <<>>
    /\ pc      = [p \in Procs |-> "idle"]
    /\ key     = [p \in Procs |-> CHOOSE k \in Keys : TRUE]
    /\ want    = [p \in Procs |-> <<>>]
    /\ ref     = [p \in Procs |-> NoRef]
    /\ status  = [p \in Procs |-> "None"]
    /\ delta   = [p \in Procs |-> <<>>]
    /\ fulfil  = [p \in Procs |-> FALSE]
    /\ reqs    = [p \in Procs |-> 0]
    /\ written = [k \in Keys |-> {}]
    /\ seen    = [p \in Procs |-> {}]

\* A request for key k and ranges w enters QueryCache.
Begin(p, k, w) ==
    /\ pc[p] = "idle"
    /\ reqs[p] < MaxRequests
    /\ key'  = [key EXCEPT ![p] = k]
    /\ want' = [want EXCEPT ![p] = w]
    /\ seen' = [seen EXCEPT ![p] = written[k]]

\* QueryCache returns early with status st.  The wanted ranges come back
\* as missing only on a KeyMiss; an Error is proxied (spec 7), a miss is
\* fetched.
ReturnMiss(p, st, w) ==
    /\ status' = [status EXCEPT ![p] = st]
    /\ delta'  = [delta EXCEPT ![p] = IF st = "KeyMiss" THEN w ELSE <<>>]
    /\ pc'     = [pc EXCEPT ![p] = IF st = "Error" THEN "idle" ELSE "fetch"]
    /\ reqs'   = [reqs EXCEPT ![p] = IF st = "Error" THEN @ + 1 ELSE @]
    /\ UNCHANGED <<ref, docs>>

\* QueryCache on a memory cache (cache.go 56-78): RetrieveReference hands
\* back the stored object itself.  A nil object is a KeyMiss; the type
\* assertion d, _ = ifc.(*HTTPDocument) turns an object of another type
\* into a nil d, and QueryCache carries on with it.
QueryMemory(p, k, w) ==
    /\ CacheType = "memory"
    /\ Begin(p, k, w)
    /\ \/ /\ store[k] \in {{}, {NilObject}}
          /\ ReturnMiss(p, "KeyMiss", w)
       \/ \E o \in store[k] \ {NilObject} :
          /\ ref'    = [ref EXCEPT ![p] = IF o \in DocIds THEN o ELSE NoRef]
          /\ status' = [status EXCEPT ![p] = "Hit"]
          /\ pc'     = [pc EXCEPT ![p] = "classify"]
          /\ UNCHANGED <<docs, delta, reqs>>
    /\ UNCHANGED <<store, fulfil, written>>

\* QueryCache on a byte store (cache.go 79-118): Retrieve, peel the
\* compression byte, inflate, unmarshal into a fresh document.
QueryBytes(p, k, w) ==
    /\ CacheType # "memory"
    /\ Begin(p, k, w)
    /\ \/ /\ StoreMayFail
          /\ ReturnMiss(p, "Error", w)
       \/ /\ store[k] = {}
          /\ ReturnMiss(p, "KeyMiss", w)
       \/ \E b \in store[k] :
            LET payload == Inflate(b) IN
            \/ /\ Unmarshals(payload)
               /\ docs'   = docs @@ (FreeId :> payload.doc)
               /\ ref'    = [ref EXCEPT ![p] = FreeId]
               /\ status' = [status EXCEPT ![p] = "Hit"]
               /\ pc'     = [pc EXCEPT ![p] = "classify"]
               /\ UNCHANGED <<delta, reqs>>
            \/ /\ ~Unmarshals(payload)
               /\ ReturnMiss(p, "KeyMiss", w)
    /\ UNCHANGED <<store, fulfil, written>>

\* Mutant: the fulfillment rewrite is stored in the document's Ranges
\* instead of the request's.
AfterRewriteWritesRanges(d, ful, rs) ==
    [d EXCEPT !.isFulfillment = ful, !.ranges = IF ful THEN rs ELSE @]

\* The document after the fulfillment rewrite (cache.go 125-132): only its
\* isFulfillment flag changes; the rewritten ranges rs are QueryCache's
\* local.
AfterRewrite(d, ful, rs) == [d EXCEPT !.isFulfillment = ful]

\* The rest of QueryCache (cache.go 121-146): the fulfillment rewrite, the
\* delta and the status, with d.isFulfillment written on the document.
Classify(p) ==
    /\ pc[p] = "classify"
    /\ ref[p] # NoRef
    /\ LET d   == docs[ref[p]]
           ful == d.ranges # <<>> /\ want[p] = <<>>
           rs  == IF ful THEN <<Rng(0, d.cl - 1)>> ELSE want[p]
           dl  == IF rs # <<>> /\ d.ranges # <<>>
                  THEN CalculateDelta(rs, d.ranges, d.cl) ELSE <<>>
       IN  /\ docs'   = [docs EXCEPT ![ref[p]] = AfterRewrite(d, ful, rs)]
           /\ fulfil' = [fulfil EXCEPT ![p] = ful]
           /\ delta'  = [delta EXCEPT ![p] = dl]
           /\ status' = [status EXCEPT ![p] = LookupStatus(dl, rs)]
    /\ pc' = [pc EXCEPT ![p] = "respond"]
    /\ UNCHANGED <<store, key, want, ref, reqs, written, seen>>

\* cache.go 125 with a nil d: reading d.Ranges dereferences a nil pointer.
\* The handler goroutine panics and net/http's per-connection recovery
\* ends the request without a response.
NilDocumentPanics(p) ==
    /\ pc[p] = "classify"
    /\ ref[p] = NoRef
    /\ pc'   = [pc EXCEPT ![p] = "idle"]
    /\ reqs' = [reqs EXCEPT ![p] = @ + 1]
    /\ UNCHANGED <<store, docs, key, want, ref, status, delta, fulfil,
                   written, seen>>

\* The caller (spec 4.5, 5): a Hit is served, or revalidated upstream and
\* the same document written back; a partial hit or range miss is fetched.
Respond(p) ==
    /\ pc[p] = "respond"
    /\ \/ /\ status[p] = "Hit"
          /\ pc'   = [pc EXCEPT ![p] = "idle"]
          /\ reqs' = [reqs EXCEPT ![p] = @ + 1]
          /\ ref'  = [ref EXCEPT ![p] = NoRef]
          /\ docs' = Collect(docs, ref', store)
       \/ /\ status[p] = "Hit"
          /\ pc' = [pc EXCEPT ![p] = "write"]
          /\ UNCHANGED <<reqs, ref, docs>>
       \/ /\ status[p] \in {"PartialHit", "RangeMiss"}
          /\ pc' = [pc EXCEPT ![p] = "fetch"]
          /\ UNCHANGED <<reqs, ref, docs>>
    /\ UNCHANGED <<store, key, want, status, delta, fulfil, written, seen>>

\* The origin answers with r; DocumentFromHTTPResponse builds a new document.
Fetch(p, r) ==
    /\ pc[p] = "fetch"
    /\ LET heap == Collect(docs, [ref EXCEPT ![p] = NoRef], store)
           id   == CHOOSE i \in DocIds : i \notin DOMAIN heap
       IN  /\ docs' = heap @@ (id :> DocumentFromHTTPResponse(r))
           /\ ref'  = [ref EXCEPT ![p] = id]
    /\ pc' = [pc EXCEPT ![p] = "write"]
    /\ UNCHANGED <<store, key, want, status, delta, fulfil, reqs, written, seen>>

\* What WriteCache makes of d before storing it (cache.go 167-200): the
\* headers scrubbed; for a memory cache also the flags an unmarshal would
\* zero reset on the live object, which is stored by reference.  A byte
\* store's live document keeps its flags.
MemoryEntry(d) ==
    [d EXCEPT !.headers = ScrubHeaders(d.headers), !.isFulfillment = FALSE,
              !.rangeParts = FALSE, !.policy = ResetClientConditionals(d.policy)]
ByteEntry(d) == [d EXCEPT !.headers = ScrubHeaders(d.headers)]

\* WriteCache (cache.go 156-246) of p's document under key[p].
WriteCache(p) ==
    /\ pc[p] = "write"
    /\ LET k  == key[p]
           d  == docs[ref[p]]
           cz == Compressible(d, ScrubHeaders(d.headers))
           md == MemoryEntry(d)
           bd == ByteEntry(d)
       IN  \/ /\ CacheType = "memory"
              /\ store'   = StoreEntry(store, k, ref[p])
              /\ written' = [written EXCEPT ![k] = {Content(md)}]
              /\ docs'    = Collect([docs EXCEPT ![ref[p]] = md],
                                    [ref EXCEPT ![p] = NoRef], store')
           \/ /\ CacheType # "memory"
              /\ store'   = StoreEntry(store, k, Encode(bd, cz))
              /\ written' = [written EXCEPT ![k] = {Content(bd)}]
              /\ docs'    = Collect(docs, [ref EXCEPT ![p] = NoRef], store')
           \/ /\ CacheType # "memory"
              /\ StoreMayFail
              /\ UNCHANGED <<store, written>>
              /\ docs'    = Collect(docs, [ref EXCEPT ![p] = NoRef], store)
    /\ pc'   = [pc EXCEPT ![p] = "idle"]
    /\ ref'  = [ref EXCEPT ![p] = NoRef]
    /\ reqs' = [reqs EXCEPT ![p] = @ + 1]
    /\ UNCHANGED <<key, want, status, delta, fulfil, seen>>

\* Every handler has served its MaxRequests requests.
Terminated ==
    /\ \A p \in Procs : pc[p] = "idle" /\ reqs[p] = MaxRequests
    /\ UNCHANGED vars

Next ==
    \/ \E p \in Procs, k \in Keys, w \in Wants :
          QueryMemory(p, k, w) \/ QueryBytes(p, k, w)
    \/ \E p \in Procs : Classify(p) \/ NilDocumentPanics(p) \/ Respond(p)
                       \/ WriteCache(p)
    \/ \E p \in Procs, r \in Responses : Fetch(p, r)
    \/ Terminated

Spec == Init /\ [][Next]_vars

-----------------------------------------------------------------------------
(* Properties.                                                             *)

Status == {"None", "Hit", "PartialHit", "RangeMiss", "KeyMiss", "Error"}

TypeOK ==
    /\ DOMAIN docs \subseteq DocIds
    /\ StoredIds(store) \subseteq DOMAIN docs
    /\ \A k \in Keys : Cardinality(store[k]) <= 1 /\ Cardinality(written[k]) <= 1
    /\ pc \in [Procs -> {"idle", "classify", "respond", "fetch", "write"}]
    /\ key \in [Procs -> Keys]
    /\ want \in [Procs -> Wants]
    /\ ref \in [Procs -> DocIds \cup {NoRef}]
    /\ \A p \in Procs :
          /\ ref[p] # NoRef => ref[p] \in DOMAIN docs
          /\ pc[p] \in {"respond", "write"} => ref[p] # NoRef
    /\ status \in [Procs -> Status]
    /\ fulfil \in [Procs -> BOOLEAN]
    /\ reqs \in [Procs -> 0 .. MaxRequests]

(***************************************************************************)
(* Round trip through the cache (spec 8.3, 6): a lookup that finds what a  *)
(* WriteCache stored hands back exactly the document that write persisted *)
(* (transient flags aside), and a lookup only reports KeyMiss when nothing *)
(* was ever written for the key.  Covers the compression byte written by  *)
(* WriteCache and peeled by QueryCache, the snappy fallback that swallows *)
(* its error, failed Stores, and concurrent writers of one key.            *)
(***************************************************************************)
CacheReadsLastWrite ==
    \A p \in Procs :
        /\ (pc[p] = "classify" /\ ref[p] # NoRef) => seen[p] = {Content(docs[ref[p]])}
        /\ (pc[p] = "fetch" /\ status[p] = "KeyMiss") => seen[p] = {}

(***************************************************************************)
(* Header scrubbing (spec 8.7): a document a handler obtains from the      *)
(* cache never carries Date, Transfer-Encoding, Content-Range or the       *)
(* result marker, whichever handler wrote it and by which path.            *)
(***************************************************************************)
NoVolatileHeadersFromCache ==
    \A p \in Procs :
        (pc[p] = "classify" /\ ref[p] # NoRef) =>
            \A x \in docs[ref[p]].headers : x[1] \notin VolatileHeaders

(***************************************************************************)
(* Lookup classification (spec 4.5 step 5, 8.6): when the document holds   *)
(* only ranges, the delta QueryCache returns covers exactly the wanted     *)
(* bytes it lacks -- all bytes when the client wants the whole body        *)
(* (fulfillment) -- and the status is Hit iff nothing is missing and       *)
(* RangeMiss iff nothing wanted is cached.  A whole-body document is a Hit *)
(* with no delta.                                                          *)
(***************************************************************************)
StatusMatchesDelta ==
    \A p \in Procs :
        pc[p] = "respond" =>
            LET d       == docs[ref[p]]
                wanted  == IF want[p] = <<>> THEN 0 .. d.cl - 1
                           ELSE CoveredBytes([i \in DOMAIN want[p] |->
                                               Resolve(want[p][i], d.cl)])
                                \cap 0 .. d.cl - 1
                missing == wanted \ CoveredBytes(d.ranges)
            IN  IF d.ranges = <<>>
                THEN status[p] = "Hit" /\ delta[p] = <<>>
                ELSE /\ CoveredBytes(delta[p]) = missing
                     /\ status[p] = "Hit" <=> missing = {}
                     /\ status[p] = "RangeMiss" <=> missing = wanted /\ missing # {}

(***************************************************************************)
(* Whole-body hits are whole (spec 4.1, fulfillment rule): when a client   *)
(* asks for the whole body and the document holds only ranges, QueryCache *)
(* reports a Hit only if those ranges cover every byte of a known content *)
(* length.  The fulfillment rewrite (cache.go 131) builds the range        *)
(* {0, ContentLength-1} whatever the content length is.                    *)
(***************************************************************************)
WholeBodyHitIsComplete ==
    \A p \in Procs :
        LET d == docs[ref[p]] IN
        (pc[p] = "respond" /\ status[p] = "Hit" /\ want[p] = <<>> /\ d.ranges # <<>>)
            => d.cl > 0 /\ 0 .. d.cl - 1 \subseteq CoveredBytes(d.ranges)

(***************************************************************************)
(* A suffix range cannot be resolved without a content length: spec 7      *)
(* (RangeResolution) makes such a lookup a KeyMiss, and spec 4.1 an        *)
(* error.  QueryCache (cache.go 133-143) takes its status from the delta   *)
(* alone, so the only way to honour this is never to classify a suffix     *)
(* request against a range-only document of unknown length.                *)
(***************************************************************************)
SuffixNeedsLength ==
    \A p \in Procs :
        LET d == docs[ref[p]] IN
        (pc[p] = "respond" /\ d.ranges # <<>> /\ d.cl < 0)
            => \A i \in DOMAIN want[p] : want[p][i].start # -1

(***************************************************************************)
(* Nil or wrong-typed references (spec 4.5 step 2): when a memory cache    *)
(* hands back a nil object or an object of another type for the key,      *)
(* QueryCache returns KeyMiss with the wanted ranges, so a handler that    *)
(* goes on to classify always holds a document.  The type assertion at     *)
(* cache.go 73 drops its ok result and only the nil case is checked.       *)
(***************************************************************************)
LookupYieldsDocument ==
    \A p \in Procs : pc[p] = "classify" => ref[p] \in DOMAIN docs

(***************************************************************************)
(* Refinement: the pipeline implements AbstractCache.  The abstract        *)
(* content of a key is what a lookup of it would hand back: the persisted *)
(* fields of the object a memory cache references, or of the payload a    *)
(* byte store's blob decodes to after its compression byte is peeled; a    *)
(* blob UnmarshalMsg rejects reads as nothing.  Every step that changes    *)
(* the content of a key is a WriteCache of a document into that key alone, *)
(* and no step -- a lookup writing flags on a shared object, garbage       *)
(* collection, a failed Store -- loses or alters a stored document.        *)
(***************************************************************************)
Readable(k) ==
    IF CacheType = "memory" THEN {Content(docs[i]) : i \in store[k] \cap DocIds}
    ELSE {Inflate(b).doc : b \in {x \in store[k] : Unmarshals(Inflate(x))}}

\* The documents a WriteCache can store: those built from an origin
\* response, after the scrub and resets, with their persisted fields.
StorableDocs ==
    UNION {{Content(MemoryEntry(DocumentFromHTTPResponse(r))),
            Content(ByteEntry(DocumentFromHTTPResponse(r)))} : r \in Responses}

Abstract == INSTANCE AbstractCache WITH
    Values <- StorableDocs,
    cache  <- [k \in Keys |-> Readable(k)]

RefinesAbstractCache == Abstract!Spec

(***************************************************************************)
(* Document ownership (spec 5): the isFulfillment flag a handler acts on   *)
(* is the one its own QueryCache computed.  QueryCache writes the flag     *)
(* into the document it looked up (cache.go 125) and WriteCache clears it *)
(* (cache.go 196); with a memory cache that document is shared by every    *)
(* handler reading the key.                                                *)
(***************************************************************************)
FulfillmentFlagStable ==
    \A p \in Procs :
        pc[p] = "respond" => docs[ref[p]].isFulfillment = fulfil[p]
=============================================================================
