-------------------------- MODULE MC_CachePipeline --------------------------
(***************************************************************************)
(* Instantiates CachePipeline for TLC: two handlers, one key (so that they *)
(* contend) or two (so that a write to one key can be seen not to touch    *)
(* the other, with heap addresses reused across keys), a 3-byte object,    *)
(* and origin responses that exercise every branch of WriteCache's         *)
(* compression decision and of DocumentFromHTTPResponse.                   *)
(***************************************************************************)
EXTENDS CachePipeline, TLC

CONSTANTS p1, p2, k1, k2,
          ts   \* an object of another type that some other user of the
               \* same memory cache stored by reference under a key

\* The provider a cache gets when its configuration names none
\* (cache/options/defaults); the memory-store runs use it as CacheType.
DefaultCacheProvider == "memory"

MCProcs == {p1, p2}
MCKeys    == {k1}
MCTwoKeys == {k1, k2}

TextCT   == "text/plain; charset=utf-8"
PngCT    == "image/png"
MultiCT  == "multipart/byteranges; boundary=b"

MCMediaTypeOf ==
    (TextCT :> "text/plain") @@ (PngCT :> "image/png")
        @@ (MultiCT :> "multipart/byteranges")

\* Whole body, the first two bytes, the last byte.
MCWants == {<<>>, <<Rng(0, 1)>>, <<Rng(2, 2)>>}

\* The same wants plus a suffix range "last 1 byte".
MCSuffixWants == {<<>>, <<Rng(0, 1)>>, <<Rng(-1, 1)>>}

NoPolicy == [present |-> FALSE, noTransform |-> FALSE, clientConditional |-> FALSE]

MCResponses ==
  { \* 200, compressible text, a conditional client request
    [code |-> 200, ranges |-> <<>>, cl |-> ContentLength,
     headers |-> {<<"Date", "d">>, <<"Content-Type", TextCT>>},
     policy |-> [present |-> TRUE, noTransform |-> FALSE,
                 clientConditional |-> TRUE]],
    \* 206 for byte 0, no caching policy
    [code |-> 206, ranges |-> <<Rng(0, 0)>>, cl |-> ContentLength,
     headers |-> {<<"Content-Range", "bytes 0-0/3">>, <<"Content-Type", TextCT>>},
     policy |-> NoPolicy],
    \* 200, already gzip-encoded and chunked (length unknown), no-transform
    [code |-> 200, ranges |-> <<>>, cl |-> -1,
     headers |-> {<<"Content-Encoding", "gzip">>, <<"Transfer-Encoding", "chunked">>,
                  <<"Content-Type", PngCT>>},
     policy |-> [present |-> TRUE, noTransform |-> TRUE,
                 clientConditional |-> FALSE]],
    \* multipart 206 for bytes 0 and 2
    [code |-> 206, ranges |-> <<Rng(0, 0), Rng(2, 2)>>, cl |-> ContentLength,
     headers |-> {<<"Content-Type", MultiCT>>, <<"X-Trickster-Result", "r">>},
     policy |-> NoPolicy] }

\* The responses plus a 206 for byte 0 of an object of unknown length
\* ("bytes 0-0/*"), which leaves the document's ContentLength at -1.
MCUnknownLengthResponses ==
    MCResponses \cup
    {[code |-> 206, ranges |-> <<Rng(0, 0)>>, cl |-> -1,
      headers |-> {<<"Content-Range", "bytes 0-0/*">>, <<"Content-Type", TextCT>>},
      policy |-> NoPolicy]}

\* What a shared memory cache may hold besides documents: a nil reference
\* or an object of another type; the two-key run takes the latter alone.
MCOtherRefs   == {NilObject, ts}
MCForeignRefs == {ts}

MCSymmetry == Permutations(MCProcs)
=============================================================================
