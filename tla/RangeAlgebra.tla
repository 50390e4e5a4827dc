---------------------------- MODULE RangeAlgebra ----------------------------
(***************************************************************************)
(* Byte-range algebra of the proxy (package proxy/ranges/byterange).  The  *)
(* package is not part of src/, so every operator here is written from     *)
(* spec.md sections 3 and 4.1.  A Range is a record with inclusive start   *)
(* and end; start = -1 denotes the suffix range "last end bytes".  A       *)
(* range set is a sequence of ranges; <<>> is the nil/empty set.           *)
(*                                                                         *)
(* CoveredBytes and CanonicalRanges are the reference semantics (sets of   *)
(* byte offsets) against which MC_RangeAlgebra checks the operators.       *)
(***************************************************************************)
EXTENDS Integers, Sequences, SequencesExt

Rng(s, e) == [start |-> s, end |-> e]

\* The bytes a resolved range or a range set covers.
Span(r) == r.start .. r.end
CoveredBytes(rs) == UNION {Span(rs[i]) : i \in DOMAIN rs}

\* A suffix range is resolved against the content length before any set
\* arithmetic; wanted ranges beyond the content length are clamped.
Resolve(r, cl) ==
    IF r.start = -1 THEN Rng(cl - r.end, cl - 1)
                    ELSE Rng(r.start, IF r.end > cl - 1 THEN cl - 1 ELSE r.end)

\* Mutant: touching neighbours are left apart.
RECURSIVE CoalesceNoTouch(_)
CoalesceNoTouch(s) ==
    IF Len(s) < 2 THEN s
    ELSE LET a == s[1]
             b == s[2]
         IN  IF b.start <= a.end
             THEN CoalesceNoTouch(<<Rng(a.start, IF b.end > a.end THEN b.end ELSE a.end)>>
                                  \o Tail(Tail(s)))
             ELSE <<a>> \o CoalesceNoTouch(Tail(s))

\* Merge a start-sorted sequence: overlapping or touching neighbours are
\* coalesced ({1,4},{5,9} -> {1,9}).
RECURSIVE Coalesce(_)
Coalesce(s) ==
    IF Len(s) < 2 THEN s
    ELSE LET a == s[1]
             b == s[2]
         IN  IF b.start <= a.end + 1
             THEN Coalesce(<<Rng(a.start, IF b.end > a.end THEN b.end ELSE a.end)>>
                           \o Tail(Tail(s)))
             ELSE <<a>> \o Coalesce(Tail(s))

\* Normalisation: sort by start, then merge.
Normalize(rs) == Coalesce(SortSeq(rs, LAMBDA a, b : a.start < b.start))

\* Equality of range sets is sequence equality after normalisation.
RangesEqual(a, b) == Normalize(a) = Normalize(b)

\* Mutant: the piece left of a held range keeps its first held byte.
RECURSIVE SubtractRangeOffByOne(_, _)
SubtractRangeOffByOne(r, haves) ==
    IF r.start > r.end THEN <<>>
    ELSE IF haves = <<>> THEN <<r>>
    ELSE LET h == Head(haves) IN
         IF h.end < r.start \/ h.start > r.end
         THEN SubtractRangeOffByOne(r, Tail(haves))
         ELSE (IF h.start > r.start THEN <<Rng(r.start, h.start)>> ELSE <<>>)
              \o SubtractRangeOffByOne(Rng(h.end + 1, r.end), Tail(haves))

\* The parts of r that the start-sorted set haves does not cover, left to
\* right.
RECURSIVE SubtractRange(_, _)
SubtractRange(r, haves) ==
    IF r.start > r.end THEN <<>>
    ELSE IF haves = <<>> THEN <<r>>
    ELSE LET h == Head(haves) IN
         IF h.end < r.start \/ h.start > r.end
         THEN SubtractRange(r, Tail(haves))
         ELSE (IF h.start > r.start THEN <<Rng(r.start, h.start - 1)>> ELSE <<>>)
              \o SubtractRange(Rng(h.end + 1, r.end), Tail(haves))

\* CalculateDelta: the minimal normalised set of sub-ranges of wants that
\* haves does not already hold.  Empty wants give nil; empty haves give the
\* wants unchanged.
CalculateDelta(wants, haves, cl) ==
    IF wants = <<>> THEN <<>>
    ELSE IF haves = <<>> THEN wants
    ELSE LET w  == Normalize([i \in DOMAIN wants |-> Resolve(wants[i], cl)])
             hs == Normalize(haves)
         IN  Normalize(FlattenSeq([i \in DOMAIN w |-> SubtractRange(w[i], hs)]))

\* Reference: the unique normalised range set covering exactly the byte set S
\* (its maximal runs, in ascending order).
Runs(S) == {Rng(a, b) : a \in S, b \in S}
CanonicalRanges(S) ==
    SetToSortSeq({r \in Runs(S) : r.start <= r.end /\ Span(r) \subseteq S
                                  /\ r.start - 1 \notin S
                                  /\ r.end + 1 \notin S},
                 LAMBDA a, b : a.start < b.start)
=============================================================================
