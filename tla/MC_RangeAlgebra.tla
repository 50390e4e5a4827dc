--------------------------- MODULE MC_RangeAlgebra ---------------------------
(***************************************************************************)
(* Checks the range-algebra operators against the byte-set reference over  *)
(* every pair (wants, haves) of range sets of length <= MaxParts inside a  *)
(* content of CL bytes.  The state is the current input pair; Next moves   *)
(* to a pair with other wants, so every reachable state is one input.     *)
(***************************************************************************)
EXTENDS RangeAlgebra, Integers, Sequences

CONSTANTS CL,        \* content length of the object the ranges address
          MaxParts   \* longest range set enumerated

ASSUME CL \in Nat \ {0} /\ MaxParts \in Nat \ {0}

VARIABLES wants, haves

\* Stored ranges are always resolved; wanted ranges may be suffix ranges.
PlainRange  == {Rng(s, e) : s \in 0 .. CL - 1, e \in 0 .. CL - 1} \cap
               {r \in [start : 0 .. CL - 1, end : 0 .. CL - 1] : r.start <= r.end}
SuffixRange == {Rng(-1, n) : n \in 1 .. CL}
HaveSets == BoundedSeq(PlainRange, MaxParts)
WantSets == BoundedSeq(PlainRange \cup SuffixRange, MaxParts)

Init == wants \in WantSets /\ haves \in HaveSets

Pick == wants' \in WantSets /\ UNCHANGED haves

Next == Pick

Spec == Init /\ [][Next]_<<wants, haves>>

\* The bytes a wanted set asks for, suffixes resolved and clamped to CL.
WantedBytes == CoveredBytes([i \in DOMAIN wants |-> Resolve(wants[i], CL)])
               \cap 0 .. CL - 1

(***************************************************************************)
(* Normalisation (spec 4.1, property 8.4): normalising any stored range    *)
(* set yields the unique sorted, non-touching set covering the same bytes; *)
(* idempotence follows.  Breaks if Coalesce misses touching neighbours or  *)
(* loses the longer end of two overlapping ranges.                         *)
(***************************************************************************)
NormalizeIsCanonical ==
    Normalize(haves) = CanonicalRanges(CoveredBytes(haves))

(***************************************************************************)
(* Delta correctness (property 8.5): when both sets are non-empty the      *)
(* delta is exactly the normalised set of wanted bytes not stored, so      *)
(* delta together with (stored /\ wanted) rebuilds what was wanted and     *)
(* nothing stored is fetched again.  This is the computation QueryCache    *)
(* relies on to classify a lookup as Hit, PartialHit or RangeMiss.         *)
(***************************************************************************)
DeltaIsMissingBytes ==
    wants # <<>> /\ haves # <<>> =>
        CalculateDelta(wants, haves, CL)
            = CanonicalRanges(WantedBytes \ CoveredBytes(haves))
=============================================================================
