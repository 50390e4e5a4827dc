----------------------- MODULE MC_FieldDefinitionCodec -----------------------
(***************************************************************************)
(* Both questions asked of the generated FieldDefinition codec in one      *)
(* model: the round trip and size estimate of what MarshalMsg writes       *)
(* (MC_FieldDefinitionRoundTrip), and the decoding of any message another  *)
(* writer sent (MC_FieldDefinitionMerge).  A state belongs to one of them, *)
(* named by mode; the other's variables sit at an empty slice.             *)
(***************************************************************************)
EXTENDS Integers

CONSTANTS MaxElems,    \* longest FieldDefinitions slice written
          MaxEntries   \* most entries in one element's map of a message

VARIABLES mode, vals, prior, msg, mprior
vars == <<mode, vals, prior, msg, mprior>>

RT == INSTANCE MC_FieldDefinitionRoundTrip
MG == INSTANCE MC_FieldDefinitionMerge WITH prior <- mprior

NilSlice == [arr |-> <<>>, len |-> 0]

Init ==
    \/ /\ mode = "roundtrip" /\ RT!Init
       /\ msg = <<>> /\ mprior = NilSlice
    \/ /\ mode = "merge" /\ MG!Init
       /\ vals = <<>> /\ prior = NilSlice

Next ==
    \/ mode = "roundtrip" /\ RT!Pick /\ UNCHANGED <<mode, msg, mprior>>
    \/ mode = "merge" /\ MG!Pick /\ UNCHANGED <<mode, vals, prior>>

Spec == Init /\ [][Next]_vars

MsgsizeBound == mode = "roundtrip" => RT!MsgsizeBound

(***************************************************************************)
(* Decoding is a merge (see MC_FieldDefinitionMerge): UnmarshalMsg of any  *)
(* message applies its entries left to right to the slice's backing array, *)
(* skipping unknown keys and stopping at the first wrongly typed value.    *)
(***************************************************************************)
DecodeIsMerge == mode = "merge" => MG!DecodeIsMerge
=============================================================================
