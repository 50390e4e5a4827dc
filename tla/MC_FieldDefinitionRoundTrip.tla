--------------------- MODULE MC_FieldDefinitionRoundTrip ---------------------
(***************************************************************************)
(* Round trip and size estimate of the generated FieldDefinition codec,    *)
(* over field values at every boundary of the msgpack forms the writer     *)
(* chooses between: fixstr/str8/str16 lengths 31, 32, 256; positive fixint, *)
(* uint8 at 127/128; negative fixint, int8, int16, int32 at -32/-33,        *)
(* -128/-129, 127/128, 32767/32768 and the int32 extremes.                  *)
(*                                                                         *)
(* A state is a slice value vals that a writer marshals and the slice      *)
(* prior that the reader decodes it into.                                  *)
(***************************************************************************)
EXTENDS FieldDefinitionCodec, FiniteSets

CONSTANTS MaxElems   \* longest FieldDefinitions slice written

VARIABLES vals, prior
vars == <<vals, prior>>

Str(n) == [i \in 1 .. n |-> 120]
Strs   == {Str(0), Str(31), Str(32), Str(256)}
Types  == {0, 127, 128, 255}
Ints   == {MinInt32, -32769, -32768, -129, -128, -33, -32, -1,
           0, 127, 128, 32767, 32768, MaxInt32}

FD(n, t, p, s, q) == [Name |-> n, DataType |-> t, OutputPosition |-> p,
                      SDataType |-> s, ProviderData1 |-> q]

\* Every single definition over the boundary values.
AllFDs == {FD(n, t, p, s, q) : n \in Strs, t \in Types, p \in Ints,
                               s \in Strs, q \in {MinInt32, -1, 128, MaxInt32}}

\* A few definitions for multi-element slices.
Some == {FD(Str(1), 3, -1, Str(0), 2), FD(Str(32), 128, 32768, Str(2), -129)}

Values == {<<z>> : z \in AllFDs} \cup BoundedSeq(Some, MaxElems)

\* Slices a caller may decode into: nil, one in use, one resliced shorter
\* than its capacity.
Priors == {[arr |-> <<>>, len |-> 0],
           [arr |-> <<ZeroFD>>, len |-> 1],
           [arr |-> [i \in 1 .. 2 |-> FD(Str(5), 9, 9, Str(5), 9)], len |-> 1]}

\* Bytes that follow the message in the buffer.
Trailer == <<192>>

Init == vals \in Values /\ prior \in Priors

Pick == prior' \in Priors /\ UNCHANGED vals

Spec == Init /\ [][Pick]_vars

MsgsizeBound ==
    /\ Len(MarshalFieldDefinitions(vals)) <= MsgsizeFieldDefinitions(vals)
    /\ \A i \in DOMAIN vals :
          /\ Len(MarshalMsg(vals[i])) <= Msgsize(vals[i])
          /\ Len(MarshalFieldDataType(vals[i].DataType)) <= MsgsizeFieldDataType
=============================================================================
