------------------------- MODULE FieldDefinitionCodec -------------------------
(***************************************************************************)
(* The msgp code generated for timeseries.FieldDataType, FieldDefinition   *)
(* and FieldDefinitions (cache.go 278-634).  Byte-level: what MarshalMsg   *)
(* writes and what UnmarshalMsg does with any message, including messages  *)
(* from another writer (keys missing, repeated, reordered or unknown,      *)
(* values of the wrong type) and decoding into a value already in use.     *)
(*                                                                         *)
(* A FieldDefinition is a record of the struct's fields; strings are byte *)
(* sequences.  A FieldDefinitions value is a Go slice: its backing array  *)
(* (arr, whose length is the slice's capacity) and its length len.        *)
(***************************************************************************)
EXTENDS Integers, Sequences, SequencesExt, MsgpWire

\* The map key the generated code writes for each field.
KeyOf == [Name           |-> <<110, 97, 109, 101>>,                \* "name"
          DataType       |-> <<116, 121, 112, 101>>,               \* "type"
          OutputPosition |-> <<112, 111, 115>>,                    \* "pos"
          SDataType      |-> <<115, 116, 121, 112, 101>>,          \* "stype"
          ProviderData1  |-> <<112, 114, 111, 118, 105, 100, 101, 114, 49>>]

\* The zero FieldDefinition, as make() or a new variable holds it.
ZeroFD == [Name |-> <<>>, DataType |-> 0, OutputPosition |-> 0,
           SDataType |-> <<>>, ProviderData1 |-> 0]

\* The elements a slice shows: the first len of its backing array.
Visible(sl) == [i \in 1 .. sl.len |-> sl.arr[i]]

-----------------------------------------------------------------------------
(* FieldDataType (cache.go 286-336): a single byte.                        *)

MarshalFieldDataType(t)   == AppendUint(t)
EncodeFieldDataType(t)    == MarshalFieldDataType(t)
UnmarshalFieldDataType(b) == ReadByteBytes(b)
DecodeFieldDataType(b)    == UnmarshalFieldDataType(b)
MsgsizeFieldDataType      == ByteSize

-----------------------------------------------------------------------------
(* FieldDefinition (cache.go 338-547).                                     *)

MarshalMsg(z) ==
    <<133>> \o AppendString(KeyOf.Name) \o AppendString(z.Name)
    \o AppendString(KeyOf.DataType) \o AppendUint(z.DataType)
    \o AppendString(KeyOf.OutputPosition) \o AppendInt(z.OutputPosition)
    \o AppendString(KeyOf.SDataType) \o AppendString(z.SDataType)
    \o AppendString(KeyOf.ProviderData1) \o AppendInt(z.ProviderData1)

\* EncodeMsg writes the same bytes to a msgp.Writer.
EncodeMsg(z) == MarshalMsg(z)

\* Mutant: len(z.SDataType) left out of the estimate.
MsgsizeNoSDataType(z) ==
    1 + 5 + StringPrefixSize + Len(z.Name) + 5 + ByteSize + 4 + IntSize
    + 6 + StringPrefixSize + 10 + IntSize

Msgsize(z) ==
    1 + 5 + StringPrefixSize + Len(z.Name) + 5 + ByteSize + 4 + IntSize
    + 6 + StringPrefixSize + Len(z.SDataType) + 10 + IntSize

\* A field read into z.  Go's multiple assignment stores the reader's
\* result even when it fails, so a failed read zeroes the field -- except
\* "type", which is read into a local first.
Assign(z, fld, r) == [r EXCEPT !.v = [z EXCEPT ![fld] = r.v]]

\* The switch on a known key in UnmarshalMsg's loop.
DecodeField(z, f, b) ==
    CASE f = KeyOf.Name           -> Assign(z, "Name", ReadStringBytes(b))
      [] f = KeyOf.DataType       -> LET r == ReadByteBytes(b) IN
                                     IF r.ok THEN Assign(z, "DataType", r)
                                     ELSE [r EXCEPT !.v = z]
      [] f = KeyOf.OutputPosition -> Assign(z, "OutputPosition", ReadIntBytes(b))
      [] f = KeyOf.SDataType      -> Assign(z, "SDataType", ReadStringBytes(b))
      [] f = KeyOf.ProviderData1  -> Assign(z, "ProviderData1", ReadIntBytes(b))

(***************************************************************************)
(* The decoder as one loop over a record d: the mode ("elem": the loop     *)
(* over a FieldDefinitions' elements, "key": the loop over one map's       *)
(* entries, "skip": msgp.Skip of an unknown key's value, then "done" or    *)
(* "fail"), the slice sl and its element index i, the FieldDefinition z    *)
(* being decoded, the entries left, the objects left to skip and the       *)
(* bytes not yet read.  top marks a lone FieldDefinition.  Each step reads *)
(* one header, key or field, so Len(rest) bounds the loop.                 *)
(***************************************************************************)
Stop(d, z) == [d EXCEPT !.mode = "fail", !.z = z, !.rest = <<>>]

\* One turn of FieldDefinitions.UnmarshalMsg's loop: element i is decoded
\* in place by FieldDefinition.UnmarshalMsg, which reads the map header.
ElemStep(d) ==
    LET h == ReadMapHeaderBytes(d.rest) IN
    IF d.i > d.sl.len THEN [d EXCEPT !.mode = "done"]
    ELSE IF ~h.ok THEN Stop(d, d.sl.arr[d.i])
    ELSE [d EXCEPT !.mode = "key", !.z = d.sl.arr[d.i], !.left = h.v, !.rest = h.rest]

\* Mutant: an unknown key's value is not skipped.
KeyStepNoSkip(d) ==
    LET k == ReadStringBytes(d.rest)
        r == DecodeField(d.z, k.v, k.rest)
    IN  IF d.left = 0
        THEN IF d.top THEN [d EXCEPT !.mode = "done"]
             ELSE [d EXCEPT !.mode = "elem", !.sl.arr[d.i] = d.z, !.i = d.i + 1]
        ELSE IF ~k.ok THEN Stop(d, d.z)
        ELSE IF k.v \notin Range(KeyOf)
        THEN [d EXCEPT !.left = d.left - 1, !.rest = k.rest]
        ELSE IF r.ok THEN [d EXCEPT !.z = r.v, !.left = d.left - 1, !.rest = r.rest]
        ELSE Stop(d, r.v)

\* One turn of FieldDefinition.UnmarshalMsg's loop: read a key, then the
\* field it names, or skip its value; the first error returns z as far as
\* it got.
KeyStep(d) ==
    LET k == ReadStringBytes(d.rest)
        r == DecodeField(d.z, k.v, k.rest)
    IN  IF d.left = 0
        THEN IF d.top THEN [d EXCEPT !.mode = "done"]
             ELSE [d EXCEPT !.mode = "elem", !.sl.arr[d.i] = d.z, !.i = d.i + 1]
        ELSE IF ~k.ok THEN Stop(d, d.z)
        ELSE IF k.v \notin Range(KeyOf)
        THEN [d EXCEPT !.mode = "skip", !.skip = 1, !.rest = k.rest]
        ELSE IF r.ok THEN [d EXCEPT !.z = r.v, !.left = d.left - 1, !.rest = r.rest]
        ELSE Stop(d, r.v)

\* msgp.Skip: one object header per step, nested objects included.
SkipObject(d) ==
    LET h == SkipStep(d.rest) IN
    IF d.skip = 0 THEN [d EXCEPT !.mode = "key", !.left = d.left - 1]
    ELSE IF d.rest = <<>> \/ ~h.ok THEN Stop(d, d.z)
    ELSE [d EXCEPT !.skip = d.skip - 1 + h.more, !.rest = Drop(d.rest, h.w)]

Step(d) ==
    CASE d.mode = "elem" -> ElemStep(d)
      [] d.mode = "key"  -> KeyStep(d)
      [] d.mode = "skip" -> SkipObject(d)

\* What the decoder returns: z (or the slice, with element i as far as it
\* got) and the bytes after the message; o = nil on an error.
Finish(d) ==
    CASE d.mode = "done" /\ d.top -> Read(d.z, d.rest, 0)
      [] d.mode = "done"          -> Read(d.sl, d.rest, 0)
      [] d.top                    -> Fail(d.z)
      [] OTHER                    -> Fail([d.sl EXCEPT !.arr[d.i] = d.z])

RECURSIVE Run(_)
Run(d) == IF d.mode \in {"done", "fail"} THEN Finish(d) ELSE Run(Step(d))

NilSlice == [arr |-> <<>>, len |-> 0]

\* UnmarshalMsg into the existing value z: fields the message does not
\* name keep their value.
UnmarshalMsg(z, b) ==
    LET h == ReadMapHeaderBytes(b) IN
    IF ~h.ok THEN Fail(z)
    ELSE Run([mode |-> "key", top |-> TRUE, sl |-> NilSlice, i |-> 1, z |-> z,
              left |-> h.v, skip |-> 0, rest |-> h.rest])

\* DecodeMsg runs the same loop on a msgp.Reader.
DecodeMsg(z, b) == UnmarshalMsg(z, b)

-----------------------------------------------------------------------------
(* FieldDefinitions (cache.go 549-634).                                    *)

MarshalFieldDefinitions(zs) ==
    AppendArrayHeader(Len(zs)) \o FlattenSeq([i \in DOMAIN zs |-> MarshalMsg(zs[i])])
EncodeFieldDefinitions(zs) == MarshalFieldDefinitions(zs)

MsgsizeFieldDefinitions(zs) ==
    FoldLeft(LAMBDA s, z : s + Msgsize(z), ArrayHeaderSize, zs)

\* Mutant: the backing array is reused only when strictly larger.
ResliceStrict(sl, n) ==
    IF Len(sl.arr) > n THEN [sl EXCEPT !.len = n]
    ELSE [arr |-> [i \in 1 .. n |-> ZeroFD], len |-> n]

\* (*z)[:n] when the capacity suffices, else make(FieldDefinitions, n).
Reslice(sl, n) ==
    IF Len(sl.arr) >= n THEN [sl EXCEPT !.len = n]
    ELSE [arr |-> [i \in 1 .. n |-> ZeroFD], len |-> n]

\* Element i is decoded in the slice's backing array, so on an error the
\* elements before it and the part of it already read stay decoded.
UnmarshalFieldDefinitions(sl, b) ==
    LET h == ReadArrayHeaderBytes(b) IN
    IF ~h.ok THEN Fail(sl)
    ELSE Run([mode |-> "elem", top |-> FALSE, sl |-> Reslice(sl, h.v), i |-> 1,
              z |-> ZeroFD, left |-> 0, skip |-> 0, rest |-> h.rest])
DecodeFieldDefinitions(sl, b) == UnmarshalFieldDefinitions(sl, b)
=============================================================================
