----------------------- MODULE MC_FieldDefinitionMerge -----------------------
(***************************************************************************)
(* What the generated decoder does with a message it did not write: a      *)
(* FieldDefinitions array whose elements are maps built from any entries   *)
(* -- known keys with values of the right or the wrong type, repeated      *)
(* keys, keys in any order, unknown keys with nested values, a non-string  *)
(* key -- decoded into a slice already in use.  The bytes are decoded by   *)
(* UnmarshalFieldDefinitions and compared with a reference stated over the *)
(* entries themselves.                                                     *)
(***************************************************************************)
EXTENDS FieldDefinitionCodec, FiniteSets

CONSTANTS MaxEntries   \* most entries in one element's map

VARIABLES prior, msg
vars == <<prior, msg>>

\* Values a writer can put in a map: a string s, an int or uint form of n,
\* nil, or an array a of ints (every value has all four fields, so that
\* TLC can compare them).
Obj(t, s, n, a) == [t |-> t, s |-> s, n |-> n, a |-> a]
S(bs) == Obj("str", bs, 0, <<>>)
I(n)  == Obj("int", <<>>, n, <<>>)
U(n)  == Obj("uint", <<>>, n, <<>>)
Nil   == Obj("nil", <<>>, 0, <<>>)
A(ns) == Obj("arr", <<>>, 0, ns)

\* The value a field takes from o.
ValueOf(o) == IF o.t = "str" THEN o.s ELSE o.n

EncodeObj(o) ==
    CASE o.t = "str"  -> AppendString(o.s)
      [] o.t = "int"  -> AppendInt(o.n)
      [] o.t = "uint" -> AppendUint(o.n)
      [] o.t = "nil"  -> <<192>>
      [] o.t = "arr"  -> AppendArrayHeader(Len(o.a))
                         \o FlattenSeq([i \in DOMAIN o.a |-> AppendInt(o.a[i])])

E(k, o) == [key |-> k, val |-> o]

\* Entries: every known key with a right- and a wrong-typed value, a byte
\* that overflows, a uint where an int is expected, unknown keys.
Entries ==
    { E(S(KeyOf.Name), S(<<97>>)), E(S(KeyOf.Name), I(5)),
      E(S(KeyOf.DataType), U(200)), E(S(KeyOf.DataType), U(300)),
      E(S(KeyOf.OutputPosition), I(-129)), E(S(KeyOf.OutputPosition), U(40000)),
      E(S(KeyOf.OutputPosition), S(<<>>)),
      E(S(KeyOf.SDataType), S(<<98>>)),
      E(S(KeyOf.ProviderData1), I(7)),
      E(S(<<116, 97, 103>>), A(<<1, -1>>)), E(S(<<116, 97, 103>>), Nil),
      E(S(<<116, 97, 103>>), S(<<120>>)),
      E(I(7), Nil) }

EncodeMap(es) ==
    AppendMapHeader(Len(es))
    \o FlattenSeq([i \in DOMAIN es |-> EncodeObj(es[i].key) \o EncodeObj(es[i].val)])

EncodeArray(els) ==
    AppendArrayHeader(Len(els)) \o FlattenSeq([i \in DOMAIN els |-> EncodeMap(els[i])])

Messages == {<<es>> : es \in BoundedSeq(Entries, MaxEntries)}
            \cup {<<a, b>> : a, b \in BoundedSeq(Entries, 1)}

Priors == {[arr |-> <<>>, len |-> 0],
           [arr |-> <<[ZeroFD EXCEPT !.Name = <<1>>]>>, len |-> 1],
           [arr |-> [i \in 1 .. 2 |-> [ZeroFD EXCEPT !.OutputPosition = i]], len |-> 1]}

-----------------------------------------------------------------------------
(* Reference: decoding as a merge of the entries into the target.          *)

Fields == DOMAIN KeyOf
\* The type each field accepts, and what a failed read leaves in it.
Accepts(f, o) ==
    CASE f \in {"Name", "SDataType"}                -> o.t = "str"
      [] f = "DataType"                             -> o.t = "uint" /\ o.n <= 255
      [] f \in {"OutputPosition", "ProviderData1"}  -> o.t \in {"int", "uint"}
FailedRead(z, f) ==
    CASE f \in {"Name", "SDataType"}               -> [z EXCEPT ![f] = <<>>]
      [] f = "DataType"                            -> z
      [] f \in {"OutputPosition", "ProviderData1"} -> [z EXCEPT ![f] = 0]

\* Entries applied left to right: a later key overrides an earlier one,
\* an unknown key changes nothing, a non-string key or a wrongly typed
\* value stops the decode.
RECURSIVE Merge(_, _)
Merge(z, es) ==
    IF es = <<>> THEN [ok |-> TRUE, v |-> z]
    ELSE LET e == Head(es) IN
         IF e.key.t # "str" THEN [ok |-> FALSE, v |-> z]
         ELSE IF \A f \in Fields : KeyOf[f] # e.key.s THEN Merge(z, Tail(es))
         ELSE LET f == CHOOSE g \in Fields : KeyOf[g] = e.key.s IN
              IF Accepts(f, e.val) THEN Merge([z EXCEPT ![f] = ValueOf(e.val)], Tail(es))
              ELSE [ok |-> FALSE, v |-> FailedRead(z, f)]

\* Elements from i on merged into the backing array; the first failure
\* stops.
RECURSIVE MergeElems(_, _, _)
MergeElems(arr, els, i) ==
    IF i > Len(els) THEN [ok |-> TRUE, v |-> arr]
    ELSE LET r == Merge(arr[i], els[i]) IN
         IF r.ok THEN MergeElems([arr EXCEPT ![i] = r.v], els, i + 1)
         ELSE [ok |-> FALSE, v |-> [arr EXCEPT ![i] = r.v]]

\* Elements beyond the prior length are what the backing array held, when
\* it is long enough.
Expected(sl, els) ==
    LET n    == Len(els)
        base == IF Len(sl.arr) >= n THEN sl.arr ELSE [i \in 1 .. n |-> ZeroFD]
        res  == MergeElems(base, els, 1)
    IN  [ok |-> res.ok, v |-> [i \in 1 .. n |-> res.v[i]]]

-----------------------------------------------------------------------------
Init == prior \in Priors /\ msg \in Messages

Pick == prior' \in Priors /\ UNCHANGED msg

Spec == Init /\ [][Pick]_vars

(***************************************************************************)
(* Decoding is a merge (forward compatibility, spec 6: unknown keys are    *)
(* skipped): UnmarshalMsg of FieldDefinitions succeeds exactly when every *)
(* known key carries a value of its field's type and every key is a       *)
(* string; each element then holds the last value the message gives each *)
(* field and keeps, for fields it does not give, the value the slice's     *)
(* backing array held -- whatever the keys' order, repeats or unknown      *)
(* keys.  On failure the elements before the bad entry are decoded, the   *)
(* failing field is zeroed (except "type"), and nothing is left over.      *)
(***************************************************************************)
DecodeIsMerge ==
    \E r \in {UnmarshalFieldDefinitions(prior, EncodeArray(msg))},
      exp \in {Expected(prior, msg)} :
        /\ r.ok = exp.ok
        /\ Visible(r.v) = exp.v
        /\ r.ok => r.rest = <<>>
=============================================================================
