---------------------------- MODULE KeyDerivation ----------------------------
(***************************************************************************)
(* Cache key derivation (proxy/engines DeriveCacheKey and deepSearch).     *)
(* Only the tests of this code are in src/ (key_test.go), so every         *)
(* operator here is written from spec.md 4.3 and 7 (KeyDerive).            *)
(*                                                                         *)
(* The key is the MD5 digest of its input.  The digest is taken to be      *)
(* injective, so the key is represented by the input it is taken over: the *)
(* path, the selected query parameters as a sorted sequence of name and    *)
(* joined values, the selected headers, form fields and JSON leaves, and   *)
(* the caller's extra string.  Headers, form fields and JSON leaves are    *)
(* emitted sorted by name, which makes their part a function of the set of *)
(* selected pairs; the model keeps that set.  The query part keeps its     *)
(* order, its repeated values and their comma join, where the spec's       *)
(* sorting and joining rules act.  JSON scalars are kept as the text the   *)
(* key takes of them.                                                      *)
(***************************************************************************)
EXTENDS Integers, Sequences, SequencesExt, FiniteSets

CONSTANT Collate   \* Collate[s]: rank of the string s in byte order

(***************************************************************************)
(* A request: hasURL is FALSE for a body-only request with a nil URL;      *)
(* query is the query string's <<name, value>> pairs in request order;     *)
(* header and form map names to values; ctype is the body's kind           *)
(* ("none", "form", "multipart" or "json") and json its parsed tree.  A    *)
(* JSON node is [kind |-> "object", fields |-> f], [kind |-> "array"],     *)
(* [kind |-> "scalar", val |-> text], or [kind |-> "invalid"] for a body   *)
(* that does not parse.                                                    *)
(*                                                                         *)
(* Path options P: params, headers and fields are the configured lists,    *)
(* jsonPaths the configured paths already split at "/", hashers the list   *)
(* of custom key hashers.  A hasher is represented by the key it returns *)
(* (the tests' hasher returns "test-key" for every request).             *)
(***************************************************************************)

NotFound == [kind |-> "notFound"]

\* deepSearch: follow the segments through nested objects; the path resolves
\* only to a scalar leaf.  An empty path, an absent key, or a step into a
\* non-object (an array included) is not found.
RECURSIVE Descend(_, _)
Descend(node, segs) ==
    IF node.kind # "object" \/ Head(segs) \notin DOMAIN node.fields THEN NotFound
    ELSE LET child == node.fields[Head(segs)] IN
         IF Len(segs) > 1 THEN Descend(child, Tail(segs))
         ELSE IF child.kind = "scalar" THEN child ELSE NotFound

deepSearch(doc, segs) == IF segs = <<>> THEN NotFound ELSE Descend(doc, segs)

\* A nil URL defaults the path to "/" and leaves no query parameters.
KeyPath(req)  == IF req.hasURL THEN req.path ELSE "/"
KeyQuery(req) == IF req.hasURL THEN req.query ELSE <<>>

ByCollation(a, b) == Collate[a] < Collate[b]

\* The values a query string gives the parameter k, in request order.
ValuesOf(q, k) == [i \in 1 .. Len(SelectSeq(q, LAMBDA e : e[1] = k))
                      |-> SelectSeq(q, LAMBDA e : e[1] = k)[i][2]]

\* strings.Join(vs, ",").
JoinComma(vs) ==
    IF vs = <<>> THEN ""
    ELSE FoldLeft(LAMBDA acc, v : acc \o "," \o v, Head(vs), Tail(vs))

\* The parameters that take part: all of them for the list ["*"], else the
\* listed ones the request carries.
SelectedParams(req, P) ==
    LET present == {e[1] : e \in ToSet(KeyQuery(req))}
    IN  IF P.params = <<"*">> THEN present ELSE present \cap ToSet(P.params)

\* Selected parameters sorted by name, each with its values sorted and
\* joined by ",".
ParamsPart(req, P) ==
    LET names == SetToSortSeq(SelectedParams(req, P), ByCollation)
    IN  [i \in DOMAIN names |->
           <<names[i], JoinComma(SortSeq(ValuesOf(KeyQuery(req), names[i]),
                                         ByCollation))>>]

\* Mutant: Authorization counts only when it is listed.
HeadersPartListedOnly(req, P) ==
    {<<h, req.header[h]>> : h \in ToSet(P.headers) \cap DOMAIN req.header}

\* Listed headers the request carries, and Authorization whenever present.
HeadersPart(req, P) ==
    {<<h, req.header[h]>> : h \in (ToSet(P.headers) \cup {"Authorization"})
                                  \cap DOMAIN req.header}

\* Listed form fields, read only from a form-encoded or multipart body.
FormPart(req, P) ==
    IF req.ctype \in {"form", "multipart"}
    THEN {<<f, req.form[f]>> : f \in ToSet(P.fields) \cap DOMAIN req.form}
    ELSE {}

\* Configured JSON paths that resolve to a leaf of a JSON body; a path that
\* does not resolve, or a body that does not parse, contributes nothing.
JSONPart(req, P) ==
    IF req.ctype = "json"
    THEN {<<p, deepSearch(req.json, p).val>> :
              p \in {x \in P.jsonPaths : deepSearch(req.json, x) # NotFound}}
    ELSE {}

\* DeriveCacheKey: the first custom hasher's result verbatim when one is
\* configured, else the digest of the pieces in spec order.
DeriveCacheKey(req, P, extra) ==
    IF P.hashers # <<>> THEN <<Head(P.hashers)>>
    ELSE <<KeyPath(req), ParamsPart(req, P), HeadersPart(req, P),
           FormPart(req, P), JSONPart(req, P), extra>>
=============================================================================
