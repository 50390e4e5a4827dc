-------------------------- MODULE MC_KeyDerivation --------------------------
(***************************************************************************)
(* Checks DeriveCacheKey over every request built from small sets of query *)
(* strings, headers and bodies, under each path configuration.  The state  *)
(* is the request and the configuration, every input an initial state;   *)
(* Next only switches the configuration.  The property compares the key of *)
(* the current request with the key of every request that differs from it *)
(* in one part (URL, headers or body).                                     *)
(***************************************************************************)
EXTENDS KeyDerivation, Functions

CONSTANTS Vals,      \* query and form values
          MaxParams  \* longest query string enumerated

VARIABLES req, cfg

Names   == {"query", "time"}
HNames  == {"Authorization", "X-Test-Header"}

\* Byte order of every string that is sorted: "," (0x2C) sorts before
\* letters, so "a,b" falls between "a" and "b".
MCCollate == ("a" :> 1) @@ ("a,b" :> 2) @@ ("b" :> 3)
                @@ ("query" :> 4) @@ ("time" :> 5)

Sc(v)  == [kind |-> "scalar", val |-> v]
Obj(f) == [kind |-> "object", fields |-> f]
Arr    == [kind |-> "array"]
Query(table, options) ==
    Obj("query" :> Obj(("table" :> Sc(table)) @@ ("options" :> options)))

\* Bodies after parsing, after the S5 document of key_test.go: options an
\* object, a scalar or an array; query itself an array; an unparsable body.
Trees == { Query("movies", Obj("batchSize" :> Sc("20"))),
           Query("shows",  Obj("batchSize" :> Sc("20"))),
           Query("movies", Sc("20")),
           Query("movies", Arr),
           Obj("query" :> Arr),
           [kind |-> "invalid"] }

JSONPaths == {<<"query", "table">>, <<"query", "options", "batchSize">>,
              <<"query", "options">>, <<>>}

URLs == {[hasURL |-> TRUE, path |-> "/", query |-> q] :
            q \in BoundedSeq(Names \X Vals, MaxParams)}
        \cup {[hasURL |-> FALSE, path |-> "/", query |-> <<>>]}
Maps(D, V) == UNION {[S -> V] : S \in SUBSET D}
Headers == Maps(HNames, {"t1", "t2"})
Bodies  == {[ctype |-> "none", form |-> <<>>, json |-> Arr]}
           \cup {[ctype |-> c, form |-> f, json |-> Arr] :
                    c \in {"form", "multipart"},
                    f \in Maps({"field1", "field2"}, {"a"})}
           \cup {[ctype |-> "json", form |-> <<>>, json |-> t] : t \in Trees}
Requests == {[hasURL |-> u.hasURL, path |-> u.path, query |-> u.query,
              header |-> h, ctype |-> b.ctype, form |-> b.form, json |-> b.json] :
                u \in URLs, h \in Headers, b \in Bodies}

\* S1 and S8 (wildcard and listed parameters), S9 (no path options) and S6
\* (a custom hasher).
Configs ==
    {[params |-> <<"*">>, headers |-> <<"X-Test-Header">>, fields |-> <<"field1">>,
      jsonPaths |-> JSONPaths, hashers |-> <<>>],
     [params |-> <<"query">>, headers |-> <<>>, fields |-> <<"field1">>,
      jsonPaths |-> JSONPaths, hashers |-> <<>>],
     [params |-> <<>>, headers |-> <<>>, fields |-> <<>>,
      jsonPaths |-> {}, hashers |-> <<>>],
     [params |-> <<"*">>, headers |-> <<>>, fields |-> <<>>,
      jsonPaths |-> {}, hashers |-> <<"test-key">>]}

Extra == "extra"

Init == req \in Requests /\ cfg \in Configs

Pick == cfg' \in Configs /\ UNCHANGED req

Next == Pick

Spec == Init /\ [][Next]_<<req, cfg>>

Key(r) == DeriveCacheKey(r, cfg, Extra)

\* Requests that differ from r in exactly one of URL, headers and body.
Neighbours(r) ==
    {[r EXCEPT !.hasURL = u.hasURL, !.path = u.path, !.query = u.query] : u \in URLs}
    \cup {[r EXCEPT !.header = h] : h \in Headers}
    \cup {[r EXCEPT !.ctype = b.ctype, !.form = b.form, !.json = b.json] : b \in Bodies}

\* Reference for the JSON part: every <<path, node>> of a tree.
RECURSIVE Entries(_)
Entries(t) ==
    {<<<<>>, t>>}
    \cup IF t.kind # "object" THEN {}
         ELSE UNION {{<<<<k>> \o e[1], e[2]>> : e \in Entries(t.fields[k])} :
                        k \in DOMAIN t.fields}

\* What spec 4.3 says the key depends on: the path, how many times each
\* selected parameter carries each value, the selected headers (with
\* Authorization), the listed form fields of a form body, the configured
\* JSON paths that end at a scalar of a JSON body, and the extra string.
View(r) ==
    LET q     == KeyQuery(r)
        names == {e[1] : e \in ToSet(q)}
        sel   == IF cfg.params = <<"*">> THEN names
                 ELSE names \cap ToSet(cfg.params)
        hs    == (ToSet(cfg.headers) \cup {"Authorization"}) \cap DOMAIN r.header
        fs    == IF r.ctype \in {"form", "multipart"}
                 THEN ToSet(cfg.fields) \cap DOMAIN r.form ELSE {}
    IN  [path   |-> KeyPath(r),
         params |-> [k \in sel |->
                       [v \in Vals |-> Cardinality({i \in DOMAIN q : q[i] = <<k, v>>})]],
         header |-> [h \in hs |-> r.header[h]],
         form   |-> [f \in fs |-> r.form[f]],
         json   |-> IF r.ctype # "json" THEN {}
                    ELSE {<<e[1], e[2].val>> :
                            e \in {x \in Entries(r.json) : x[1] \in cfg.jsonPaths
                                                           /\ x[2].kind = "scalar"}},
         extra  |-> Extra]

(***************************************************************************)
(* Sensitivity (property 8.2) and selection (4.3): two requests that       *)
(* differ in one part get the same key exactly when they agree on          *)
(* everything the configuration selects; in particular the Authorization   *)
(* header always separates tenants.  Not asked of a custom hasher, whose   *)
(* result is used verbatim.                                                *)
(***************************************************************************)
KeySeparatesSelected ==
    cfg.hashers = <<>> =>
        \A r \in Neighbours(req) : (Key(r) = Key(req)) <=> (View(r) = View(req))
=============================================================================
