----------------------------- MODULE FormModel -----------------------------
(***************************************************************************)
(* The engine that every editor form of the UI is built on                 *)
(* (policy-form-model.ts and its twin proxy-form-model.ts): JSON objects,  *)
(* field tables, the visibility of a field, pruning, and what a control    *)
(* writes.                                                                 *)
(*                                                                         *)
(* A JSON object is a function from the paths of its leaves to leaf        *)
(* values; a path is the sequence of its keys.  A leaf value is the class  *)
(* the code tells apart: "true", "false", "number", "fraction" (a number   *)
(* that is no natural number), "string", "" (the empty string), "strings", *)
(* "numbers", "[]", "array" (of objects), "object", "null", or one of the  *)
(* strings that a table names; "undefined" is the absence of a value.      *)
(***************************************************************************)
EXTENDS Naturals, FiniteSets, SequencesExt

Top(names) == {<<n>> : n \in names}

Sub(prefix, names) == {Append(prefix, n) : n \in names}

\* A path, and an object: finitely many leaves with a value, none above another.
IsPath(p) == Len(p) \in Nat /\ p = [i \in 1 .. Len(p) |-> p[i]]

IsObject(o) ==
  /\ IsFiniteSet(DOMAIN o) /\ o = [d \in DOMAIN o |-> o[d]]
  /\ \A d \in DOMAIN o : IsPath(d) /\ o[d] # "undefined"
  /\ \A d, e \in DOMAIN o : ~ IsStrictPrefix(d, e)

getPath(o, p) ==
  IF p \in DOMAIN o THEN o[p]
  ELSE IF \E d \in DOMAIN o : IsStrictPrefix(p, d) THEN "object"
  ELSE "undefined"

\* Removing a path also removes a scalar that stands where its parent object
\* would (the parent is rebuilt from {}), and parents that become empty.
Without(o, paths) ==
  Restrict(o, {d \in DOMAIN o :
                  \A p \in paths : ~ IsPrefix(p, d) /\ ~ IsStrictPrefix(d, p)})

\* A bug to be caught: the parents and the children of the path stay.
SetBeside(o, p, v) ==
  IF v = "undefined" THEN Restrict(o, DOMAIN o \ {p})
  ELSE [d \in DOMAIN o \cup {p} |-> IF d = p THEN v ELSE o[d]]

setPath(o, p, v) ==
  LET rest == Without(o, {p})
  IN  IF v = "undefined" THEN rest
      ELSE [d \in DOMAIN rest \cup {p} |-> IF d = p THEN v ELSE rest[d]]

(***************************************************************************)
(* Fields.  A condition asks whether the value at a path is in a set.      *)
(***************************************************************************)
Falsy == {"undefined", "null", "false", "", "[]"}

isFalsy(v) == v \in Falsy

Is(p, values) == {[path |-> p, set |-> values, in |-> TRUE]}
Set(p) == {[path |-> p, set |-> Falsy, in |-> FALSE]}
Unset(p) == {[path |-> p, set |-> Falsy, in |-> TRUE]}

matchesWhen(o, c) == (getPath(o, c.path) \in c.set) = c.in

Fields(kind, paths) == {[path |-> p, kind |-> kind, when |-> {}] : p \in paths}

When(conditions, fields) == {[f EXCEPT !.when = @ \cup conditions] : f \in fields}

\* The part of a table that only some of its types have.
For(t, types, fields) == IF t \in types THEN fields ELSE {}

PathsOf(fields) == {f.path : f \in fields}

isFieldVisible(o, f) == \A c \in f.when : matchesWhen(o, c)

\* The paths at which an object holds a value: its leaves and their parents.
PathsIn(o) == UNION {Prefixes(d) : d \in DOMAIN o}

HiddenButSet(o, fields) ==
  LET set == PathsIn(o) IN {f \in fields : f.path \in set /\ ~ isFieldVisible(o, f)}

HiddenButTruthy(o, fields) ==
  {f \in HiddenButSet(o, fields) : ~ isFalsy(getPath(o, f.path))}

\* A bug to be caught: a hidden false or empty value stays.
PruneTruthy(o, fields) ==
  Without(o, PathsOf(HiddenButTruthy(o, fields)))

\* Until a round removes nothing.  A round of the code sees its own removals;
\* a removal never shows a field (no field that an Unset condition names is
\* ever hidden), so a round may as well remove all that its start hides.
pruneInvisibleFields(o, fields) ==
  LET prune[leaves \in SUBSET DOMAIN o] ==
        LET kept == Restrict(o, leaves)
            hidden == HiddenButSet(kept, fields)
        IN  IF hidden = {} THEN kept
            ELSE prune[DOMAIN Without(kept, PathsOf(hidden))]
  IN  prune[DOMAIN o]

(***************************************************************************)
(* Type changes: which values may stay under a field of the new type.      *)
(***************************************************************************)
Scalars == {"string", "", "number", "fraction", "true", "false"}
Booleans == {"true", "false"}
Lists == {"string", "", "strings", "[]"}
NumberLists == {"number", "fraction", "numbers", "[]"}

matchesField(v, kind) ==
  CASE v = "undefined" -> TRUE
    [] kind = "boolean" -> v \in Booleans
    [] kind = "number" -> v \in {"number", "fraction"}
    [] kind \in {"list", "network-multi", "ref-multi"} -> v \in Lists
    [] kind = "number-list" -> v \in NumberLists
    [] kind = "json-object" -> v = "object"
    [] kind = "json-array" -> v \in {"array", "strings", "numbers", "[]"}
    [] OTHER -> v \notin {"null", "object", "array", "strings", "numbers", "[]"}

(***************************************************************************)
(* What the controls of the policy forms write into a field: a value, or   *)
(* nothing once they are cleared.  A switch is in EntryForms.              *)
(***************************************************************************)
TextInputs == {"string", "undefined"}
RefInputs == {"string", "undefined"}
InterfaceInputs == {"string", "undefined"}
ListInputs == {"strings", "undefined"}
RefMultiInputs == {"strings", "undefined"}
NetworkInputs == {"strings", "undefined"}
NumberInputs == {"number", "undefined"}
NumberListInputs == {"numbers", "undefined"}

\* A draft that is no array, or no object, is not written (ConfigPages).
StructuredInputs(kind) ==
  IF kind = "json-array" THEN {"array", "[]", "undefined"} ELSE {"object", "undefined"}

defaultInputs(kind) ==
  CASE kind = "list" -> ListInputs
    [] kind = "ref-multi" -> RefMultiInputs
    [] kind = "network-multi" -> NetworkInputs
    [] kind = "number-list" -> NumberListInputs
    [] kind = "number" -> NumberInputs
    [] kind \in {"json-object", "json-array"} -> StructuredInputs(kind)
    [] kind = "ref" -> RefInputs
    [] kind = "network-interface" -> InterfaceInputs
    [] OTHER -> TextInputs

(***************************************************************************)
(* Groups of fields that several tables repeat, and lookups in a table by  *)
(* the value of a discriminator (type, action).                            *)
(***************************************************************************)
DR == <<"domain_resolver">>
TLS == <<"tls">>

\* The resolver group of several forms: the other fields show once the server
\* is set.
Resolver(prefix) ==
  Fields("ref", Sub(prefix, {"server"})) \cup
  When(Set(Append(prefix, "server")),
       Fields("select", Sub(prefix, {"strategy"})) \cup
       Fields("boolean", Sub(prefix, {"disable_cache"})) \cup
       Fields("number", Sub(prefix, {"rewrite_ttl"})) \cup
       Fields("text", Sub(prefix, {"client_subnet"})))

keepAliveOn == Unset(<<"disable_tcp_keep_alive">>)

\* The dialer fields that every form with a dialer shares.
DialerFields(resolver) ==
  Fields("network-interface", Top({"bind_interface"})) \cup
  Fields("text", Top({"inet4_bind_address", "inet6_bind_address", "protect_path",
    "routing_mark", "netns", "connect_timeout", "fallback_delay"})) \cup
  Fields("boolean", Top({"bind_address_no_port", "reuse_addr", "tcp_fast_open",
    "tcp_multi_path", "disable_tcp_keep_alive"})) \cup
  When(keepAliveOn,
       Fields("text", Top({"tcp_keep_alive", "tcp_keep_alive_interval"}))) \cup
  Fields("select", Top({"network_strategy"})) \cup
  Fields("list", Top({"network_type", "fallback_network_type"})) \cup
  resolver

\* String(value ?? fallback) of a discriminator.
Named(o, p, fallback) ==
  IF getPath(o, p) \in {"undefined", "null"} THEN fallback ELSE getPath(o, p)

AllOf(table) == UNION {table[t] : t \in DOMAIN table}

TargetOf(table, t) == IF t \in DOMAIN table THEN table[t] ELSE {}
=============================================================================
