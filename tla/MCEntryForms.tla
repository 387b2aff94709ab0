---------------------------- MODULE MCEntryForms ----------------------------
(***************************************************************************)
(* Bounds of the runs of EntryForms.  An entry has a type, an action and a *)
(* transport as the form allows, a key that no table knows, and the leaves *)
(* of one field of a table: the field itself and the fields its conditions *)
(* name, with values that suit and one that does not.                      *)
(***************************************************************************)
EXTENDS EntryForms

custom == <<"custom">>

\* Of proxies that differ in the names of their fields only, one stands for all.
MCTypeBound(f) ==
  CASE f = "inbound" -> {"http", "direct", "shadowsocks", "vmess", "hysteria",
                         "hysteria2", "shadowtls", "tproxy", "tun"}
    [] f = "outbound" -> {"socks", "shadowsocks", "vmess", "naive", "hysteria",
                          "hysteria2", "ssh", "shadowtls", "direct", "selector"}
    [] OTHER -> TypeOptions(f)

Options(f, p) ==
  CASE p = <<"type">> /\ f \in {"route_rule", "dns_rule"} -> {"logical"}
    [] p = <<"type">> /\ f \in {"rule_set", "dns_server", "inbound", "outbound",
                                 "endpoint"} ->
         (MCTypeBound(f) \ {"legacy"}) \cup {"other"}
    [] p = <<"type">> -> TypeOptions(f)
    [] p = <<"action">> -> ActionOptions(f)

\* Objects with the discriminators only.
Skeletons(f) ==
  LET one(p) == {<<>>} \cup {p :> v : v \in Options(f, p)}
      typed == one(<<"type">>)
  IN  CASE f \in {"route_rule", "dns_rule"} -> {t @@ a : t \in typed, a \in one(<<"action">>)}
        [] f \in ProxyFormNames ->
             typed \cup {(<<"type">> :> "vmess") @@ (transportType :> r) :
                           r \in transportTypes5 \cup {"other"}}
        [] f = "endpoint" ->
             {t @@ e : t \in typed,
                e \in {(<<"tag">> :> "string"),
                       (<<"tag">> :> "string") @@ (<<"private_key">> :> "string")
                         @@ (<<"address">> :> "strings")}}
        [] f \in TypedForms -> typed
        [] OTHER -> {<<>>}

Unfit(kind) ==
  CASE kind \in {"boolean", "number", "json-object", "json-array", "users"} -> "string"
    [] kind = "number-list" -> "strings"
    [] OTHER -> "object"

\* A value that satisfies a condition and one that does not.
ConditionValues(c) ==
  {"undefined"} \cup
  (IF c.in /\ c.set # Falsy THEN {CHOOSE v \in c.set : TRUE} ELSE {"true"})

WithLeaves(f, skeleton, fld) ==
  LET whens == {c \in fld.when : c.path \notin Discriminators}
      values(p) == IF p = fld.path THEN Written(f, fld) \cup {Unfit(fld.kind)}
                   ELSE ConditionValues(CHOOSE c \in whens : c.path = p)
      paths == {fld.path} \cup {c.path : c \in whens}
      leaves == {h \in [paths -> UNION {values(p) : p \in paths}] :
                   \A p \in paths : h[p] \in values(p)}
      tidy(o) == Restrict(o, {p \in DOMAIN o : o[p] \notin {"undefined", ""}})
      native == fld \in Tabs(f, skeleton)
      stray == f \in ProxyFormNames => getPath(skeleton, <<"type">>) = "other"
  IN  CASE native -> {tidy(h @@ skeleton) : h \in leaves}
        [] ~ native /\ stray ->
             {(fld.path :> (CHOOSE v \in Written(f, fld) : v # "undefined")) @@ skeleton}
        [] OTHER -> {}

\* Text where the tables expect an object ("domain_resolver": "local").
Shorthands(f, s) ==
  {(<<p[1]>> :> "string") @@ s :
     p \in {q \in KnownPaths[f] : Len(q) > 1 /\ getPath(s, <<q[1]>>) = "undefined"}}

MCEntries(f) ==
  UNION {{s, (custom :> "string") @@ s} \cup Shorthands(f, s) \cup
         UNION {WithLeaves(f, s, fld) :
                  fld \in {g \in KnownFields(f) : g.path \notin Discriminators}} :
           s \in Skeletons(f)}

\* A field is edited where it is set already or a scalar stands for its
\* parent, or joins only leaves that its conditions name.
Base == Discriminators \cup Top({"tag", "address", "private_key", "peers", "default"})

MCRoom(o, fld) ==
  \/ \E p \in Prefixes(fld.path) : p \in DOMAIN o
  \/ DOMAIN o \subseteq Base \cup {c.path : c \in fld.when}
=============================================================================
