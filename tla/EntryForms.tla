----------------------------- MODULE EntryForms -----------------------------
(***************************************************************************)
(* One entry of the configuration in its editor: the dialog of a route     *)
(* rule, a rule set, a DNS rule, a DNS server, an inbound, an outbound or  *)
(* an endpoint, or a card of global settings.  The entry comes from the    *)
(* configuration or from the JSON tab as any object; field edits, type,    *)
(* action and transport changes rewrite it; Save hands it to the page.     *)
(***************************************************************************)
EXTENDS PolicyForms, ProxyForms, AdvancedForms, TLC

CONSTANTS
  Forms,          \* the forms that are explored
  Entries(_),     \* the objects with which a form is opened
  Room(_, _),     \* the fields that are edited in an object (a bound)
  TypeBound(_)    \* the types that a form's entries change to (a bound)

VARIABLES
  form,           \* the form that is open
  obj,            \* its object: what the JSON tab shows
  last            \* "field" after a field edit, "saved" after Save, else "open"

vars == <<form, obj, last>>

Type(o) == getPath(o, <<"type">>)
RuleType(o) == Named(o, <<"type">>, "default")
Action(o) == Named(o, <<"action">>, "route")
Transport(o) == Named(o, transportType, "")
ProxyType(o) == Named(o, <<"type">>, "")

ProxyFormNames == {"inbound", "outbound"}
DNSFormNames == {"dns_rule", "dns_server", "dns_global"}
TypedForms == {"route_rule", "rule_set", "dns_rule", "dns_server", "inbound",
               "outbound", "endpoint"}
GlobalForms == {"route_global", "dns_global", "fakeip", "experimental"}

\* The types and transports that the tables of the proxies are kept for.
Listed(f, o) ==
  /\ ProxyType(o) \in IF f = "inbound" THEN inboundNames ELSE outboundNames
  /\ Transport(o) \in transportNames

ASSUME EntriesAssumption ==
  /\ Forms \subseteq TypedForms \cup GlobalForms
  /\ \A f \in Forms : \A o \in Entries(f) :
       IsObject(o) /\ (f \in ProxyFormNames => Listed(f, o))

(***************************************************************************)
(* The fields that a dialog renders for an object, over all its tabs.      *)
(***************************************************************************)
RouteRuleTabs(o) == managedRouteRuleFields(RuleType(o), Action(o))

RuleSetTabs(o) ==
  Fields("text", Top({"tag", "format"})) \cup
  (CASE Named(o, <<"type">>, "inline") = "remote" ->
          Fields("text", Top({"url", "update_interval"})) \cup
          Fields("ref", Top({"download_detour"}))
     [] Named(o, <<"type">>, "inline") = "local" -> Fields("text", Top({"path"}))
     [] OTHER -> {})

DNSRuleTabs(o) ==
  (IF Type(o) = "logical" THEN dnsLogicalFields ELSE dnsRuleMatchFields)
    \cup TargetOf(dnsActionFields, Action(o))

DNSServerTabs(o) ==
  TargetOf(dnsServerFields, inferDNSServerType(o))

InboundTabs ==
  [type \in inboundNames |->
     [transport \in transportNames |->
        {f \in managedInboundFields[type][transport] :
           /\ type = "tun" => f \in tunFields
           /\ type # "tun" => f \notin tunFields \ listenFields}]]

OutboundTabs ==
  [type \in outboundNames |->
     [transport \in transportNames |->
        {f \in managedOutboundFields[type][transport] :
           type \in groupTypes => f.path \notin Top({"outbounds", "default"})}]]

EndpointTabs == Fields("text", Top({"tag"})) \cup endpointFields

Tabs(f, o) ==
  CASE f = "route_rule" -> RouteRuleTabs(o)
    [] f = "rule_set" -> RuleSetTabs(o)
    [] f = "dns_rule" -> DNSRuleTabs(o)
    [] f = "dns_server" -> DNSServerTabs(o)
    [] f = "inbound" -> InboundTabs[ProxyType(o)][Transport(o)]
    [] f = "outbound" -> OutboundTabs[ProxyType(o)][Transport(o)]
    [] f = "endpoint" -> EndpointTabs
    [] f = "route_global" -> routeGlobalFields
    [] f = "dns_global" -> dnsGlobalFields
    [] f = "fakeip" -> legacyFakeIPFields
    [] f = "experimental" -> experimentalFields

(***************************************************************************)
(* Field edits.                                                            *)
(***************************************************************************)
\* Text fields that the route and DNS transforms turn into numbers.
routeNumberConstraints ==
  [integer |-> Top({"ip_version", "override_port", "fallback_delay", "rewrite_ttl"})
                 \cup {<<"default_domain_resolver", "rewrite_ttl">>,
                       <<"domain_resolver", "rewrite_ttl">>},
   list |-> Top({"source_port", "port", "user_id"}),
   mark |-> Top({"default_mark", "routing_mark"})]

dnsNumberConstraints ==
  [integer |-> Top({"ip_version", "server_port", "cache_capacity", "rewrite_ttl"})
                 \cup {<<"domain_resolver", "rewrite_ttl">>},
   list |-> Top({"source_port", "port", "user_id"}),
   mark |-> Top({"routing_mark"})]

\* An integer list of separators only is stored as the empty list.
numberTransformInputs(constraints, fld) ==
  CASE fld.path \in constraints.list -> {"numbers", "[]", "undefined"}
    [] fld.path \in constraints.mark -> {"string", "number", "undefined"}
    [] fld.path \in constraints.integer /\
       (fld.path = <<"fallback_delay">> => fld.kind = "number") -> NumberInputs
    [] OTHER -> defaultInputs(fld.kind)

transformDNSInputs(fld) ==
  CASE fld.path = <<"query_type">> -> {"strings", "numbers", "undefined"}
    [] fld.path = <<"rcode">> -> {"string", "number", "undefined"}
    [] OTHER -> numberTransformInputs(dnsNumberConstraints, fld)

\* A switch of the policy forms stores false, one of the proxy forms nothing.
SwitchInputs(f, current) ==
  IF current # "true" THEN {"true"}
  ELSE IF f \in ProxyFormNames THEN {"undefined"} ELSE {"false"}

Inputs(f, fld, current) ==
  CASE fld.kind = "boolean" -> SwitchInputs(f, current)
    [] f \in {"route_rule", "route_global"} ->
         numberTransformInputs(routeNumberConstraints, fld)
    [] f \in DNSFormNames -> transformDNSInputs(fld)
    [] f \in ProxyFormNames -> proxyInputs(fld)
    [] OTHER -> defaultInputs(fld.kind)

applyRouteRuleFieldChange(next) ==
  pruneInvisibleFields(next, managedRouteRuleFields(RuleType(next), Action(next)))

applyDNSServerFieldChange(next) ==
  pruneInvisibleFields(next, TargetOf(dnsServerFields, inferDNSServerType(next)))

applyInboundFieldChange(next) ==
  pruneInvisibleFields(next, managedInboundFields[ProxyType(next)][Transport(next)])

applyOutboundFieldChange(next) ==
  pruneInvisibleFields(next, managedOutboundFields[ProxyType(next)][Transport(next)])

Apply(f, next) ==
  CASE f = "route_rule" -> applyRouteRuleFieldChange(next)
    [] f = "dns_server" -> applyDNSServerFieldChange(next)
    [] f = "inbound" -> applyInboundFieldChange(next)
    [] f = "outbound" -> applyOutboundFieldChange(next)
    [] f = "endpoint" -> prepareEndpointObject(next)
    [] f = "route_global" -> pruneInvisibleFields(next, routeGlobalFields)
    [] f = "fakeip" -> applyDNSFakeIPFieldChange(next)
    [] OTHER -> next      \* the tables have no conditions, or Save prunes

\* What the visual tabs show; the endpoint dialog keeps the text as it was
\* given and shows the object pruned.
Visual(f, o) == IF f = "endpoint" THEN prepareEndpointObject(o) ELSE o

Edit(f, o, p, v) ==
  LET chosen == IF v = "undefined" THEN "" ELSE v
  IN  CASE p = transportType /\ f = "inbound" ->
             Apply(f, changeTransportType(o, chosen))
        [] p = transportType /\ f = "outbound" ->
             Apply(f, changeOutboundTransportType(o, chosen))
        [] OTHER -> Apply(f, setPath(o, p, v))

EditField(fld, v) ==
  /\ last # "saved"
  /\ isFieldVisible(Visual(form, obj), fld)
  /\ v # getPath(obj, fld.path)
  /\ obj' = Edit(form, Visual(form, obj), fld.path, v)
  /\ last' = "field"
  /\ UNCHANGED form

\* Written without pruning: the tag of some forms, an outbound's server and
\* port, and the default of a selector that has members.
BaseFields(f, o) ==
  CASE f \in {"inbound", "dns_server"} -> Fields("text", Top({"tag"}))
    [] f = "outbound" ->
         Fields("text", Top({"tag"})) \cup
         (IF ProxyType(o) \in serverTypes
          THEN Fields("text", Top({"server"})) \cup Fields("number", Top({"server_port"}))
          ELSE {}) \cup
         (IF ProxyType(o) = "selector" /\ getPath(o, <<"outbounds">>) = "strings"
          THEN Fields("ref", Top({"default"})) ELSE {})
    [] OTHER -> {}

\* Clearing the tag of an inbound stores an empty one.
BaseInputs(f, fld) ==
  IF f = "inbound" THEN {"string", ""} ELSE defaultInputs(fld.kind)

EditBase(fld, v) ==
  /\ last # "saved"
  /\ obj' = setPath(obj, fld.path, v)
  /\ last' = "open"
  /\ UNCHANGED form

EditMembers(members, holdsDefault) ==
  /\ last # "saved" /\ form = "outbound" /\ ProxyType(obj) \in groupTypes
  /\ members = "undefined" => ~ holdsDefault
  /\ obj' = setMembers(obj, members, holdsDefault)
  /\ last' = "open"
  /\ UNCHANGED form

(***************************************************************************)
(* Type and action changes.                                                *)
(***************************************************************************)
TypeOptions(f) ==
  CASE f \in {"route_rule", "dns_rule"} -> {"default", "logical"}
    [] f = "rule_set" -> DOMAIN ruleSetFields
    [] f = "dns_server" -> dnsServerTypes
    [] f = "inbound" -> inboundTypes
    [] f = "outbound" -> outboundTypes
    [] f = "endpoint" -> {"wireguard", "tailscale"}
    [] OTHER -> {}

Retyped(f, o, type) ==
  CASE f = "route_rule" -> changeRouteRuleType(o, type)
    [] f = "rule_set" -> changeRuleSetType(o, type)
    [] f = "dns_rule" -> changeDNSRuleType(o, type)
    [] f = "dns_server" -> changeDNSServerType(o, type)
    [] f = "inbound" -> changeInboundType(o, type)
    [] f = "outbound" -> changeOutboundType(o, type)
    [] f = "endpoint" -> changeEndpointType(o, type)

ChangeType(type) ==
  /\ last # "saved"
  /\ obj' = Retyped(form, Visual(form, obj), type)
  /\ last' = "open"
  /\ UNCHANGED form

ActionOptions(f) ==
  CASE f = "route_rule" -> routeActions [] f = "dns_rule" -> dnsActions [] OTHER -> {}

ChangeAction(action) ==
  /\ last # "saved"
  /\ obj' = IF form = "route_rule" THEN changeRouteAction(obj, action)
            ELSE changeDNSAction(obj, action)
  /\ last' = "open"
  /\ UNCHANGED form

(***************************************************************************)
(* The JSON tab: the text is any object; here a key other than those that  *)
(* choose the tables is deleted.  Any other text is an initial state.      *)
(***************************************************************************)
Discriminators == Top({"type", "action"}) \cup {transportType}

updateJSON(p) ==
  /\ last # "saved"
  /\ obj' = Without(obj, {p})
  /\ last' = "open"
  /\ UNCHANGED form

(***************************************************************************)
(* Save                                                                    *)
(***************************************************************************)
Text(v) == v \notin Scalars \ {"string"} /\ v \notin
             {"undefined", "null", "object", "array", "strings", "numbers", "[]"}

requiredRuleValue(o) ==
  Type(o) = "logical" => Text(getPath(o, <<"mode">>)) /\ getPath(o, <<"rules">>) = "array"

requiredActionValue(o) ==
  CASE Action(o) \in {"route", "bypass"} -> Text(getPath(o, <<"outbound">>))
    [] Action(o) = "resolve" -> Text(getPath(o, <<"server">>))
    [] OTHER -> TRUE

requiredFieldsPresent(o) ==
  /\ Text(getPath(o, <<"tag">>))
  /\ Type(o) = "remote" => Text(getPath(o, <<"url">>))
  /\ Type(o) = "local" => Text(getPath(o, <<"path">>))

requiredDNSRule(o) ==
  requiredRuleValue(o) /\ (Action(o) = "route" => Text(getPath(o, <<"server">>)))

requiredServerValues(o) ==
  LET type == inferDNSServerType(o)
  IN  /\ Text(getPath(o, <<"tag">>))
      /\ type = "legacy" => Text(getPath(o, <<"address">>))
      /\ type \in {"udp", "tcp", "tls", "quic", "https", "h3"} =>
           Text(getPath(o, <<"server">>))
      /\ type = "fakeip" => \E p \in Top({"inet4_range", "inet6_range"}) :
                              Text(getPath(o, p))

CanSave(f, o) ==
  CASE f = "route_rule" -> requiredRuleValue(o) /\ requiredActionValue(o)
    [] f = "rule_set" -> requiredFieldsPresent(o)
    [] f = "dns_rule" -> requiredDNSRule(o)
    [] f = "dns_server" -> requiredServerValues(o)
    [] f \in ProxyFormNames -> Text(Type(o))
    [] f = "endpoint" -> isEndpointReady(o) \/ isEndpointReady(prepareEndpointObject(o))
    [] OTHER -> TRUE

\* A bug to be caught: Save stores what the form hides.
PersistAsShown(f, o) == o

persist(f, o) ==
  CASE f = "endpoint" -> prepareEndpointObject(o)
    [] f = "experimental" -> pruneInvisibleFields(o, experimentalFields)
    [] OTHER -> o

Save ==
  /\ last # "saved" /\ CanSave(form, obj)
  /\ obj' = persist(form, obj)
  /\ last' = "saved"
  /\ UNCHANGED form

\* The saved entry is opened again.
Open == last = "saved" /\ last' = "open" /\ UNCHANGED <<form, obj>>

(***************************************************************************)
Init == form \in Forms /\ obj \in Entries(form) /\ last = "open"

Next ==
  \/ \E fld \in {g \in Tabs(form, Visual(form, obj)) : Room(obj, g)} :
       \E v \in Inputs(form, fld, getPath(obj, fld.path)) : EditField(fld, v)
  \/ \E fld \in {g \in BaseFields(form, obj) : Room(obj, g)} :
       \E v \in BaseInputs(form, fld) : EditBase(fld, v)
  \/ \E members \in ListInputs, holdsDefault \in BOOLEAN :
       EditMembers(members, holdsDefault)
  \/ \E type \in TypeOptions(form) \cap TypeBound(form) : ChangeType(type)
  \/ \E action \in ActionOptions(form) : ChangeAction(action)
  \/ \E p \in DOMAIN obj \ Discriminators : updateJSON(p)
  \/ Save
  \/ Open

Spec == Init /\ [][Next]_vars

(***************************************************************************)
(* Properties                                                              *)
(***************************************************************************)

AllOfAll(table) == UNION {AllOf(table[t]) : t \in DOMAIN table}

\* Every field that a form's tables know, over all types.
KnownFields(f) ==
  CASE f = "route_rule" -> AllOf(ruleTypeFields) \cup AllOf(routeActionFields)
    [] f = "rule_set" -> AllOf(ruleSetFields) \cup Fields("text", Top({"tag"}))
    [] f = "dns_rule" -> dnsRuleMatchFields \cup dnsLogicalFields \cup
                         AllOf(dnsActionFields)
    [] f = "dns_server" -> AllOf(dnsServerFields) \cup Fields("text", Top({"tag"}))
    [] f = "inbound" -> AllOfAll(managedInboundFields) \cup Fields("text", Top({"tag"}))
    [] f = "outbound" -> AllOfAll(managedOutboundFields) \cup
                         BaseFields(f, [p \in {<<"type">>} |-> "ssh"])
    [] OTHER -> Tabs(f, <<>>)

KnownPaths == [f \in Forms |-> PathsOf(KnownFields(f))]

KnownKeys == [f \in Forms |-> {p[1] : p \in KnownPaths[f] \cup Discriminators}]

\* What an entry of this type, action and transport may hold.
OwnFields(f, o) ==
  CASE f = "rule_set" -> TargetOf(ruleSetFields, Named(o, <<"type">>, "inline"))
                           \cup RuleSetTabs(o)
    [] f = "dns_rule" -> TargetOf(dnsRuleCleanupFields, RuleType(o)) \cup DNSRuleTabs(o)
    [] f = "dns_server" -> TargetOf(dnsServerCleanupFields, inferDNSServerType(o))
                             \cup BaseFields(f, o)
    [] f = "inbound" -> Tabs(f, o) \cup BaseFields(f, o)
    [] f = "outbound" -> managedOutboundFields[ProxyType(o)][Transport(o)]
                           \cup BaseFields(f, o)
    [] OTHER -> Tabs(f, o)

\* network_type is a match field of a route rule and a field of the direct
\* action: a change of the action keeps it (route-form-model.test.ts:154), a
\* change of the type drops it.
Ambiguous == PathsOf(routeMatchFields) \cap PathsOf(AllOf(routeActionFields))

Clean(f, o) ==
  \A p \in DOMAIN o \ Discriminators :
    (p \in KnownPaths[f] /\ ~ (f = "route_rule" /\ p \in Ambiguous)) =>
      \E g \in OwnFields(f, o) : g.path = p

Settled(f, o) == HiddenButSet(o, Tabs(f, o)) = {}

\* The values that a field's control writes.
Written(f, fld) == UNION {Inputs(f, fld, v) : v \in {"undefined", "true"}}

\* The step chooses another type or action.
Rechosen ==
  \E p \in Top({"type", "action"}) : getPath(obj', p) # getPath(obj, p)

\* The entry is an object through all edits: leaves with values, and no leaf
\* where another has its parent (setPath).
TypeOK ==
  /\ form \in Forms
  /\ last \in {"open", "field", "saved"}
  /\ IsObject(obj)

\* An edit leaves no field set that it hides, through any chain of
\* conditions, and takes nothing else away than the field it clears
\* (pruneInvisiblePolicyFields, pruneInvisibleProxyFields).  The experimental
\* page prunes when it saves, and a transport's type has fields of its own.
EditPrunes ==
  [][last' = "field" =>
       LET shown == Visual(form, obj)
           lost == {p \in DOMAIN shown \ DOMAIN obj' :
                      \A f \in Tabs(form, obj') :
                        IsPrefix(f.path, p) => isFieldVisible(obj', f)}
       IN  /\ form # "experimental" => Settled(form, obj')
           /\ getPath(shown, transportType) = getPath(obj', transportType) =>
                Cardinality(lost) <= 1]_vars

\* The value that is entered into a field that the form shows stays: the edit
\* does not hide the field that it edits.  Endpoints are the exception
\* (EndpointEditSticks).
Sticks(forms) ==
  (last' = "field" /\ form \in forms /\ Settled(form, Visual(form, obj))) =>
    LET shown == Visual(form, obj)
    IN  \E f \in Tabs(form, shown) :
          /\ getPath(obj', f.path) # getPath(shown, f.path)
          /\ isFieldVisible(shown, f) /\ isFieldVisible(obj', f)

EditSticks == [][Sticks(Forms \ {"endpoint"})]_vars

\* "UDP session timeout, for example 5m." (en.ts:217): the endpoint form
\* offers the field for both types.
EndpointEditSticks == [][Sticks({"endpoint"})]_vars

\* An entry that holds only what its type, action and transport have stays
\* so: no type, action or transport change, in any order, leaves a field of
\* an earlier choice behind, where no tab shows it.
CleanKept == [][Clean(form, obj) => Clean(form, obj')]_vars

\* What a change of the type drops although the old and the new type both have
\* it.  By design: an outbound's secrets (outbound-editor-design.md:80), and an
\* inbound's users in the same way.  Against "common fields: tag, type, format"
\* and "a type change only cleans known fields incompatible with the target"
\* (policy-form-editor-design.md:125, 248), but as the form models' tests have
\* it: the format of a rule set that is or becomes inline
\* (route-form-model.test.ts:178) and the detour of a DNS server between the
\* legacy and a typed form (dns-form-model.test.ts:106).  Against the same line,
\* and tested nowhere: network_type, a field of the direct action, with the type
\* of its rule, which takes it for a match field.  An endpoint keeps its tag and
\* starts afresh with everything else, its dialer fields too (changeEndpointType).
DroppedAnyway(f, o, next) ==
  CASE f = "inbound" -> {<<"users">>}
    [] f = "outbound" -> credentialPaths \cup tlsCredentialPaths
    [] f = "route_rule" /\ Action(o) = "direct" /\ Type(o) # Type(next) -> Ambiguous
    [] f = "rule_set" /\ "inline" \in {Named(o, <<"type">>, "inline"), Type(next)} ->
         {<<"format">>}
    [] f = "dns_server" /\ "legacy" \in {inferDNSServerType(o), inferDNSServerType(next)} ->
         Top({"detour"})
    [] f = "endpoint" -> KnownPaths[f] \ {<<"tag">>}
    [] OTHER -> {}

\* Another type or action keeps what no table knows, in every form but the
\* endpoint's, and every value that a control wrote into a field that the old
\* and the new tables share, but for what is DroppedAnyway.
SharedKept ==
  [][Rechosen =>
       LET kept(p) == getPath(obj', p) = getPath(obj, p)
           held == {f \in Tabs(form, obj) : getPath(obj, f.path) # "undefined"}
       IN  /\ form # "endpoint" =>
                \A p \in DOMAIN obj : p[1] \notin KnownKeys[form] => kept(p)
           /\ \A f \in held :
                (/\ f \in Tabs(form, obj')
                 /\ getPath(obj, f.path) \in Written(form, f)
                 /\ f.path \notin DroppedAnyway(form, obj, obj')) => kept(f.path)]_vars

\* Another type of an outbound never inherits a secret: no text of any auth
\* section and no client certificate or key stays.
SecretsDropped ==
  [][(form = "outbound" /\ getPath(obj', <<"type">>) # getPath(obj, <<"type">>)) =>
       /\ \A f \in AllOf(authFields) :
            f.kind \in {"text", "textarea"} => getPath(obj', f.path) = "undefined"
       /\ \A p \in Sub(TLS, {"client_certificate", "client_key"}) :
            getPath(obj', p) = "undefined"]_vars

\* What Save stores could be saved again: on the endpoints page, where Save
\* prunes the object after its check, pruning takes none of the required values
\* (persist); there and on the experimental page nothing hidden is stored.  The
\* other dialogs store the object as it was checked.  An endpoint needs a type
\* for that: without a known one, Save prunes what it has asked for.
SavedReady ==
  (last = "saved" /\ (form = "endpoint" => Type(obj) \in TypeOptions(form))) =>
    /\ CanSave(form, obj)
    /\ form \in {"endpoint", "experimental"} => Settled(form, obj)
=============================================================================
