---------------------------- MODULE PolicyForms ----------------------------
(***************************************************************************)
(* The forms of the route and DNS pages: their field tables, and what      *)
(* changing the type or the action of an entry keeps of it.                *)
(* (route-form-model.ts, dns-form-model.ts, dns-form-server-fields.ts,     *)
(* dns-form-cleanup.ts)                                                    *)
(***************************************************************************)
EXTENDS FormModel

(***************************************************************************)
(* Route                                                                   *)
(***************************************************************************)
routeGlobalFields ==
  Fields("ref", Top({"final"})) \cup
  Fields("boolean", Top({"find_process", "auto_detect_interface",
                         "override_android_vpn"})) \cup
  Fields("network-interface", Top({"default_interface"})) \cup
  Fields("text", Top({"default_mark", "default_fallback_delay"})) \cup
  Fields("select", Top({"default_network_strategy"})) \cup
  Fields("list", Top({"default_network_type", "default_fallback_network_type"})) \cup
  Resolver(<<"default_domain_resolver">>)

\* The match fields that route rules and DNS rules have in common.
MatchFields ==
  Fields("ref-multi", Top({"inbound", "rule_set"})) \cup
  Fields("select", Top({"ip_version"})) \cup
  Fields("network-multi", Top({"network"})) \cup
  Fields("text", Top({"clash_mode"})) \cup
  Fields("number-list", Top({"source_port", "port", "user_id"})) \cup
  Fields("boolean", Top({"source_ip_is_private", "ip_is_private", "invert",
    "rule_set_ip_cidr_match_source", "network_is_expensive",
    "network_is_constrained"})) \cup
  Fields("list", Top({"auth_user", "protocol", "domain", "domain_suffix",
    "domain_keyword", "domain_regex", "source_ip_cidr", "ip_cidr",
    "source_port_range", "port_range", "process_name", "process_path",
    "process_path_regex", "package_name", "user", "network_type", "wifi_ssid",
    "wifi_bssid"}))

routeMatchFields == MatchFields \cup Fields("list", Top({"client"}))

routeOptionFields ==
  Fields("text", Top({"override_address", "udp_timeout"})) \cup
  Fields("number", Top({"override_port", "fallback_delay"})) \cup
  Fields("select", Top({"network_strategy"})) \cup
  Fields("boolean", Top({"udp_disable_domain_unmapping", "udp_connect",
                         "tls_fragment", "tls_record_fragment"})) \cup
  When(Is(<<"tls_fragment">>, {"true"}),
       Fields("text", Top({"tls_fragment_fallback_delay"})))

directFields == DialerFields(Resolver(DR)) \cup Fields("boolean", Top({"udp_fragment"}))

routeFields == Fields("ref", Top({"outbound"})) \cup routeOptionFields

routeActions == {"route", "route-options", "direct", "bypass", "reject",
                 "hijack-dns", "sniff", "resolve"}

rejectFields == Fields("select", Top({"method"})) \cup Fields("boolean", Top({"no_drop"}))

routeActionFields ==
  [a \in routeActions |->
     For(a, {"route", "bypass"}, routeFields) \cup
     For(a, {"route-options"}, routeOptionFields) \cup
     For(a, {"direct"}, directFields) \cup
     For(a, {"reject"}, rejectFields) \cup
     For(a, {"sniff"}, Fields("list", Top({"sniffer"})) \cup
         Fields("text", Top({"timeout"}))) \cup
     For(a, {"resolve"}, Fields("ref", Top({"server"})) \cup
         Fields("select", Top({"strategy"})) \cup
         Fields("boolean", Top({"disable_cache"})) \cup
         Fields("number", Top({"rewrite_ttl"})) \cup
         Fields("text", Top({"client_subnet"})))]

logicalRuleFields ==
  Fields("select", Top({"mode"})) \cup Fields("json-array", Top({"rules"})) \cup
  Fields("boolean", Top({"invert"}))

ruleTypeFields == [default |-> routeMatchFields, logical |-> logicalRuleFields]

ruleSetFields ==
  [inline |-> Fields("json-array", Top({"rules"})),
   local |-> Fields("text", Top({"format", "path"})),
   remote |-> Fields("text", Top({"format", "url", "update_interval"})) \cup
              Fields("ref", Top({"download_detour"}))]

compatibleFields(table, source, target) ==
  {f \in TargetOf(table, target) :
     source \in DOMAIN table =>
       \E g \in table[source] : g.path = f.path /\ g.kind = f.kind}

transitionFields(o, known, table, source, target) ==
  LET compatible == compatibleFields(table, source, target)
  IN  Without(o, {p \in known :
        ~ \E f \in compatible : f.path = p /\ matchesField(getPath(o, p), f.kind)})

knownRuleFields == PathsOf(AllOf(ruleTypeFields))
knownActionFields ==
  PathsOf(AllOf(routeActionFields)) \ (PathsOf(routeMatchFields) \cup {<<"type">>})
knownRuleSetFields == PathsOf(AllOf(ruleSetFields))

changeRouteRuleType(o, type) ==
  LET current == Named(o, <<"type">>, "default")
  IN  IF current = type THEN o
      ELSE setPath(transitionFields(o, knownRuleFields, ruleTypeFields, current, type),
                   <<"type">>, IF type = "default" THEN "undefined" ELSE type)

\* An action is absent or a name; an empty one, which the code takes for an
\* absent one here and in changeDNSAction, is left out.
changeRouteAction(o, action) ==
  LET current == Named(o, <<"action">>, "route")
  IN  IF getPath(o, <<"action">>) = action THEN o
      ELSE setPath(transitionFields(o, knownActionFields, routeActionFields,
                                    current, action),
                   <<"action">>, action)

changeRuleSetType(o, type) ==
  LET current == Named(o, <<"type">>, "inline")
  IN  IF current = type THEN o
      ELSE setPath(transitionFields(o, knownRuleSetFields, ruleSetFields, current, type),
                   <<"type">>, type)

managedRouteRuleFields(type, action) ==
  (IF type = "logical" THEN logicalRuleFields ELSE routeMatchFields)
    \cup TargetOf(routeActionFields, action)

(***************************************************************************)
(* DNS                                                                     *)
(***************************************************************************)
dnsGlobalFields ==
  Fields("ref", Top({"final"})) \cup Fields("select", Top({"strategy"})) \cup
  Fields("text", Top({"client_subnet"})) \cup
  Fields("number", Top({"cache_capacity"})) \cup
  Fields("boolean", Top({"disable_cache", "disable_expire", "independent_cache",
                         "reverse_mapping"}))

legacyFakeIPFields ==
  Fields("boolean", {<<"fakeip", "enabled">>}) \cup
  When(Is(<<"fakeip", "enabled">>, {"true"}),
       Fields("text", Sub(<<"fakeip">>, {"inet4_range", "inet6_range"})))

dnsRuleMatchFields ==
  MatchFields \cup Fields("list", Top({"query_type"})) \cup
  Fields("ref-multi", Top({"outbound"}))

dnsRouteOptionFields ==
  Fields("select", Top({"strategy"})) \cup Fields("boolean", Top({"disable_cache"})) \cup
  Fields("number", Top({"rewrite_ttl"})) \cup Fields("text", Top({"client_subnet"}))

dnsActions == {"route", "route-options", "reject", "predefined"}

dnsActionFields ==
  [a \in dnsActions |->
     For(a, {"route"}, Fields("ref", Top({"server"})) \cup dnsRouteOptionFields) \cup
     For(a, {"route-options"}, dnsRouteOptionFields) \cup
     For(a, {"reject"}, rejectFields) \cup
     For(a, {"predefined"}, Fields("text", Top({"rcode"})) \cup
         Fields("list", Top({"answer", "ns", "extra"})))]

dnsLogicalFields == Fields("select", Top({"mode"})) \cup Fields("boolean", Top({"invert"}))

dnsDialerFields ==
  Fields("ref", Top({"detour"})) \cup Fields("boolean", Top({"udp_fragment"})) \cup
  DialerFields(Resolver(DR))

remoteFields ==
  Fields("text", Top({"server"})) \cup Fields("number", Top({"server_port"})) \cup
  dnsDialerFields

dnsTLSFields ==
  Fields("boolean", Sub(TLS, {"enabled"})) \cup
  When(Is(<<"tls", "enabled">>, {"true"}),
       Fields("boolean", Sub(TLS, {"disable_sni", "insecure"})) \cup
       Fields("text", Sub(TLS, {"server_name", "certificate_path"})) \cup
       Fields("list", Sub(TLS, {"alpn", "certificate"})))

dnsLegacyFields ==
  Fields("text", Top({"address", "address_fallback_delay", "client_subnet"})) \cup
  Fields("ref", Top({"address_resolver", "detour"})) \cup
  Fields("select", Top({"address_strategy", "strategy"}))

httpFields ==
  Fields("text", Top({"path", "method"})) \cup Fields("json-object", Top({"headers"}))

dnsServerTypes == {"legacy", "local", "hosts", "udp", "tcp", "tls", "quic", "https",
                   "h3", "dhcp", "fakeip"}

dnsServerFields ==
  [t \in dnsServerTypes |->
     For(t, {"legacy"}, dnsLegacyFields) \cup
     For(t, {"local"}, dnsDialerFields \cup Fields("boolean", Top({"prefer_go"}))) \cup
     For(t, {"hosts"}, Fields("list", Top({"path"})) \cup
         Fields("json-object", Top({"predefined"}))) \cup
     For(t, {"udp", "tcp"}, remoteFields) \cup
     For(t, {"tls", "quic"}, remoteFields \cup dnsTLSFields) \cup
     For(t, {"https", "h3"}, remoteFields \cup dnsTLSFields \cup httpFields) \cup
     For(t, {"dhcp"}, dnsDialerFields \cup Fields("boolean", Top({"prefer_go"})) \cup
         Fields("network-interface", Top({"interface"}))) \cup
     For(t, {"fakeip"}, Fields("text", Top({"inet4_range", "inet6_range"})))]

(***************************************************************************)
(* The cleanup registry of the DNS forms lists, by hand and apart from the *)
(* tables, what a type may hold.                                           *)
(***************************************************************************)
Strings(paths) == Fields("string", paths)

resolverCleanup ==
  Strings(Sub(DR, {"server", "strategy", "client_subnet"})) \cup
  Fields("boolean", Sub(DR, {"disable_cache"})) \cup
  Fields("number", Sub(DR, {"rewrite_ttl"}))

dialerCleanup ==
  Strings(Top({"detour", "bind_interface", "inet4_bind_address", "inet6_bind_address",
    "protect_path", "netns", "connect_timeout", "tcp_keep_alive",
    "tcp_keep_alive_interval", "network_strategy", "fallback_delay",
    "domain_strategy"})) \cup
  Fields("routing-mark", Top({"routing_mark"})) \cup
  Fields("boolean", Top({"bind_address_no_port", "reuse_addr", "tcp_fast_open",
    "tcp_multi_path", "disable_tcp_keep_alive", "udp_fragment"})) \cup
  Fields("list", Top({"network_type", "fallback_network_type"})) \cup
  resolverCleanup

remoteCleanup ==
  Strings(Top({"server"})) \cup Fields("number", Top({"server_port"})) \cup dialerCleanup

tlsCleanup ==
  Fields("boolean", Sub(TLS, {"enabled", "disable_sni", "insecure", "fragment",
    "record_fragment", "kernel_tx", "kernel_rx"})) \cup
  Strings(Sub(TLS, {"server_name", "min_version", "max_version", "certificate_path",
    "client_certificate_path", "client_key_path", "fragment_fallback_delay"})) \cup
  Fields("list", Sub(TLS, {"alpn", "cipher_suites", "curve_preferences", "certificate",
    "certificate_public_key_sha256", "client_certificate", "client_key"})) \cup
  Fields("boolean", Sub(<<"tls", "ech">>, {"enabled", "pq_signature_schemes_enabled",
    "dynamic_record_sizing_disabled"})) \cup
  Fields("list", Sub(<<"tls", "ech">>, {"config"})) \cup
  Strings(Sub(<<"tls", "ech">>, {"config_path", "query_server_name"})) \cup
  Fields("boolean", {<<"tls", "utls", "enabled">>, <<"tls", "reality", "enabled">>}) \cup
  Strings({<<"tls", "utls", "fingerprint">>}) \cup
  Strings(Sub(<<"tls", "reality">>, {"public_key", "short_id"}))

localCleanup == dialerCleanup \cup Fields("boolean", Top({"prefer_go"}))

httpsCleanup ==
  remoteCleanup \cup tlsCleanup \cup Strings(Top({"path", "method"})) \cup
  Fields("json-object", Top({"headers"}))

dnsServerCleanupFields ==
  [t \in dnsServerTypes |->
     CASE t = "legacy" -> Strings(Top({"address", "address_resolver",
                            "address_strategy", "address_fallback_delay", "strategy",
                            "detour", "client_subnet"}))
       [] t = "local" -> localCleanup
       [] t = "hosts" -> Fields("list", Top({"path"})) \cup
                         Fields("json-object", Top({"predefined"}))
       [] t \in {"udp", "tcp"} -> remoteCleanup
       [] t \in {"tls", "quic"} -> remoteCleanup \cup tlsCleanup
       [] t \in {"https", "h3"} -> httpsCleanup
       [] t = "dhcp" -> localCleanup \cup Strings(Top({"interface"}))
       [] t = "fakeip" -> Strings(Top({"inet4_range", "inet6_range"}))]

defaultRuleCleanup ==
  Fields("list", Top({"inbound", "network", "auth_user", "protocol", "domain",
    "domain_suffix", "domain_keyword", "domain_regex", "geosite", "source_geoip",
    "geoip", "ip_cidr", "source_ip_cidr", "source_port_range", "port_range",
    "process_name", "process_path", "process_path_regex", "package_name", "user",
    "outbound", "network_type", "wifi_ssid", "wifi_bssid",
    "default_interface_address", "rule_set"})) \cup
  Fields("number", Top({"ip_version"})) \cup
  Fields("query-type", Top({"query_type"})) \cup
  Fields("number-list", Top({"source_port", "port", "user_id"})) \cup
  Strings(Top({"clash_mode"})) \cup
  Fields("json-object", Top({"interface_address", "network_interface_address"})) \cup
  Fields("boolean", Top({"ip_is_private", "ip_accept_any", "source_ip_is_private",
    "network_is_expensive", "network_is_constrained", "rule_set_ip_cidr_match_source",
    "rule_set_ip_cidr_accept_empty", "rule_set_ipcidr_match_source", "invert"}))

dnsRuleCleanupFields ==
  [default |-> defaultRuleCleanup,
   logical |-> Strings(Top({"mode"})) \cup Fields("json-array", Top({"rules"})) \cup
               Fields("boolean", Top({"invert"}))]

optionCleanup ==
  Strings(Top({"strategy", "client_subnet"})) \cup
  Fields("boolean", Top({"disable_cache"})) \cup Fields("number", Top({"rewrite_ttl"}))

dnsActionCleanupFields ==
  [a \in dnsActions |->
     CASE a = "route" -> Strings(Top({"server"})) \cup optionCleanup
       [] a = "route-options" -> optionCleanup
       [] a = "reject" -> Strings(Top({"method"})) \cup Fields("boolean", Top({"no_drop"}))
       [] a = "predefined" -> Fields("rcode", Top({"rcode"})) \cup
                              Fields("list", Top({"answer", "ns", "extra"}))]

\* A bug to be caught: a response code or a mark must be text.
TextOnlyCleanup(v, kind) ==
  IF kind \in {"rcode", "routing-mark"} THEN v \in {"string", ""}
  ELSE matchesField(v, kind)

\* No fraction is an integer, and no cleanup kind but "string" takes a
\* boolean or a number for text.  A query_type of names and numbers mixed has no
\* class of its own; the code takes it like the unmixed lists.
matchesCleanup(v, kind) ==
  CASE kind = "query-type" -> v \in {"string", "", "strings", "number", "numbers", "[]"}
    [] kind \in {"rcode", "routing-mark"} -> v \in {"string", "", "number"}
    [] kind = "number" -> v = "number"
    [] kind = "number-list" -> v \in {"number", "numbers", "[]"}
    [] kind = "string" -> v \notin {"null", "object", "array", "strings", "numbers", "[]",
                                    "number", "fraction", "true", "false"}
    [] OTHER -> matchesField(v, kind)

supportsDomainResolver(table, t) ==
  \E f \in TargetOf(table, t) : IsStrictPrefix(DR, f.path)

prepareDomainResolverRoot(o, table, target) ==
  IF \/ \A t \in DOMAIN table : ~ supportsDomainResolver(table, t)
     \/ getPath(o, DR) \in {"undefined", "object"}
     \/ getPath(o, DR) \in {"string", ""} /\ supportsDomainResolver(table, target)
  THEN o
  ELSE setPath(o, DR, "undefined")

transitionCleanupFields(o, table, source, target, share) ==
  LET compatible == IF share THEN compatibleFields(table, source, target) ELSE {}
      prepared == prepareDomainResolverRoot(o, table, target)
  IN  Without(prepared, {p \in PathsIn(prepared) :
        /\ \E t \in DOMAIN table : p \in PathsOf(table[t])
        /\ ~ \E f \in compatible :
               f.path = p /\ matchesCleanup(getPath(prepared, p), f.kind)})

\* A type that is a boolean or a list, from the JSON tab, is left out.
inferDNSServerType(o) ==
  IF getPath(o, <<"type">>) \in {"undefined", "null", "", "number", "object", "array"}
  THEN "legacy" ELSE getPath(o, <<"type">>)

changeDNSServerType(o, type) ==
  LET current == inferDNSServerType(o)
      known == {current, type} \subseteq dnsServerTypes
      separated == known /\ (current = "legacy") # (type = "legacy")
  IN  IF current = type THEN o
      ELSE setPath(transitionCleanupFields(o, dnsServerCleanupFields, current, type,
                                           ~ separated),
                   <<"type">>, IF type = "legacy" THEN "undefined" ELSE type)

changeDNSRuleType(o, type) ==
  LET current == Named(o, <<"type">>, "default")
  IN  IF current = type THEN o
      ELSE setPath(transitionCleanupFields(o, dnsRuleCleanupFields, current, type, TRUE),
                   <<"type">>, IF type = "default" THEN "undefined" ELSE type)

changeDNSAction(o, action) ==
  LET current == Named(o, <<"action">>, "route")
  IN  IF getPath(o, <<"action">>) = action THEN o
      ELSE setPath(transitionCleanupFields(o, dnsActionCleanupFields, current, action,
                                           TRUE),
                   <<"action">>, action)

applyDNSFakeIPFieldChange(next) ==
  LET enabled == <<"fakeip", "enabled">>
  IN  pruneInvisibleFields(
        IF getPath(next, enabled) = "false" THEN setPath(next, enabled, "undefined")
        ELSE next,
        legacyFakeIPFields)
=============================================================================
