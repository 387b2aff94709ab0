----------------------------- MODULE ProxyForms -----------------------------
(***************************************************************************)
(* The forms of the inbound and outbound pages: their field tables, and    *)
(* what changing the type or the transport of an entry keeps of it.        *)
(* (inbound-form-model.ts, outbound-form-model.ts)                         *)
(***************************************************************************)
EXTENDS FormModel

MUX == <<"multiplex">>
TR == <<"transport">>
transportType == <<"transport", "type">>

tlsOn == Is(<<"tls", "enabled">>, {"true"})
echOn == tlsOn \cup Is(<<"tls", "ech", "enabled">>, {"true"})
realityOn == tlsOn \cup Is(<<"tls", "reality", "enabled">>, {"true"})
muxOn == Is(<<"multiplex", "enabled">>, {"true"})
brutalOn == muxOn \cup Is(<<"multiplex", "brutal", "enabled">>, {"true"})

brutalFields ==
  When(muxOn, Fields("boolean", {<<"multiplex", "padding">>,
                                 <<"multiplex", "brutal", "enabled">>})) \cup
  When(brutalOn, Fields("number", Sub(<<"multiplex", "brutal">>,
                                      {"up_mbps", "down_mbps"})))

\* The transport tables of the two forms name the same fields.
transportTypes5 == {"http", "ws", "quic", "grpc", "httpupgrade"}

transportByType ==
  LET text(names) == Fields("text", Sub(TR, names))
      headers == Fields("json-object", Sub(TR, {"headers"}))
  IN  [t \in transportTypes5 |->
         For(t, {"http"}, Fields("list", Sub(TR, {"host"})) \cup headers \cup
             text({"path", "method", "idle_timeout", "ping_timeout"})) \cup
         For(t, {"ws"}, text({"path", "early_data_header_name"}) \cup headers \cup
             Fields("number", Sub(TR, {"max_early_data"}))) \cup
         For(t, {"grpc"}, text({"service_name", "idle_timeout", "ping_timeout"}) \cup
             Fields("boolean", Sub(TR, {"permit_without_stream"}))) \cup
         For(t, {"httpupgrade"}, text({"host", "path"}) \cup headers)]

transportTypeFields(t) ==
  Fields("select", {transportType}) \cup TargetOf(transportByType, t)

(***************************************************************************)
(* What the controls of the proxy forms write.  Choosing "manual" for an   *)
(* address or an interface first clears a value of the list.               *)
(***************************************************************************)
SelectInputs(fld) ==
  CASE fld.path = <<"obfs", "type">> -> {"salamander", "undefined"}
    [] fld.path = <<"tls", "client_authentication">> -> {"request", "no", "undefined"}
    [] fld.path = transportType -> transportTypes5 \cup {"undefined"}
    [] OTHER -> TextInputs

ListenInputs == {"string", "undefined"}
BindInputs == {"string", "undefined"}
TagInputs == {"string", "undefined"}
InterfaceMultiInputs == {"strings", "undefined"}
NetworkSwitchInputs == {"strings", "undefined"}
UsersInputs == {"array", "undefined"}
JSONInputs == {"object", "undefined"}
defaultUpdate(kind) ==
  CASE kind = "list" -> {"strings", "undefined"}
    [] kind = "number-list" -> {"numbers", "undefined"}
    [] kind = "number" -> {"number", "undefined"}
    [] OTHER -> {"string", "undefined"}

proxyInputs(fld) ==
  CASE fld.kind = "select" -> SelectInputs(fld)
    [] fld.kind = "listen-address" -> ListenInputs
    [] fld.kind = "network-interface" -> BindInputs
    [] fld.kind = "ref-multi" -> InterfaceMultiInputs
    [] fld.kind = "ref" -> TagInputs
    [] fld.kind = "network-multi" -> NetworkSwitchInputs
    [] fld.kind = "users" -> UsersInputs
    [] fld.kind = "json-object" -> JSONInputs
    [] OTHER -> defaultUpdate(fld.kind)

(***************************************************************************)
(* Inbounds                                                                *)
(***************************************************************************)
listenFields ==
  Fields("listen-address", Top({"listen"})) \cup
  Fields("number", Top({"listen_port"})) \cup
  Fields("network-interface", Top({"bind_interface"})) \cup
  Fields("ref", Top({"detour"})) \cup
  Fields("text", Top({"routing_mark", "netns", "udp_timeout"})) \cup
  Fields("boolean", Top({"reuse_addr", "tcp_fast_open", "tcp_multi_path",
                         "disable_tcp_keep_alive", "udp_fragment"})) \cup
  When(keepAliveOn,
       Fields("text", Top({"tcp_keep_alive", "tcp_keep_alive_interval"})))

inboundTypes == {"mixed", "socks", "http", "direct", "shadowsocks", "vmess", "vless",
                 "trojan", "naive", "hysteria", "hysteria2", "tuic", "shadowtls",
                 "anytls", "redirect", "tproxy", "tun"}

users == Fields("users", Top({"users"}))
network == Fields("network-multi", Top({"network"}))

inboundProtocolMap ==
  LET T(names) == Fields("text", Top(names))
      N(names) == Fields("number", Top(names))
      B(names) == Fields("boolean", Top(names))
      resolver == Fields("ref", Top({"domain_resolver"}))
  IN  [t \in inboundTypes |->
         For(t, {"mixed", "http"}, users \cup resolver \cup B({"set_system_proxy"})) \cup
         For(t, {"socks"}, users \cup resolver) \cup
         For(t, {"direct"}, network \cup T({"override_address"}) \cup
             N({"override_port"})) \cup
         For(t, {"shadowsocks"}, network \cup users \cup T({"password"}) \cup
             Fields("select", Top({"method"})) \cup B({"managed"})) \cup
         For(t, {"vmess", "vless", "trojan"}, users) \cup
         For(t, {"naive"}, users \cup network \cup T({"quic_congestion_control"})) \cup
         For(t, {"hysteria"}, users \cup T({"up", "down", "obfs"}) \cup
             N({"up_mbps", "down_mbps", "recv_window_conn", "recv_window_client",
             "max_conn_client"}) \cup B({"disable_mtu_discovery"})) \cup
         For(t, {"hysteria2"}, users \cup N({"up_mbps", "down_mbps"}) \cup
             Fields("select", {<<"obfs", "type">>}) \cup
             When(Is(<<"obfs", "type">>, {"salamander"}),
                  Fields("text", {<<"obfs", "password">>})) \cup
             B({"ignore_client_bandwidth", "brutal_debug"}) \cup T({"masquerade"})) \cup
         For(t, {"tuic"}, users \cup B({"zero_rtt_handshake"}) \cup
             T({"congestion_control", "auth_timeout", "heartbeat"})) \cup
         For(t, {"shadowtls"}, users \cup N({"version"}) \cup T({"password"}) \cup
             Fields("text", {<<"handshake", "server">>}) \cup
             Fields("number", {<<"handshake", "server_port">>}) \cup
             B({"strict_mode"}) \cup Fields("select", Top({"wildcard_sni"}))) \cup
         For(t, {"anytls"}, users \cup T({"padding_scheme"})) \cup
         For(t, {"tproxy"}, network)]

\* A bug to be caught: the fields ask for the type that they belong to.
TypedTunFields ==
  When(Is(<<"type">>, {"tun"}), Fields("text", Top({"interface_name", "udp_timeout"})))

tunFields ==
  Fields("text", Top({"interface_name", "udp_timeout"})) \cup
  Fields("number", Top({"mtu"})) \cup
  Fields("select", Top({"stack"})) \cup
  Fields("boolean", Top({"auto_route", "auto_redirect", "strict_route",
                         "exclude_mptcp"})) \cup
  When(Is(<<"auto_route">>, {"true"}),
       Fields("number", Top({"iproute2_table_index", "iproute2_rule_index"}))) \cup
  When(Is(<<"auto_redirect">>, {"true"}),
       Fields("text", Top({"auto_redirect_input_mark", "auto_redirect_output_mark",
                           "auto_redirect_reset_mark"})) \cup
       Fields("number", Top({"auto_redirect_nfqueue",
                             "auto_redirect_iproute2_fallback_rule_index"}))) \cup
  Fields("list", Top({"address", "loopback_address", "route_address",
    "route_address_set", "route_exclude_address", "route_exclude_address_set",
    "include_uid_range", "exclude_uid_range", "include_package",
    "exclude_package"})) \cup
  Fields("ref-multi", Top({"include_interface", "exclude_interface"})) \cup
  Fields("number-list", Top({"include_uid", "exclude_uid", "include_android_user"}))

clientAuthOn ==
  tlsOn \cup Is(<<"tls", "client_authentication">>,
                {"request", "require-any", "verify-if-given", "require-and-verify"})
acmeOn == tlsOn \cup Set(<<"tls", "acme", "domain">>)

inboundTLSFields ==
  LET acme(kind, names) == When(acmeOn, Fields(kind, Sub(<<"tls", "acme">>, names)))
      reality(kind, paths) == When(realityOn, Fields(kind, paths))
  IN  Fields("boolean", Sub(TLS, {"enabled"})) \cup
      When(tlsOn,
        Fields("text", Sub(TLS, {"server_name", "certificate_path", "key_path"})) \cup
        Fields("textarea", Sub(TLS, {"certificate", "key"})) \cup
        Fields("boolean", Sub(TLS, {"insecure", "kernel_tx", "kernel_rx"})) \cup
        Fields("list", Sub(TLS, {"alpn", "cipher_suites", "curve_preferences"})) \cup
        Fields("select", Sub(TLS, {"min_version", "max_version",
                                   "client_authentication"})) \cup
        Fields("list", {<<"tls", "acme", "domain">>}) \cup
        Fields("boolean", {<<"tls", "ech", "enabled">>,
                           <<"tls", "reality", "enabled">>})) \cup
      When(clientAuthOn,
        Fields("textarea", Sub(TLS, {"client_certificate"})) \cup
        Fields("list", Sub(TLS, {"client_certificate_path",
                                 "client_certificate_public_key_sha256"}))) \cup
      acme("text", {"data_directory", "default_server_name", "email", "provider"}) \cup
      acme("boolean", {"disable_http_challenge", "disable_tls_alpn_challenge"}) \cup
      acme("number", {"alternative_http_port", "alternative_tls_port"}) \cup
      When(echOn, Fields("list", {<<"tls", "ech", "key">>}) \cup
                  Fields("text", {<<"tls", "ech", "key_path">>})) \cup
      reality("text", {<<"tls", "reality", "handshake", "server">>,
                       <<"tls", "reality", "private_key">>,
                       <<"tls", "reality", "max_time_difference">>}) \cup
      reality("number", {<<"tls", "reality", "handshake", "server_port">>}) \cup
      reality("list", {<<"tls", "reality", "short_id">>})

inboundMultiplexFields == Fields("boolean", Sub(MUX, {"enabled"})) \cup brutalFields

inboundTLSTypes == {"http", "mixed", "vmess", "vless", "trojan", "naive", "hysteria",
                    "hysteria2", "tuic", "anytls"}
transportTypes == {"vmess", "vless", "trojan"}
multiplexTypes == transportTypes \cup {"shadowsocks"}

\* The fields of one table that a field of the other does not continue.
NotShared(source, target) ==
  {f \in source : ~ \E g \in target : g.path = f.path /\ g.kind = f.kind}

changeTransportType(o, type) ==
  LET previous == Named(o, transportType, "")
      gone == NotShared(TargetOf(transportByType, previous),
                        TargetOf(transportByType, type))
  IN  setPath(Without(o, PathsOf(gone)), transportType,
              IF type = "" THEN "undefined" ELSE type)

\* A bug to be caught: the groups stay.
NoLostGroups(previous, type) == {}

\* The groups of a type that the new type has no use for.
LostGroups(previous, type) ==
  {g \in {TLS, TR, MUX} :
     LET having == CASE g = TLS -> inboundTLSTypes
                     [] g = TR -> transportTypes
                     [] OTHER -> multiplexTypes
     IN  previous \in having /\ type \notin having}

changeInboundType(o, type) ==
  LET previous == Named(o, <<"type">>, "")
      source == TargetOf(inboundProtocolMap, previous)
      gone == ({<<"users">>} \cap PathsOf(source))
              \cup PathsOf(NotShared(source, TargetOf(inboundProtocolMap, type)))
      own == CASE previous = "tun" -> PathsOf(tunFields)
               [] type = "tun" -> PathsOf(listenFields)
               [] OTHER -> {}
  IN  IF previous = type THEN o
      ELSE setPath(Without(o, gone \cup (own \ {<<"udp_timeout">>})
                              \cup LostGroups(previous, type)),
                   <<"type">>, type)

\* By type and transport; "" is an entry without one, "other" stands for those
\* that no table knows.
Unnamed == {"", "other"}
inboundNames == inboundTypes \cup Unnamed
transportNames == transportTypes5 \cup Unnamed

inboundFields(type, transport) ==
  listenFields \cup TargetOf(inboundProtocolMap, type) \cup tunFields
    \cup (IF type \in inboundTLSTypes THEN inboundTLSFields ELSE {})
    \cup (IF type \in transportTypes THEN transportTypeFields(transport) ELSE {})
    \cup (IF type \in multiplexTypes THEN inboundMultiplexFields ELSE {})

managedInboundFields ==
  [type \in inboundNames |->
     [transport \in transportNames |-> inboundFields(type, transport)]]

(***************************************************************************)
(* Outbounds                                                               *)
(***************************************************************************)
serverTypes == {"socks", "http", "shadowsocks", "vmess", "vless", "trojan", "naive",
                "hysteria", "hysteria2", "tuic", "ssh", "shadowtls", "anytls"}
dialerTypes == serverTypes \cup {"direct", "tor"}
groupTypes == {"selector", "urltest"}
outboundTypes == dialerTypes \cup groupTypes \cup {"block"}
outboundNames == outboundTypes \cup Unnamed
outboundTLSTypes == {"http", "vmess", "vless", "trojan", "naive", "hysteria",
                     "hysteria2", "tuic", "shadowtls", "anytls"}

outboundDialerFields ==
  Fields("ref", Top({"detour"})) \cup Fields("select", Top({"udp_fragment"})) \cup
  DialerFields({[f EXCEPT !.when = {}] : f \in Resolver(DR)})

udpOverTCP ==
  Fields("boolean", {<<"udp_over_tcp", "enabled">>}) \cup
  When(Is(<<"udp_over_tcp", "enabled">>, {"true"}),
       Fields("number", {<<"udp_over_tcp", "version">>}))

\* The auth section of each type, apart from the rest of its table.
authFields ==
  LET T(names) == Fields("text", Top(names))
      S(names) == Fields("select", Top(names))
  IN  [t \in outboundTypes |->
         For(t, {"socks"}, S({"version"}) \cup T({"username", "password"})) \cup
         For(t, {"http", "naive"}, T({"username", "password"})) \cup
         For(t, {"shadowsocks"}, S({"method"}) \cup T({"password"})) \cup
         For(t, {"vmess"}, T({"uuid"}) \cup S({"security"}) \cup
             Fields("number", Top({"alter_id"}))) \cup
         For(t, {"vless"}, T({"uuid"}) \cup S({"flow"})) \cup
         For(t, {"trojan", "hysteria2", "shadowtls", "anytls"}, T({"password"})) \cup
         For(t, {"hysteria"}, T({"auth", "auth_str"})) \cup
         For(t, {"tuic"}, T({"uuid", "password"})) \cup
         For(t, {"ssh"}, Fields("textarea", Top({"private_key"})) \cup
             T({"user", "password", "private_key_path", "private_key_passphrase"}))]

outboundProtocolMap ==
  LET T(names) == Fields("text", Top(names))
      S(names) == Fields("select", Top(names))
      N(names) == Fields("number", Top(names))
      B(names) == Fields("boolean", Top(names))
      L(names) == Fields("list", Top(names))
      J(names) == Fields("json-object", Top(names))
  IN  [t \in outboundTypes |-> authFields[t] \cup
         For(t, {"socks"}, network \cup udpOverTCP) \cup
         For(t, {"http"}, T({"path"}) \cup J({"headers"})) \cup
         For(t, {"shadowsocks"}, T({"plugin", "plugin_opts"}) \cup network \cup
             udpOverTCP) \cup
         For(t, {"vmess"}, B({"global_padding", "authenticated_length"}) \cup
             network \cup S({"packet_encoding"})) \cup
         For(t, {"vless"}, network \cup S({"packet_encoding"})) \cup
         For(t, {"trojan"}, network) \cup
         For(t, {"naive"}, N({"insecure_concurrency"}) \cup J({"extra_headers"}) \cup
             T({"stream_receive_window"}) \cup udpOverTCP \cup B({"quic"}) \cup
             When(Is(<<"quic">>, {"true"}),
                  T({"quic_congestion_control", "quic_session_receive_window"}))) \cup
         For(t, {"hysteria"}, L({"server_ports"}) \cup network \cup
             T({"hop_interval", "up", "down", "obfs"}) \cup
             N({"up_mbps", "down_mbps", "recv_window_conn", "recv_window"}) \cup
             B({"disable_mtu_discovery"})) \cup
         For(t, {"hysteria2"}, L({"server_ports"}) \cup T({"hop_interval"}) \cup
             N({"up_mbps", "down_mbps"}) \cup network \cup B({"brutal_debug"}) \cup
             Fields("select", {<<"obfs", "type">>}) \cup
             When(Is(<<"obfs", "type">>, {"salamander"}),
                  Fields("text", {<<"obfs", "password">>}))) \cup
         For(t, {"tuic"}, S({"congestion_control", "udp_relay_mode"}) \cup network \cup
             B({"udp_over_stream", "zero_rtt_handshake"}) \cup T({"heartbeat"})) \cup
         For(t, {"ssh"}, L({"host_key", "host_key_algorithms"}) \cup
             T({"client_version"})) \cup
         For(t, {"tor"}, T({"executable_path", "data_directory"}) \cup
             L({"extra_args"}) \cup J({"torrc"})) \cup
         For(t, {"shadowtls"}, N({"version"}) \cup T({"server_name"})) \cup
         For(t, {"anytls"}, T({"idle_session_check_interval",
             "idle_session_timeout"}) \cup N({"min_idle_session"}))]

groupMap ==
  LET common == Fields("list", Top({"outbounds"})) \cup
                Fields("boolean", Top({"interrupt_exist_connections"}))
  IN  [selector |-> common \cup Fields("text", Top({"default"})),
       urltest |-> common \cup Fields("text", Top({"url", "interval", "idle_timeout"}))
                   \cup Fields("number", Top({"tolerance"}))]

outboundTLSFields ==
  Fields("boolean", Sub(TLS, {"enabled"})) \cup
  When(tlsOn,
    Fields("boolean", Sub(TLS, {"disable_sni", "insecure", "fragment",
                                "record_fragment", "kernel_tx", "kernel_rx"})) \cup
    Fields("text", Sub(TLS, {"server_name", "certificate_path",
                             "client_certificate_path", "client_key_path"})) \cup
    Fields("list", Sub(TLS, {"alpn", "cipher_suites", "curve_preferences",
                             "certificate_public_key_sha256"})) \cup
    Fields("select", Sub(TLS, {"min_version", "max_version"})) \cup
    Fields("textarea", Sub(TLS, {"certificate", "client_certificate",
                                 "client_key"})) \cup
    Fields("boolean", {<<"tls", "ech", "enabled">>, <<"tls", "utls", "enabled">>,
                       <<"tls", "reality", "enabled">>})) \cup
  When(tlsOn \cup Is(<<"tls", "fragment">>, {"true"}),
       Fields("text", {<<"tls", "fragment_fallback_delay">>})) \cup
  When(echOn, Fields("list", {<<"tls", "ech", "config">>}) \cup
              Fields("text", Sub(<<"tls", "ech">>,
                                 {"config_path", "query_server_name"}))) \cup
  When(tlsOn \cup Is(<<"tls", "utls", "enabled">>, {"true"}),
       Fields("text", {<<"tls", "utls", "fingerprint">>})) \cup
  When(realityOn,
       Fields("text", Sub(<<"tls", "reality">>, {"public_key", "short_id"})))

outboundMultiplexFields ==
  inboundMultiplexFields \cup
  When(muxOn, Fields("select", Sub(MUX, {"protocol"})) \cup
              Fields("number", Sub(MUX, {"max_connections", "min_streams",
                                         "max_streams"})))

credentialPaths ==
  Top({"username", "password", "uuid", "flow", "security", "auth", "auth_str", "user",
       "private_key", "private_key_path", "private_key_passphrase"})
    \cup {<<"obfs", "password">>}
tlsCredentialPaths ==
  Sub(TLS, {"client_certificate", "client_certificate_path", "client_key",
            "client_key_path"})

outboundTypeFields(t) ==
  TargetOf(outboundProtocolMap, t) \cup TargetOf(groupMap, t)

knownProtocolPaths == PathsOf(AllOf(outboundProtocolMap)) \cup PathsOf(AllOf(groupMap))
knownTransportPaths == PathsOf(AllOf(transportByType))

Incompatible(o, known, target) ==
  {p \in known :
     ~ \E f \in target : f.path = p /\ matchesField(getPath(o, p), f.kind)}

changeOutboundTransportType(o, type) ==
  setPath(Without(o, Incompatible(o, knownTransportPaths,
                                  TargetOf(transportByType, type))),
          transportType, IF type = "" THEN "undefined" ELSE type)

\* The paths that a type has no use for, whatever the previous type was.
Unused(type) ==
  (IF type \in serverTypes THEN {} ELSE Top({"server", "server_port"}))
    \cup (IF type \in dialerTypes THEN {} ELSE PathsOf(outboundDialerFields))
    \cup (IF type \in outboundTLSTypes THEN {} ELSE {TLS})
    \cup (IF type \in transportTypes THEN {} ELSE {TR})
    \cup (IF type \in multiplexTypes THEN {} ELSE {MUX})

\* A bug to be caught: secrets of the previous type stay.
ChangeKeepingSecrets(o, type) ==
  IF Named(o, <<"type">>, "") = type THEN o
  ELSE setPath(Without(o, Unused(type) \cup
                 Incompatible(o, knownProtocolPaths, outboundTypeFields(type))),
               <<"type">>, type)

changeOutboundType(o, type) ==
  IF Named(o, <<"type">>, "") = type THEN o
  ELSE setPath(Without(o, Unused(type) \cup credentialPaths \cup tlsCredentialPaths \cup
                 Incompatible(o, knownProtocolPaths, outboundTypeFields(type))),
               <<"type">>, type)

outboundFields(type, transport) ==
  (IF type \in dialerTypes THEN outboundDialerFields ELSE {})
    \cup outboundTypeFields(type)
    \cup (IF type \in outboundTLSTypes THEN outboundTLSFields ELSE {})
    \cup (IF type \in transportTypes THEN transportTypeFields(transport) ELSE {})
    \cup (IF type \in multiplexTypes THEN outboundMultiplexFields ELSE {})

managedOutboundFields ==
  [type \in outboundNames |->
     [transport \in transportNames |-> outboundFields(type, transport)]]

\* The group editor replaces the members; a default that is no member goes.
setMembers(o, members, holdsDefault) ==
  LET next == setPath(o, <<"outbounds">>, members)
  IN  IF holdsDefault \/ getPath(next, <<"default">>) # "string" THEN next
      ELSE setPath(next, <<"default">>, "undefined")
=============================================================================
