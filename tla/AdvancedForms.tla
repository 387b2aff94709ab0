--------------------------- MODULE AdvancedForms ---------------------------
(***************************************************************************)
(* The forms of the endpoints and the experimental page.                   *)
(* (endpoints-form-model.ts, experimental-form-model.ts)                   *)
(***************************************************************************)
EXTENDS FormModel

isWireGuard == Is(<<"type">>, {"wireguard"})
isTailscale == Is(<<"type">>, {"tailscale"})

wireGuardFields ==
  When(isWireGuard,
    Fields("boolean", Top({"system"})) \cup
    Fields("text", Top({"name", "private_key", "udp_timeout"})) \cup
    Fields("number", Top({"mtu", "listen_port", "workers"})) \cup
    Fields("list", Top({"address"})) \cup Fields("json-array", Top({"peers"})))

tailscaleFields ==
  When(isTailscale,
    Fields("text", Top({"state_directory", "auth_key", "control_url", "hostname",
                        "exit_node", "udp_timeout"})) \cup
    Fields("boolean", Top({"ephemeral", "accept_routes", "advertise_exit_node",
                           "system_interface"})) \cup
    Fields("list", Top({"advertise_routes", "advertise_tags",
                        "relay_server_static_endpoints"})) \cup
    Fields("number", Top({"relay_server_port"})) \cup
    When(Set(<<"exit_node">>), Fields("boolean", Top({"exit_node_allow_lan_access"})))
      \cup When(Is(<<"system_interface">>, {"true"}),
                Fields("text", Top({"system_interface_name"})) \cup
                Fields("number", Top({"system_interface_mtu"}))))

endpointDialerFields ==
  Fields("ref", Top({"detour"})) \cup Fields("boolean", Top({"udp_fragment"})) \cup
  DialerFields(Resolver(DR))

endpointFields == wireGuardFields \cup tailscaleFields \cup endpointDialerFields

inferEndpointType(o) ==
  IF getPath(o, <<"type">>) = "tailscale" THEN "tailscale" ELSE "wireguard"

createEndpointDraft(type) ==
  IF type = "tailscale"
  THEN [p \in {<<"type">>, <<"tag">>} |-> IF p = <<"tag">> THEN "" ELSE type]
  ELSE [p \in Top({"type", "tag", "address", "private_key", "peers"}) |->
          CASE p = <<"type">> -> type
            [] p \in Top({"tag", "private_key"}) -> ""
            [] OTHER -> "[]"]

prepareEndpointObject(o) == pruneInvisibleFields(o, endpointFields)

changeEndpointType(o, type) ==
  LET base == createEndpointDraft(IF type = "tailscale" THEN type ELSE "wireguard")
  IN  prepareEndpointObject(
        IF getPath(o, <<"tag">>) = "string" THEN setPath(base, <<"tag">>, "string")
        ELSE base)

isEndpointReady(o) ==
  /\ getPath(o, <<"tag">>) = "string"
  /\ inferEndpointType(o) = "wireguard" =>
       /\ getPath(o, <<"address">>) \in {"string", "strings"}
       /\ getPath(o, <<"private_key">>) = "string"

CF == <<"cache_file">>
CA == <<"clash_api">>
VA == <<"v2ray_api">>

cacheOn == Is(<<"cache_file", "enabled">>, {"true"})
rdrcOn == cacheOn \cup Is(<<"cache_file", "store_rdrc">>, {"true"})
statsOn == Is(<<"v2ray_api", "stats", "enabled">>, {"true"})

experimentalCacheFields ==
  Fields("boolean", Sub(CF, {"enabled"})) \cup
  When(cacheOn, Fields("text", Sub(CF, {"path", "cache_id"})) \cup
                Fields("boolean", Sub(CF, {"store_fakeip", "store_rdrc"}))) \cup
  When(rdrcOn, Fields("text", Sub(CF, {"rdrc_timeout"})))

experimentalClashFields ==
  Fields("text", Sub(CA, {"external_controller", "external_ui",
                          "external_ui_download_url", "secret"})) \cup
  Fields("ref", Sub(CA, {"external_ui_download_detour"})) \cup
  Fields("select", Sub(CA, {"default_mode"})) \cup
  Fields("list", Sub(CA, {"access_control_allow_origin"})) \cup
  Fields("boolean", Sub(CA, {"access_control_allow_private_network"}))

experimentalV2RayFields ==
  Fields("text", Sub(VA, {"listen"})) \cup
  Fields("boolean", {<<"v2ray_api", "stats", "enabled">>}) \cup
  When(statsOn,
       Fields("ref-multi", Sub(<<"v2ray_api", "stats">>, {"inbounds", "outbounds"}))
         \cup Fields("list", {<<"v2ray_api", "stats", "users">>}))

experimentalFields ==
  experimentalCacheFields \cup experimentalClashFields \cup experimentalV2RayFields
=============================================================================
