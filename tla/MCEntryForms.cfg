CONSTANTS
  Forms = {"route_rule", "rule_set", "route_global", "dns_rule", "dns_server",
           "dns_global", "fakeip", "inbound", "outbound", "endpoint", "experimental"}
  Entries <- MCEntries
  Room <- MCRoom
  TypeBound <- MCTypeBound
SPECIFICATION Spec
INVARIANTS TypeOK SavedReady
PROPERTIES EditPrunes EditSticks CleanKept SharedKept SecretsDropped
