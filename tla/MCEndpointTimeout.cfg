CONSTANTS
  Forms = {"endpoint"}
  Entries <- MCEntries
  Room <- MCRoom
  TypeBound <- MCTypeBound
SPECIFICATION Spec
PROPERTY EndpointEditSticks
