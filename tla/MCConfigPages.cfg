SPECIFICATION Spec
CONSTANTS
    Page = {"route", "dns", "proxies", "endpoints", "experimental", "raw"}
    Id = {"a"}
    Name = {"n1"}
    NoName = ""
    Global = {"g1", "g2"}
    Blank = "blank"
    DefaultRule = "dflt"
    DefaultName = "dn"
    InitSection <- MCSection
    NULL = NULL
    MaxItems = 3
    MaxRequests = 2
    MaxBusy = 0
    MaxLists = 2
    MaxOthers = 1
    MaxFaults = 1
INVARIANTS
    TypeOK
    NamesFollow
    SeparateSaves
    DialogItem
    DraftGates
