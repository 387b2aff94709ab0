----------------------------- MODULE RuleNames -----------------------------
(***************************************************************************)
(* The names (and descriptions) that the user gives to route rules.  They  *)
(* are kept beside the configuration, in the daemon's database, as a list  *)
(* of entries that remember the fingerprint of their rule: RouteRule-      *)
(* MetadataManager.  A rule is [id, name]: the id stands for its JSON, and *)
(* so for its fingerprint; name is a ghost, the name the user means it to  *)
(* have, which no code reads.                                              *)
(***************************************************************************)
EXTENDS Naturals, Sequences, FiniteSets

CONSTANTS
    NoName,       \* the empty name
    DefaultRule,  \* the id of the rule that the daemon installs
    DefaultName   \* the name that the daemon gives to it

\* The ghost names of a list of rules, and its JSON.
NamesOf(rules) == [i \in DOMAIN rules |-> rules[i].name]
IdsOf(rules) == [i \in DOMAIN rules |-> rules[i].id]

Times(s, i, x) == Cardinality({k \in 1 .. i : s[k] = x})

\* The stored entry that a rule takes by its fingerprint: rules are served
\* from the first to the last and each takes the first unused entry.
Matching(stored, ids, i) ==
    LET fps == [j \in DOMAIN stored |-> stored[j].fp]
    IN  {j \in DOMAIN stored : /\ fps[j] = ids[i]
                               /\ Times(fps, j, ids[i]) = Times(ids, i, ids[i])}

\* A rule without such an entry takes the one at its own position, unless
\* another rule has it.
List(stored, ids) ==
    LET taken == UNION {Matching(stored, ids, i) : i \in DOMAIN ids}
        At(i) == IF i \in DOMAIN stored \ taken THEN {i} ELSE {}
        From(i) == IF Matching(stored, ids, i) # {}
                     THEN Matching(stored, ids, i) ELSE At(i)
    IN  [i \in DOMAIN ids |-> IF From(i) = {} THEN NoName
                              ELSE stored[CHOOSE j \in From(i) : TRUE].name]

\* Save: one entry for each rule of the file, refused on another count (or
\* for a name that is too long; names are trimmed).
Accepts(ids, names) == Len(ids) = Len(names)
Save(ids, names) == [i \in DOMAIN ids |-> [fp |-> ids[i], name |-> names[i]]]

\* A bug to be caught: a rule without a default name is called by its text.
RuleText(id) ==
    IF id = DefaultRule THEN DefaultName ELSE id

defaultRouteRuleName(id) == IF id = DefaultRule THEN DefaultName ELSE NoName

ApplyDefaultNames(stored, ids) ==
    LET listed == List(stored, ids)
    IN  Save(ids, [i \in DOMAIN ids |->
                     IF listed[i] # NoName THEN listed[i]
                     ELSE defaultRouteRuleName(ids[i])])

\* DefaultRouteInstaller.Install: a default that is missing is appended, and
\* one without a name is given it.
Installed(rules, name) ==
    LET named == [i \in DOMAIN rules |->
                    IF rules[i].id = DefaultRule /\ rules[i].name = NoName
                      THEN [rules[i] EXCEPT !.name = name] ELSE rules[i]]
    IN  IF \E i \in DOMAIN rules : rules[i].id = DefaultRule THEN named
        ELSE Append(rules, [id |-> DefaultRule, name |-> name])
=============================================================================
