--------------------------- MODULE SyncOutbounds ---------------------------
(***************************************************************************)
(* What syncOutboundsToConfig (internal/api/nodes_sync.go) makes of a      *)
(* configuration, the imported nodes, the subscriptions, the names of the  *)
(* groups the last sync made and the URL-test defaults.                    *)
(*                                                                         *)
(* An outbound of the file has a type, a tag, the data its source gave it  *)
(* (server, port, raw fields), the members of a group, the URL-test        *)
(* parameters, and what the user has added to it.  A selector's default    *)
(* member is always its first one and is not kept apart.  Three types of   *)
(* node stand for their classes: "vless" for the types in managedNodeTypes *)
(* (all proxy-like), "ssh" for the proxy-like types that are not in it,    *)
(* "wireguard" for all others.                                             *)
(***************************************************************************)
EXTENDS Integers, SequencesExt

ManagedNodeTypes == {"vless"}
ProxyLike == {"vless", "ssh"}
ReplacedTypes == ManagedNodeTypes \cup {"direct", "dns"}
GroupTypes == {"selector", "urltest"}
NotInProxy == {"direct", "block", "dns", "selector", "urltest"}

\* The empty map a new outbound starts from.
NewEntry == [type |-> "", tag |-> "", data |-> "none", members |-> <<>>,
             test |-> "none", extra |-> "none"]

Direct == [NewEntry EXCEPT !.type = "direct", !.tag = "direct"]

\* The strings the code and the user put into an outbound.
ASSUME LiteralAssumption ==
    {"", "none", "direct", "selector", "urltest", "proxy", "user"} \subseteq STRING

\* Outbounds of the file.
Outbound == [type : STRING, tag : STRING, data : STRING, members : Seq(STRING),
             test : STRING, extra : STRING]
\* Outbounds as nodes and subscriptions give them.
Parameters == [type : STRING, tag : STRING, data : STRING]

\* The elements of s that are in S, in their order: SelectSeq in a form one can
\* prove about.
Only(s, S) ==
    LET only[i \in 0 .. Len(s)] ==
            IF i = 0 THEN <<>>
            ELSE IF s[i] \in S THEN Append(only[i - 1], s[i]) ELSE only[i - 1]
    IN  only[Len(s)]

Tags(outs) == [i \in DOMAIN outs |-> outs[i].tag]

\* existingByTag: the last outbound with the tag, a copy to build on.
Existing(outs, t) ==
    LET i == SelectLastInSeq(outs, LAMBDA o : o.tag = t)
    IN  IF t = "" \/ i = 0 THEN NewEntry ELSE outs[i]

----------------------------------------------------------------------------
(* What is kept. *)

\* The groups that belong to the sync: those it made the last time and those
\* named like a subscription of today.
ManagedGroups(groups, subs) ==
    (groups \cup {subs[i].name : i \in DOMAIN subs}) \ {""}

\* Mutant: every proxy-like type is taken for a managed one.
ShouldReplaceMutant(o, managed) ==
    \/ o.type \in ProxyLike \cup {"direct", "dns"}
    \/ o.type \in GroupTypes /\ o.tag \in managed
    \/ o.type = "selector" /\ o.tag = "proxy"

\* Mutant: the proxy selector is kept, to be updated in place.
KeepProxyMutant(o, managed) ==
    \/ o.type \in ReplacedTypes
    \/ o.type \in GroupTypes /\ o.tag \in managed

\* managedNodeTypes, direct and dns by their type, groups by their name.
ShouldReplace(o, managed) ==
    \/ o.type \in ReplacedTypes
    \/ o.type \in GroupTypes /\ o.tag \in managed
    \/ o.type = "selector" /\ o.tag = "proxy"

PreserveExisting(outs, managed) ==
    <<Direct>> \o Only(outs, {o \in ToSet(outs) : ~ShouldReplace(o, managed)})

----------------------------------------------------------------------------
(* What is rebuilt. *)

\* Fields the user added to an outbound with the same tag stay.  The data are
\* the keys the source gives; one it gave before and gives no more also stays.
BuildManaged(outs, o) ==
    [Existing(outs, o.tag) EXCEPT !.type = o.type, !.tag = o.tag,
                                  !.data = o.data]

AppendManaged(list, outs, managed) ==
    list \o [i \in DOMAIN managed |-> BuildManaged(outs, managed[i])]

\* subscriptionProxyTags.
SubscriptionTags(sub) ==
    Tags(Only(sub.outbounds, {o \in ToSet(sub.outbounds) :
                                 o.type \in ProxyLike /\ o.tag # ""}))

\* Members of the proxy selector that are in no subscription's group.
CollectProxyTags(list, excluded) ==
    Tags(Only(list, {o \in ToSet(list) : /\ o.tag # "" /\ o.tag \notin excluded
                                         /\ o.type \notin NotInProxy}))

\* Whatever the subscription does not override comes from the defaults.
ResolveURLTest(defaults, test) ==
    [enabled |-> IF test.enabled = "inherit" THEN defaults.enabled
                                            ELSE test.enabled,
     params  |-> IF test.params = "inherit" THEN defaults.params
                                           ELSE test.params]

\* Mutant: the members are added to those the group had.
GroupOfMutant(outs, sub, defaults) ==
    LET resolved == ResolveURLTest(defaults, sub.test)
        on == resolved.enabled = "on"
    IN  [Existing(outs, sub.name) EXCEPT
            !.type = IF on THEN "urltest" ELSE "selector",
            !.tag = sub.name,
            !.members = @ \o SubscriptionTags(sub),
            !.test = IF on THEN resolved.params ELSE "none"]

\* The group of one subscription: a urltest when it is enabled, otherwise a
\* selector.
GroupOf(outs, sub, defaults) ==
    LET resolved == ResolveURLTest(defaults, sub.test)
        on == resolved.enabled = "on"
    IN  [Existing(outs, sub.name) EXCEPT
            !.type = IF on THEN "urltest" ELSE "selector",
            !.tag = sub.name,
            !.members = SubscriptionTags(sub),
            !.test = IF on THEN resolved.params ELSE "none"]

\* The subscriptions that get a group: those with a member.
Grouped(subs) == Only(subs, {s \in ToSet(subs) : SubscriptionTags(s) # <<>>})

UpsertProxySelector(list, members) ==
    LET i == SelectInSeq(list, LAMBDA o : o.type = "selector" /\ o.tag = "proxy")
    IN  CASE members = <<>> -> list
          [] members # <<>> /\ i # 0 ->
                ReplaceAt(list, i, [list[i] EXCEPT !.members = members])
          [] OTHER ->
                Append(list, [NewEntry EXCEPT !.type = "selector",
                                              !.tag = "proxy",
                                              !.members = members])

EnsureRouteFinal(final) == IF final = "unset" THEN "proxy" ELSE final

----------------------------------------------------------------------------

\* syncOutboundsToConfig on what it has read: the file it writes and the
\* groups it remembers.
Sync(file, nodes, subs, groups, defaults) ==
    LET outs     == file.outbounds
        kept     == PreserveExisting(outs, ManagedGroups(groups, subs))
        sources  == nodes \o FlattenSeq([i \in DOMAIN subs |-> subs[i].outbounds])
        list     == AppendManaged(kept, outs, sources)
        excluded == UNION {ToSet(SubscriptionTags(subs[i])) : i \in DOMAIN subs}
        proxies  == CollectProxyTags(list, excluded)
        grouped  == Grouped(subs)
        made     == [i \in DOMAIN grouped |-> GroupOf(outs, grouped[i], defaults)]
        names    == [i \in DOMAIN grouped |-> grouped[i].name]
    IN  [file   |-> [outbounds |-> UpsertProxySelector(list \o made,
                                                       names \o proxies),
                     final     |-> EnsureRouteFinal(file.final)],
         groups |-> ToSet(names)]
=============================================================================
