----------------------------- MODULE SyncProofs -----------------------------
(***************************************************************************)
(* What one run of syncOutboundsToConfig does to a file: Sync of any       *)
(* orderly file, any nodes, any subscriptions, any groups it remembers.    *)
(***************************************************************************)
EXTENDS Catalog, ListProofs

----------------------------------------------------------------------------
(* The parts of the new file. *)

Kept(outs, ss, gs) ==
    Only(outs, {o \in ToSet(outs) : ~ShouldReplace(o, ManagedGroups(gs, ss))})

Sources(ns, ss) == ns \o FlattenSeq([i \in DOMAIN ss |-> ss[i].outbounds])

Built(outs, ns, ss) ==
    [i \in DOMAIN Sources(ns, ss) |-> BuildManaged(outs, Sources(ns, ss)[i])]

Listed(outs, ns, ss, gs) == (<<Direct>> \o Kept(outs, ss, gs)) \o Built(outs, ns, ss)

Made(outs, ss, ds) ==
    [i \in DOMAIN Grouped(ss) |-> GroupOf(outs, Grouped(ss)[i], ds)]

GroupNames(ss) == [i \in DOMAIN Grouped(ss) |-> Grouped(ss)[i].name]

Excluded(ss) == UNION {ToSet(SubscriptionTags(ss[i])) : i \in DOMAIN ss}

Members(outs, ns, ss, gs) ==
    GroupNames(ss) \o CollectProxyTags(Listed(outs, ns, ss, gs), Excluded(ss))

Selector(m) == [NewEntry EXCEPT !.type = "selector", !.tag = "proxy",
                                !.members = m]
ProxyPart(m) == IF m = <<>> THEN <<>> ELSE <<Selector(m)>>

\* What a sync reads.
Input(f, ns, ss, gs, ds) ==
    /\ Orderly(f)
    /\ ns \in Seq(Source)
    /\ ss \in Seq(Sub)
    /\ gs \subseteq Name
    /\ ds \in Test

----------------------------------------------------------------------------
(* Types of the parts. *)

LEMMA SourcesType ==
  ASSUME NEW ns \in Seq(Source), NEW ss \in Seq(Sub)
  PROVE  /\ Sources(ns, ss) \in Seq(Source)
         /\ ToSet(ns) \subseteq ToSet(Sources(ns, ss))
         /\ \A i \in 1 .. Len(ss) :
               ToSet(ss[i].outbounds) \subseteq ToSet(Sources(ns, ss))
<1> DEFINE n == Len(ss)
           feeds == [i \in DOMAIN ss |-> ss[i].outbounds]
<1>1. n \in Nat /\ DOMAIN ss = 1 .. n /\ \A i \in 1 .. n : ss[i] \in Sub
  BY LenProperties, ElementOfSeq
<1>2. feeds \in [1 .. n -> Seq(Source)]
  BY <1>1 DEF Sub
<1>3. feeds \in Seq(Seq(Source)) /\ DOMAIN feeds = 1 .. n
      /\ \A i \in 1 .. n : feeds[i] = ss[i].outbounds
  <2>1. DOMAIN feeds = 1 .. n /\ \A i \in 1 .. n : feeds[i] = ss[i].outbounds
    BY <1>1
  <2> HIDE DEF feeds, n
  <2> QED
    BY <1>1, <1>2, <2>1, SeqMade
<1> HIDE DEF feeds
<1>4. /\ FlattenSeq(feeds) \in Seq(Source)
      /\ \A i \in 1 .. n : ToSet(feeds[i]) \subseteq ToSet(FlattenSeq(feeds))
  BY <1>3, FlattenElements
<1>5. /\ ns \o FlattenSeq(feeds) \in Seq(Source)
      /\ ToSet(ns) \subseteq ToSet(ns \o FlattenSeq(feeds))
      /\ ToSet(FlattenSeq(feeds)) \subseteq ToSet(ns \o FlattenSeq(feeds))
  BY <1>4, ConcatProperties, ConcatToSet
<1> QED
  BY <1>3, <1>4, <1>5 DEF Sources, feeds

\* What is built has the type, the tag and the data of its source.
LEMMA BuildType ==
  ASSUME NEW outs \in Seq(Outbound), NEW o \in Parameters
  PROVE  LET b == BuildManaged(outs, o) IN
         /\ b \in Outbound
         /\ b.type = o.type /\ b.tag = o.tag /\ b.data = o.data
         /\ b.members = Existing(outs, o.tag).members
         /\ b.test = Existing(outs, o.tag).test
         /\ b.extra = Existing(outs, o.tag).extra
<1>1. Existing(outs, o.tag) \in Outbound
  BY ExistingType
<1>2. o.type \in STRING /\ o.tag \in STRING /\ o.data \in STRING
  BY DEF Parameters
<1> QED
  BY <1>1, <1>2 DEF BuildManaged, Outbound

LEMMA BuiltType ==
  ASSUME NEW outs \in Seq(Outbound), NEW ns \in Seq(Source), NEW ss \in Seq(Sub)
  PROVE  LET src == Sources(ns, ss)
             b == Built(outs, ns, ss)
         IN  /\ b \in Seq(Outbound) /\ Len(b) = Len(src)
             /\ ToSet(b) = {BuildManaged(outs, src[i]) : i \in 1 .. Len(src)}
             /\ \A i \in 1 .. Len(src) : b[i] = BuildManaged(outs, src[i])
             /\ \A i \in 1 .. Len(src) : src[i] \in Source
<1> DEFINE src == Sources(ns, ss)
           n == Len(src)
           b == Built(outs, ns, ss)
<1>1. n \in Nat /\ DOMAIN src = 1 .. n /\ \A i \in 1 .. n : src[i] \in Source
  BY SourcesType, LenProperties, ElementOfSeq
<1>2. \A i \in 1 .. n : BuildManaged(outs, src[i]) \in Outbound
  BY <1>1, BuildType DEF Source
<1>3. b = [i \in 1 .. n |-> BuildManaged(outs, src[i])]
  BY <1>1 DEF Built
<1>4. b \in [1 .. n -> Outbound]
  BY <1>2, <1>3
<1> HIDE DEF n, b, src
<1>5. b \in Seq(Outbound) /\ Len(b) = n /\ ToSet(b) = {b[i] : i \in 1 .. n}
  BY <1>1, <1>4, SeqMade
<1>6. \A i \in 1 .. n : b[i] = BuildManaged(outs, src[i])
  BY <1>3
<1>7. ToSet(b) = {BuildManaged(outs, src[i]) : i \in 1 .. n}
  BY <1>5, <1>6
<1> QED
  BY <1>1, <1>5, <1>6, <1>7 DEF b, n, src

\* The tags of a subscription: those of its proxies.
LEMMA SubscriptionTagsType ==
  ASSUME NEW s \in Sub
  PROVE  /\ SubscriptionTags(s) \in Seq(STRING)
         /\ \A t \in ToSet(SubscriptionTags(s)) :
               t # "" /\ \E o \in ToSet(s.outbounds) : o.tag = t
<1> DEFINE P == {o \in ToSet(s.outbounds) : o.type \in ProxyLike /\ o.tag # ""}
           only == Only(s.outbounds, P)
<1>1. s.outbounds \in Seq(Source)
  BY DEF Sub
<1>2. only \in Seq(Source) /\ ToSet(only) = ToSet(s.outbounds) \cap P
  BY <1>1, OnlyElements
<1>3. \A o \in Source : o.tag \in STRING
  BY DEF Source, Parameters
<1>4. SubscriptionTags(s) = Tags(only)
  BY DEF SubscriptionTags
<1> HIDE DEF only
<1>5. Tags(only) \in Seq(STRING) /\ ToSet(Tags(only)) = {o.tag : o \in ToSet(only)}
  BY <1>2, <1>3, TagsType
<1> QED
  BY <1>2, <1>4, <1>5

\* The subscriptions that get a group.
LEMMA GroupedType ==
  ASSUME NEW ss \in Seq(Sub)
  PROVE  /\ Grouped(ss) \in Seq(Sub)
         /\ ToSet(Grouped(ss)) \subseteq ToSet(ss)
         /\ Len(Grouped(ss)) \in Nat /\ DOMAIN Grouped(ss) = 1 .. Len(Grouped(ss))
         /\ \A i \in 1 .. Len(Grouped(ss)) : Grouped(ss)[i] \in ToSet(ss)
<1>1. Grouped(ss) \in Seq(Sub) /\ ToSet(Grouped(ss)) \subseteq ToSet(ss)
  BY OnlyElements DEF Grouped
<1> HIDE DEF Grouped
<1> QED
  BY <1>1, LenProperties, ToSetType

\* A group has the name, the type and the members its subscription gives it.
LEMMA GroupType ==
  ASSUME NEW outs \in Seq(Outbound), NEW s \in Sub, NEW ds \in Test
  PROVE  LET g == GroupOf(outs, s, ds) IN
         /\ g \in Outbound
         /\ g.type \in GroupTypes /\ g.tag = s.name
         /\ LET r == ResolveURLTest(ds, s.test) IN
            /\ g.type = IF r.enabled = "on" THEN "urltest" ELSE "selector"
            /\ g.test = IF r.enabled = "on" THEN r.params ELSE "none"
         /\ g.members = SubscriptionTags(s)
         /\ g.data = Existing(outs, s.name).data
         /\ g.extra = Existing(outs, s.name).extra
<1> DEFINE r == ResolveURLTest(ds, s.test)
<1>1. s.name \in STRING /\ s.test \in Test
  BY CatalogAssumption DEF Sub
<1>2. r.params \in STRING
  BY <1>1 DEF ResolveURLTest, Test
<1>3. SubscriptionTags(s) \in Seq(STRING)
  BY SubscriptionTagsType
<1>4. Existing(outs, s.name) \in Outbound
  BY ExistingType
<1> HIDE DEF r
<1> DEFINE ty == IF r.enabled = "on" THEN "urltest" ELSE "selector"
           te == IF r.enabled = "on" THEN r.params ELSE "none"
<1>5. ty \in STRING /\ ty \in GroupTypes /\ te \in STRING
  BY <1>2, LiteralAssumption DEF GroupTypes
<1>6. GroupOf(outs, s, ds)
        = [Existing(outs, s.name) EXCEPT !.type = ty, !.tag = s.name,
             !.members = SubscriptionTags(s), !.test = te]
  BY DEF GroupOf, r
<1>7. LET q == ResolveURLTest(ds, s.test) IN
      /\ ty = IF q.enabled = "on" THEN "urltest" ELSE "selector"
      /\ te = IF q.enabled = "on" THEN q.params ELSE "none"
  BY DEF r
<1> HIDE DEF ty, te
<1> DEFINE g == GroupOf(outs, s, ds)
<1>8. /\ g \in Outbound
      /\ g.type = ty /\ g.tag = s.name /\ g.test = te
      /\ g.members = SubscriptionTags(s)
      /\ g.data = Existing(outs, s.name).data
      /\ g.extra = Existing(outs, s.name).extra
  BY <1>1, <1>3, <1>4, <1>5, <1>6 DEF Outbound
<1> HIDE DEF g
<1> QED
  BY <1>5, <1>7, <1>8 DEF g

LEMMA MadeType ==
  ASSUME NEW outs \in Seq(Outbound), NEW ss \in Seq(Sub), NEW ds \in Test
  PROVE  LET g == Grouped(ss)
             m == Made(outs, ss, ds)
         IN  /\ m \in Seq(Outbound) /\ Len(m) = Len(g)
             /\ ToSet(m) = {GroupOf(outs, g[i], ds) : i \in 1 .. Len(g)}
             /\ \A i \in 1 .. Len(g) : m[i] = GroupOf(outs, g[i], ds)
             /\ \A i \in 1 .. Len(g) : g[i] \in Sub
<1> DEFINE g == Grouped(ss)
           n == Len(g)
           m == Made(outs, ss, ds)
<1>1. n \in Nat /\ DOMAIN g = 1 .. n /\ \A i \in 1 .. n : g[i] \in Sub
  BY GroupedType, LenProperties, ElementOfSeq
<1>2. \A i \in 1 .. n : GroupOf(outs, g[i], ds) \in Outbound
  BY <1>1, GroupType
<1>3. m = [i \in 1 .. n |-> GroupOf(outs, g[i], ds)]
  BY <1>1 DEF Made
<1>4. m \in [1 .. n -> Outbound]
  BY <1>2, <1>3
<1> HIDE DEF n, m, g
<1>5. m \in Seq(Outbound) /\ Len(m) = n /\ ToSet(m) = {m[i] : i \in 1 .. n}
  BY <1>1, <1>4, SeqMade
<1>6. \A i \in 1 .. n : m[i] = GroupOf(outs, g[i], ds)
  BY <1>3
<1>7. ToSet(m) = {GroupOf(outs, g[i], ds) : i \in 1 .. n}
  BY <1>5, <1>6
<1> QED
  BY <1>1, <1>5, <1>6, <1>7 DEF m, n, g

LEMMA NamesType ==
  ASSUME NEW ss \in Seq(Sub)
  PROVE  LET g == Grouped(ss) IN
         /\ GroupNames(ss) \in Seq(Name)
         /\ ToSet(GroupNames(ss)) = {g[i].name : i \in 1 .. Len(g)}
<1> DEFINE g == Grouped(ss)
           n == Len(g)
           names == GroupNames(ss)
<1>1. n \in Nat /\ DOMAIN g = 1 .. n /\ \A i \in 1 .. n : g[i] \in Sub
  BY GroupedType, LenProperties, ElementOfSeq
<1>2. names = [i \in 1 .. n |-> g[i].name]
  BY <1>1 DEF GroupNames
<1>3. names \in [1 .. n -> Name]
  BY <1>1, <1>2 DEF Sub
<1> HIDE DEF n, g, names
<1>4. names \in Seq(Name) /\ ToSet(names) = {names[i] : i \in 1 .. n}
  BY <1>1, <1>3, SeqMade
<1>5. \A i \in 1 .. n : names[i] = g[i].name
  BY <1>2
<1> QED
  BY <1>4, <1>5 DEF names, n, g

\* What is kept, and its order.
LEMMA KeptType ==
  ASSUME NEW outs \in Seq(Outbound), NEW ss, NEW gs
  PROVE  /\ Kept(outs, ss, gs) \in Seq(Outbound)
         /\ ToSet(Kept(outs, ss, gs))
              = {o \in ToSet(outs) : ~ShouldReplace(o, ManagedGroups(gs, ss))}
<1> DEFINE K == {o \in ToSet(outs) : ~ShouldReplace(o, ManagedGroups(gs, ss))}
<1>1. /\ Kept(outs, ss, gs) \in Seq(Outbound)
      /\ ToSet(Kept(outs, ss, gs)) = ToSet(outs) \cap K
  BY OnlyElements DEF Kept
<1> QED
  BY <1>1

LEMMA ListedType ==
  ASSUME NEW outs \in Seq(Outbound), NEW ns \in Seq(Source), NEW ss \in Seq(Sub),
         NEW gs
  PROVE  /\ Listed(outs, ns, ss, gs) \in Seq(Outbound)
         /\ ToSet(Listed(outs, ns, ss, gs))
              = {Direct} \cup ToSet(Kept(outs, ss, gs)) \cup ToSet(Built(outs, ns, ss))
<1>1. <<Direct>> \in Seq(Outbound) /\ ToSet(<<Direct>>) = {Direct}
  <2>1. <<Direct>> = [i \in 1 .. 1 |-> Direct]
    OBVIOUS
  <2>2. Direct \in Outbound
    BY NewEntryType
  <2> QED
    BY <2>1, <2>2 DEF ToSet
<1>2. Kept(outs, ss, gs) \in Seq(Outbound) /\ Built(outs, ns, ss) \in Seq(Outbound)
  BY KeptType, BuiltType
<1> DEFINE d == <<Direct>>
           k == Kept(outs, ss, gs)
           b == Built(outs, ns, ss)
<1>3. Listed(outs, ns, ss, gs) = (d \o k) \o b
  BY DEF Listed
<1>4. d \in Seq(Outbound) /\ ToSet(d) = {Direct}
  BY <1>1
<1> HIDE DEF d, k, b
<1>5. d \o k \in Seq(Outbound) /\ ToSet(d \o k) = {Direct} \cup ToSet(k)
  BY <1>2, <1>4, ConcatProperties, ConcatToSet DEF k
<1>6. b \in Seq(Outbound)
  BY <1>2 DEF b
<1> DEFINE dk == d \o k
<1>7. dk \o b \in Seq(Outbound) /\ ToSet(dk \o b) = ToSet(dk) \cup ToSet(b)
  <2>1. dk \in Seq(Outbound)
    BY <1>5
  <2> HIDE DEF dk
  <2> QED
    BY <1>6, <2>1, ConcatProperties, ConcatToSet
<1>8. /\ Listed(outs, ns, ss, gs) \in Seq(Outbound)
      /\ ToSet(Listed(outs, ns, ss, gs)) = {Direct} \cup ToSet(k) \cup ToSet(b)
  BY <1>3, <1>5, <1>7
<1> QED
  BY <1>8 DEF k, b

\* The proxy selector leads to no group by way of its own list.
LEMMA CollectType ==
  ASSUME NEW list \in Seq(Outbound), NEW excluded
  PROVE  /\ CollectProxyTags(list, excluded) \in Seq(STRING)
         /\ \A t \in ToSet(CollectProxyTags(list, excluded)) :
               \E o \in ToSet(list) : o.tag = t /\ o.type \notin NotInProxy
<1> DEFINE P == {o \in ToSet(list) : /\ o.tag # "" /\ o.tag \notin excluded
                                     /\ o.type \notin NotInProxy}
           only == Only(list, P)
<1>1. only \in Seq(Outbound) /\ ToSet(only) = ToSet(list) \cap P
  BY OnlyElements
<1>2. CollectProxyTags(list, excluded) = Tags(only)
  BY DEF CollectProxyTags
<1> HIDE DEF only
<1>3. Tags(only) \in Seq(STRING) /\ ToSet(Tags(only)) = {o.tag : o \in ToSet(only)}
  BY <1>1, OutboundTags
<1> QED
  BY <1>1, <1>2, <1>3

----------------------------------------------------------------------------
(* The form of the new file. *)

\* No outbound before the selector is called "proxy".
LEMMA NoProxyYet ==
  ASSUME NEW f, NEW ns, NEW ss, NEW gs, NEW ds, Input(f, ns, ss, gs, ds)
  PROVE  \A o \in ToSet(Listed(f.outbounds, ns, ss, gs))
              \cup ToSet(Made(f.outbounds, ss, ds)) : o.tag # "proxy"
<1> USE DEF Input
<1> DEFINE outs == f.outbounds
           src == Sources(ns, ss)
           g == Grouped(ss)
<1>1. outs \in Seq(Outbound) /\ \A o \in ToSet(outs) : o.tag = "proxy" => o.type = "selector"
  BY DEF Orderly
<1>2. Direct.tag = "direct"
  BY DEF Direct, NewEntry
<1>3. ASSUME NEW o \in ToSet(Kept(outs, ss, gs)) PROVE o.tag # "proxy"
  <2>1. o \in ToSet(outs) /\ ~ShouldReplace(o, ManagedGroups(gs, ss))
    BY <1>1, <1>3, KeptType
  <2> QED
    BY <1>1, <2>1 DEF ShouldReplace
<1>4. ASSUME NEW o \in ToSet(Built(outs, ns, ss)) PROVE o.tag # "proxy"
  <2>1. PICK i \in 1 .. Len(src) : o = BuildManaged(outs, src[i]) /\ src[i] \in Source
    BY <1>1, <1>4, BuiltType
  <2>2. o.tag = src[i].tag
    BY <1>1, <2>1, BuildType DEF Source
  <2> QED
    BY <2>1, <2>2 DEF Source
<1>5. ASSUME NEW o \in ToSet(Made(outs, ss, ds)) PROVE o.tag # "proxy"
  <2>1. PICK i \in 1 .. Len(g) : o = GroupOf(outs, g[i], ds) /\ g[i] \in Sub
    BY <1>1, <1>5, MadeType
  <2>2. o.tag = g[i].name
    BY <1>1, <2>1, GroupType
  <2> QED
    BY <2>1, <2>2, CatalogAssumption DEF Sub
<1>6. ToSet(Listed(outs, ns, ss, gs))
        = {Direct} \cup ToSet(Kept(outs, ss, gs)) \cup ToSet(Built(outs, ns, ss))
  BY <1>1, ListedType
<1> QED
  BY <1>2, <1>3, <1>4, <1>5, <1>6

LEMMA MembersType ==
  ASSUME NEW f, NEW ns, NEW ss, NEW gs, NEW ds, Input(f, ns, ss, gs, ds)
  PROVE  LET m == Members(f.outbounds, ns, ss, gs)
             list == Listed(f.outbounds, ns, ss, gs)
         IN  /\ m \in Seq(STRING)
             /\ ToSet(m) = ToSet(GroupNames(ss))
                   \cup ToSet(CollectProxyTags(list, Excluded(ss)))
<1> USE DEF Input
<1> DEFINE list == Listed(f.outbounds, ns, ss, gs)
           c == CollectProxyTags(list, Excluded(ss))
           names == GroupNames(ss)
<1>1. f.outbounds \in Seq(Outbound)
  BY DEF Orderly
<1>2. list \in Seq(Outbound)
  BY <1>1, ListedType
<1>3. c \in Seq(STRING)
  BY <1>2, CollectType
<1>4. names \in Seq(Name) /\ Name \subseteq STRING
  BY NamesType, CatalogAssumption
<1>5. names \in Seq(STRING)
  BY <1>4, SeqMonotonic
<1> HIDE DEF names, c
<1>6. names \o c \in Seq(STRING) /\ ToSet(names \o c) = ToSet(names) \cup ToSet(c)
  BY <1>3, <1>5, ConcatProperties, ConcatToSet
<1> QED
  BY <1>6 DEF Members, names, c

LEMMA ProxyPartType ==
  ASSUME NEW m \in Seq(STRING)
  PROVE  /\ Selector(m) \in Outbound
         /\ Selector(m).tag = "proxy" /\ Selector(m).type = "selector"
         /\ Selector(m).members = m
         /\ ProxyPart(m) \in Seq(Outbound)
         /\ ToSet(ProxyPart(m)) = IF m = <<>> THEN {} ELSE {Selector(m)}
<1>1. NewEntry \in Outbound
  BY NewEntryType
<1>2. /\ Selector(m) \in Outbound
      /\ Selector(m).tag = "proxy" /\ Selector(m).type = "selector"
      /\ Selector(m).members = m
  BY <1>1, LiteralAssumption DEF Selector, Outbound
<1>3. <<Selector(m)>> \in Seq(Outbound) /\ ToSet(<<Selector(m)>>) = {Selector(m)}
  <2>1. <<Selector(m)>> = [i \in 1 .. 1 |-> Selector(m)]
    OBVIOUS
  <2> QED
    BY <1>2, <2>1 DEF ToSet
<1>4. <<>> \in Seq(Outbound) /\ ToSet(<<>>) = {}
  BY EmptySeq DEF ToSet
<1> QED
  BY <1>2, <1>3, <1>4 DEF ProxyPart

\* The new file: the parts in their order.
NewOutbounds(f, ns, ss, gs, ds) ==
    (Listed(f.outbounds, ns, ss, gs) \o Made(f.outbounds, ss, ds))
    \o ProxyPart(Members(f.outbounds, ns, ss, gs))

LEMMA SyncForm ==
  ASSUME NEW f, NEW ns, NEW ss, NEW gs, NEW ds, Input(f, ns, ss, gs, ds)
  PROVE  Sync(f, ns, ss, gs, ds)
           = [file   |-> [outbounds |-> NewOutbounds(f, ns, ss, gs, ds),
                          final     |-> EnsureRouteFinal(f.final)],
              groups |-> ToSet(GroupNames(ss))]
<1> DEFINE outs == f.outbounds
           list == Listed(outs, ns, ss, gs)
           made == Made(outs, ss, ds)
           all == list \o made
           m == Members(outs, ns, ss, gs)
<1>1. outs \in Seq(Outbound) /\ ns \in Seq(Source) /\ ss \in Seq(Sub) /\ ds \in Test
  BY DEF Input, Orderly
<1>2. /\ Sync(f, ns, ss, gs, ds).file.outbounds = UpsertProxySelector(all, m)
      /\ Sync(f, ns, ss, gs, ds)
           = [file   |-> [outbounds |-> UpsertProxySelector(all, m),
                          final     |-> EnsureRouteFinal(f.final)],
              groups |-> ToSet(GroupNames(ss))]
  BY DEF Sync, Listed, Made, Members, Built, Kept, Sources, GroupNames, Excluded,
         PreserveExisting, AppendManaged
<1>3. list \in Seq(Outbound) /\ made \in Seq(Outbound)
  BY <1>1, ListedType, MadeType
<1>4. \A o \in ToSet(list) \cup ToSet(made) : o.tag # "proxy"
  BY NoProxyYet
<1>5. m \in Seq(STRING)
  BY MembersType
<1> HIDE DEF list, made, m
<1>6. all \in Seq(Outbound) /\ ToSet(all) = ToSet(list) \cup ToSet(made)
  BY <1>3, ConcatProperties, ConcatToSet
<1>7. ToSet(all) = {all[i] : i \in 1 .. Len(all)}
  BY <1>6, ToSetType
<1> HIDE DEF all
<1>8. \A i \in 1 .. Len(all) : all[i].tag # "proxy"
  BY <1>4, <1>6, <1>7
<1>9. SelectInSeq(all, LAMBDA o : o.type = "selector" /\ o.tag = "proxy") = 0
  BY <1>8 DEF SelectInSeq
<1>10. UpsertProxySelector(all, m) = all \o ProxyPart(m)
  <2>1. CASE m = <<>>
    <3>1. UpsertProxySelector(all, m) = all
      BY <2>1 DEF UpsertProxySelector
    <3> QED
      BY <1>6, <2>1, <3>1, ConcatEmptySeq DEF ProxyPart
  <2>2. CASE m # <<>>
    <3>1. UpsertProxySelector(all, m) = Append(all, Selector(m))
      BY <1>9, <2>2 DEF UpsertProxySelector, Selector
    <3>2. Selector(m) \in Outbound
      BY <1>5, ProxyPartType
    <3> QED
      BY <1>6, <2>2, <3>1, <3>2, AppendIsConcat DEF ProxyPart
  <2> QED
    BY <2>1, <2>2
<1> QED
  BY <1>2, <1>10 DEF NewOutbounds, all, list, made, m

\* The outbounds of the new file.
LEMMA NewElements ==
  ASSUME NEW f, NEW ns, NEW ss, NEW gs, NEW ds, Input(f, ns, ss, gs, ds)
  PROVE  LET outs == f.outbounds
             list == Listed(outs, ns, ss, gs)
             made == Made(outs, ss, ds)
             m == Members(outs, ns, ss, gs)
             new == NewOutbounds(f, ns, ss, gs, ds)
         IN  /\ list \in Seq(Outbound) /\ made \in Seq(Outbound)
             /\ m \in Seq(STRING) /\ ProxyPart(m) \in Seq(Outbound)
             /\ list \o made \in Seq(Outbound)
             /\ new \in Seq(Outbound)
             /\ ToSet(new) = ToSet(list) \cup ToSet(made) \cup ToSet(ProxyPart(m))
<1> DEFINE outs == f.outbounds
           list == Listed(outs, ns, ss, gs)
           made == Made(outs, ss, ds)
           m == Members(outs, ns, ss, gs)
           p == ProxyPart(m)
           lm == list \o made
<1>1. list \in Seq(Outbound) /\ made \in Seq(Outbound)
  BY ListedType, MadeType DEF Input, Orderly
<1>2. m \in Seq(STRING) /\ p \in Seq(Outbound)
  BY MembersType, ProxyPartType
<1> HIDE DEF list, made, m, p
<1>3. lm \in Seq(Outbound) /\ ToSet(lm) = ToSet(list) \cup ToSet(made)
  BY <1>1, ConcatProperties, ConcatToSet
<1> HIDE DEF lm
<1>4. lm \o p \in Seq(Outbound) /\ ToSet(lm \o p) = ToSet(lm) \cup ToSet(p)
  BY <1>2, <1>3, ConcatProperties, ConcatToSet
<1>5. NewOutbounds(f, ns, ss, gs, ds) = lm \o p
  BY DEF NewOutbounds, list, made, m, p, lm
<1>6. lm = list \o made
  BY DEF lm
<1> QED
  BY <1>1, <1>2, <1>3, <1>4, <1>5, <1>6 DEF list, made, m, p

\* Every outbound of the new file: direct, kept, built, a group or the proxy
\* selector.
LEMMA NewOnes ==
  ASSUME NEW f, NEW ns, NEW ss, NEW gs, NEW ds, Input(f, ns, ss, gs, ds),
         NEW o \in ToSet(NewOutbounds(f, ns, ss, gs, ds))
  PROVE  \/ o = Direct
         \/ /\ o \in ToSet(f.outbounds)
            /\ ~ShouldReplace(o, ManagedGroups(gs, ss))
         \/ \E x \in Source : o = BuildManaged(f.outbounds, x)
         \/ \E s \in Sub : o = GroupOf(f.outbounds, s, ds)
         \/ \E m \in Seq(STRING) : o = Selector(m)
<1> DEFINE outs == f.outbounds
           m == Members(outs, ns, ss, gs)
<1>1. outs \in Seq(Outbound) /\ ns \in Seq(Source) /\ ss \in Seq(Sub) /\ ds \in Test
  BY DEF Input, Orderly
<1>2. \/ o \in {Direct} \cup ToSet(Kept(outs, ss, gs)) \cup ToSet(Built(outs, ns, ss))
      \/ o \in ToSet(Made(outs, ss, ds))
      \/ o \in ToSet(ProxyPart(m))
  BY <1>1, NewElements, ListedType
<1>3. CASE o \in ToSet(Kept(outs, ss, gs))
  BY <1>1, <1>3, KeptType
<1>4. CASE o \in ToSet(Built(outs, ns, ss))
  BY <1>1, <1>4, BuiltType
<1>5. CASE o \in ToSet(Made(outs, ss, ds))
  BY <1>1, <1>5, MadeType
<1>6. CASE o \in ToSet(ProxyPart(m))
  BY <1>6, NewElements, ProxyPartType
<1> QED
  BY <1>2, <1>3, <1>4, <1>5, <1>6

\* A sync makes an orderly file of an orderly file: every tag is used for what
\* it is meant for.
LEMMA SyncOrderly ==
  ASSUME NEW f, NEW ns, NEW ss, NEW gs, NEW ds, Input(f, ns, ss, gs, ds)
  PROVE  /\ Orderly(Sync(f, ns, ss, gs, ds).file)
         /\ Sync(f, ns, ss, gs, ds).groups \subseteq Name
<1> DEFINE outs == f.outbounds
           new == NewOutbounds(f, ns, ss, gs, ds)
           fin == EnsureRouteFinal(f.final)
<1>1. outs \in Seq(Outbound) /\ ss \in Seq(Sub) /\ ds \in Test
  BY DEF Input, Orderly
<1>2. Sync(f, ns, ss, gs, ds)
        = [file |-> [outbounds |-> new, final |-> fin],
           groups |-> ToSet(GroupNames(ss))]
  BY SyncForm
<1>3. new \in Seq(Outbound)
  BY NewElements
<1>4. fin \in STRING
  BY LiteralAssumption DEF EnsureRouteFinal, Input, Orderly
<1>5. ToSet(GroupNames(ss)) \subseteq Name
  BY <1>1, NamesType, ToSetType
<1>6. ASSUME NEW o \in ToSet(new)
      PROVE  /\ o.tag \in Name => o.type \in GroupTypes
             /\ o.tag = "proxy" => o.type = "selector"
  <2>1. CASE o = Direct
    <3>1. o.tag = "direct"
      BY <2>1 DEF Direct, NewEntry
    <3> QED
      BY <3>1, CatalogAssumption
  <2>2. CASE o \in ToSet(outs) /\ ~ShouldReplace(o, ManagedGroups(gs, ss))
    BY <2>2 DEF Input, Orderly
  <2>3. CASE \E x \in Source : o = BuildManaged(outs, x)
    <3>1. PICK x \in Source : o = BuildManaged(outs, x)
      BY <2>3
    <3>2. o.tag = x.tag
      BY <1>1, <3>1, BuildType DEF Source
    <3> QED
      BY <3>2 DEF Source
  <2>4. CASE \E s \in Sub : o = GroupOf(outs, s, ds)
    <3>1. PICK s \in Sub : o = GroupOf(outs, s, ds)
      BY <2>4
    <3>2. o.type \in GroupTypes /\ o.tag = s.name /\ s.name \in Name
      BY <1>1, <3>1, GroupType DEF Sub
    <3> QED
      BY <3>2, CatalogAssumption
  <2>5. CASE \E m \in Seq(STRING) : o = Selector(m)
    <3>1. o.type = "selector" /\ o.tag = "proxy"
      BY <2>5, ProxyPartType
    <3> QED
      BY <3>1, CatalogAssumption
  <2> QED
    BY <2>1, <2>2, <2>3, <2>4, <2>5, NewOnes
<1> HIDE DEF new, fin
<1>7. Orderly([outbounds |-> new, final |-> fin])
  BY <1>3, <1>4, <1>6 DEF Orderly
<1> QED
  BY <1>2, <1>5, <1>7

----------------------------------------------------------------------------
(* The proxy selector. *)

\* What the selector and the groups lead to is built in the same sync.
LEMMA MembersThere ==
  ASSUME NEW f, NEW ns, NEW ss, NEW gs, NEW ds, Input(f, ns, ss, gs, ds)
  PROVE  LET outs == f.outbounds
             list == Listed(outs, ns, ss, gs)
             made == Made(outs, ss, ds)
         IN  /\ \A s \in ToSet(ss) : \A t \in ToSet(SubscriptionTags(s)) :
                   \E o \in ToSet(list) : o.tag = t
             /\ \A t \in ToSet(Members(outs, ns, ss, gs)) :
                   \/ \E o \in ToSet(made) : o.tag = t
                   \/ \E o \in ToSet(list) : o.tag = t /\ o.type \notin GroupTypes
<1> DEFINE outs == f.outbounds
           list == Listed(outs, ns, ss, gs)
           made == Made(outs, ss, ds)
           src == Sources(ns, ss)
           built == Built(outs, ns, ss)
           g == Grouped(ss)
<1>1. outs \in Seq(Outbound) /\ ns \in Seq(Source) /\ ss \in Seq(Sub) /\ ds \in Test
  BY DEF Input, Orderly
<1>2. src \in Seq(Source) /\ ToSet(src) = {src[i] : i \in 1 .. Len(src)}
  BY <1>1, SourcesType, ToSetType
<1>3. ToSet(ss) = {ss[i] : i \in 1 .. Len(ss)} /\ ToSet(ss) \subseteq Sub
  BY <1>1, ToSetType
<1>4. ASSUME NEW s \in ToSet(ss), NEW t \in ToSet(SubscriptionTags(s))
      PROVE  \E o \in ToSet(list) : o.tag = t
  <2>1. PICK x \in ToSet(s.outbounds) : x.tag = t
    BY <1>3, <1>4, SubscriptionTagsType
  <2>2. x \in ToSet(src)
    BY <1>1, <1>3, <2>1, SourcesType
  <2>3. x \in Source /\ BuildManaged(outs, x) \in ToSet(built)
    BY <1>1, <1>2, <2>2, BuiltType
  <2>4. BuildManaged(outs, x).tag = t
    BY <1>1, <2>1, <2>3, BuildType DEF Source
  <2>5. BuildManaged(outs, x) \in ToSet(list)
    BY <1>1, <2>3, ListedType
  <2> QED
    BY <2>4, <2>5
<1>5. ASSUME NEW t \in ToSet(GroupNames(ss)) PROVE \E o \in ToSet(made) : o.tag = t
  <2>1. PICK i \in 1 .. Len(g) : t = g[i].name
    BY <1>1, NamesType
  <2>2. g[i] \in Sub /\ GroupOf(outs, g[i], ds) \in ToSet(made)
    BY <1>1, MadeType
  <2>3. GroupOf(outs, g[i], ds).tag = t
    BY <1>1, <2>1, <2>2, GroupType
  <2> QED
    BY <2>2, <2>3
<1>6. list \in Seq(Outbound)
  BY NewElements
<1>7. ASSUME NEW t \in ToSet(CollectProxyTags(list, Excluded(ss)))
      PROVE  \E o \in ToSet(list) : o.tag = t /\ o.type \notin GroupTypes
  BY <1>6, CollectType DEF NotInProxy, GroupTypes
<1>8. ToSet(Members(outs, ns, ss, gs))
        = ToSet(GroupNames(ss)) \cup ToSet(CollectProxyTags(list, Excluded(ss)))
  BY MembersType
<1> QED
  BY <1>4, <1>5, <1>7, <1>8

\* A tag of the new file.
LEMMA NewThere ==
  ASSUME NEW f, NEW ns, NEW ss, NEW gs, NEW ds, Input(f, ns, ss, gs, ds)
  PROVE  LET new == Sync(f, ns, ss, gs, ds).file IN
         /\ new.outbounds = NewOutbounds(f, ns, ss, gs, ds)
         /\ There(new) = {o.tag : o \in ToSet(new.outbounds)}
<1>1. Sync(f, ns, ss, gs, ds).file.outbounds = NewOutbounds(f, ns, ss, gs, ds)
  BY SyncForm
<1>2. NewOutbounds(f, ns, ss, gs, ds) \in Seq(Outbound)
  BY NewElements
<1> QED
  BY <1>1, <1>2, OutboundTags DEF There

\* Find looks through the parts from the last to the first.
LEMMA NewFind ==
  ASSUME NEW f, NEW ns, NEW ss, NEW gs, NEW ds, Input(f, ns, ss, gs, ds), NEW t
  PROVE  LET list == Listed(f.outbounds, ns, ss, gs)
             made == Made(f.outbounds, ss, ds)
             m == Members(f.outbounds, ns, ss, gs)
         IN  Existing(NewOutbounds(f, ns, ss, gs, ds), t)
               = IF m # <<>> /\ t = "proxy" THEN Selector(m)
                 ELSE IF \E o \in ToSet(made) : o.tag = t THEN Existing(made, t)
                 ELSE Existing(list, t)
<1> DEFINE list == Listed(f.outbounds, ns, ss, gs)
           made == Made(f.outbounds, ss, ds)
           m == Members(f.outbounds, ns, ss, gs)
           p == ProxyPart(m)
           lm == list \o made
           new == NewOutbounds(f, ns, ss, gs, ds)
<1>1. /\ list \in Seq(Outbound) /\ made \in Seq(Outbound) /\ lm \in Seq(Outbound)
      /\ m \in Seq(STRING) /\ p \in Seq(Outbound)
  BY NewElements
<1>2. new = lm \o p
  BY DEF NewOutbounds
<1>3. /\ ToSet(p) = IF m = <<>> THEN {} ELSE {Selector(m)}
      /\ Selector(m).tag = "proxy"
  BY <1>1, ProxyPartType
<1>4. m # <<>> => p = <<Selector(m)>>
  BY DEF ProxyPart
<1> HIDE DEF p, new, m
<1>5. Existing(lm, t) = IF \E o \in ToSet(made) : o.tag = t THEN Existing(made, t)
                        ELSE Existing(list, t)
  <2> HIDE DEF list, made
  <2> QED
    BY <1>1, ExistingConcat
<1> HIDE DEF lm
<1>6. Existing(new, t) = IF \E o \in ToSet(p) : o.tag = t THEN Existing(p, t)
                         ELSE Existing(lm, t)
  BY <1>1, <1>2, ExistingConcat
<1>7. ASSUME m # <<>>, t = "proxy" PROVE Existing(p, t) = Selector(m)
  <2>1. p = <<Selector(m)>> /\ Len(p) = 1 /\ p[1] = Selector(m)
    BY <1>4, <1>7
  <2>2. LastWith(p, t, 1)
    BY <1>3, <1>7, <2>1 DEF LastWith
  <2> QED
    BY <1>1, <1>7, <2>1, <2>2, ExistingIsLast
<1>8. (\E o \in ToSet(p) : o.tag = t) <=> m # <<>> /\ t = "proxy"
  BY <1>3
<1> HIDE DEF list, made
<1>9. Existing(new, t) = IF m # <<>> /\ t = "proxy" THEN Selector(m)
                         ELSE IF \E o \in ToSet(made) : o.tag = t THEN Existing(made, t)
                         ELSE Existing(list, t)
  BY <1>5, <1>6, <1>7, <1>8
<1> QED
  BY <1>9 DEF list, made, m, new

\* Everything the proxy selector of the new file leads to is in the new file.
THEOREM SyncResolves ==
  ASSUME NEW f, NEW ns, NEW ss, NEW gs, NEW ds, Input(f, ns, ss, gs, ds)
  PROVE  Resolves(Sync(f, ns, ss, gs, ds).file)
<1> DEFINE outs == f.outbounds
           list == Listed(outs, ns, ss, gs)
           made == Made(outs, ss, ds)
           m == Members(outs, ns, ss, gs)
           out == NewOutbounds(f, ns, ss, gs, ds)
           new == Sync(f, ns, ss, gs, ds).file
           there == {o.tag : o \in ToSet(out)}
           members == Existing(out, "proxy").members
<1>1. outs \in Seq(Outbound) /\ ns \in Seq(Source) /\ ss \in Seq(Sub) /\ ds \in Test
  BY DEF Input, Orderly
<1>2. new.outbounds = out /\ There(new) = there
  BY NewThere
<1>3. /\ list \in Seq(Outbound) /\ made \in Seq(Outbound) /\ m \in Seq(STRING)
      /\ ToSet(list) \cup ToSet(made) \subseteq ToSet(out)
  BY NewElements
<1>4. \A o \in ToSet(list) \cup ToSet(made) : o.tag # "proxy"
  BY NoProxyYet
<1>5. ASSUME NEW t
      PROVE  Existing(out, t)
               = IF m # <<>> /\ t = "proxy" THEN Selector(m)
                 ELSE IF \E o \in ToSet(made) : o.tag = t THEN Existing(made, t)
                 ELSE Existing(list, t)
  BY NewFind
<1>6. /\ \A s \in ToSet(ss) : \A t \in ToSet(SubscriptionTags(s)) :
            \E o \in ToSet(list) : o.tag = t
      /\ \A t \in ToSet(m) :
            \/ \E o \in ToSet(made) : o.tag = t
            \/ \E o \in ToSet(list) : o.tag = t /\ o.type \notin GroupTypes
  BY MembersThere
<1>7. /\ Len(made) = Len(Grouped(ss))
      /\ \A i \in 1 .. Len(Grouped(ss)) :
            made[i] = GroupOf(outs, Grouped(ss)[i], ds) /\ Grouped(ss)[i] \in Sub
  BY <1>1, MadeType
<1>8. \A o \in ToSet(out) : o.tag \in Name => o.type \in GroupTypes
  BY <1>2, SyncOrderly DEF Orderly
<1> HIDE DEF out, new, m, made, list
<1>9. members = m
  <2>1. CASE m # <<>>
    <3>1. Existing(out, "proxy") = Selector(m)
      BY <1>5, <2>1
    <3> QED
      BY <1>3, <3>1, ProxyPartType
  <2>2. CASE m = <<>>
    <3>1. Existing(out, "proxy") = Existing(list, "proxy")
      BY <1>4, <1>5, <2>2
    <3>2. Existing(list, "proxy") = NewEntry
      BY <1>3, <1>4, ExistingIsLast
    <3>3. NewEntry.members = <<>>
      BY DEF NewEntry
    <3> QED
      BY <2>2, <3>1, <3>2, <3>3
  <2> QED
    BY <2>1, <2>2
<1>10. ToSet(m) \subseteq there
  BY <1>3, <1>6
<1>11. ASSUME NEW t \in ToSet(m) \cap Name
       PROVE  ToSet(Existing(out, t).members) \subseteq there
  <2>1. t # "proxy" /\ t # ""
    BY CatalogAssumption
  <2>2. \E o \in ToSet(made) : o.tag = t
    BY <1>3, <1>6, <1>8
  <2>3. Existing(out, t) = Existing(made, t)
    BY <1>5, <2>1, <2>2
  <2>4. PICK i \in 1 .. Len(made) : LastWith(made, t, i)
    BY <1>3, <2>1, <2>2, ExistingIsLast
  <2>5. Existing(made, t) = made[i]
    BY <1>3, <2>1, <2>4, ExistingIsLast
  <2>6. Grouped(ss)[i] \in Sub /\ Grouped(ss)[i] \in ToSet(ss)
    BY <1>1, <1>7, GroupedType
  <2>7. Existing(out, t).members = SubscriptionTags(Grouped(ss)[i])
    BY <1>1, <1>7, <2>3, <2>5, <2>6, GroupType
  <2> QED
    BY <1>3, <1>6, <2>6, <2>7
<1>12. \A t : Find(new, t) = Existing(out, t)
  BY <1>2 DEF Find
<1> HIDE DEF there, members
<1>13. ToSet(Find(new, "proxy").members) = ToSet(m) /\ There(new) = there
  BY <1>2, <1>9, <1>12 DEF members
<1>14. ToSet(Find(new, "proxy").members) \subseteq There(new)
  BY <1>10, <1>13
<1>15. \A t \in ToSet(Find(new, "proxy").members) \cap Name :
          ToSet(Find(new, t).members) \subseteq There(new)
  BY <1>11, <1>12, <1>13
<1>16. Resolves(new)
  <2> HIDE DEF Find, There
  <2> QED
    BY <1>14, <1>15 DEF Resolves
<1> QED
  BY <1>16 DEF new


----------------------------------------------------------------------------
(* What the user has added. *)

\* What a sync rebuilds, it finds again in the file it has made: the fields it
\* does not set are those of the old file.
LEMMA BuiltFound ==
  ASSUME NEW f, NEW ns, NEW ss, NEW gs, NEW ds, Input(f, ns, ss, gs, ds),
         NEW k \in 1 .. Len(Sources(ns, ss))
  PROVE  LET t == Sources(ns, ss)[k].tag
             old == Existing(f.outbounds, t)
             new == Existing(NewOutbounds(f, ns, ss, gs, ds), t)
         IN  new.members = old.members /\ new.test = old.test /\ new.extra = old.extra
<1> DEFINE outs == f.outbounds
           src == Sources(ns, ss)
           t == src[k].tag
           out == NewOutbounds(f, ns, ss, gs, ds)
           list == Listed(outs, ns, ss, gs)
           built == Built(outs, ns, ss)
           kept == Kept(outs, ss, gs)
           made == Made(outs, ss, ds)
           m == Members(outs, ns, ss, gs)
           first == <<Direct>> \o kept
<1>1. outs \in Seq(Outbound) /\ ns \in Seq(Source) /\ ss \in Seq(Sub) /\ ds \in Test
  BY DEF Input, Orderly
<1>2. /\ built \in Seq(Outbound) /\ Len(built) = Len(src)
      /\ ToSet(built) = {BuildManaged(outs, src[i]) : i \in 1 .. Len(src)}
      /\ \A i \in 1 .. Len(src) : built[i] = BuildManaged(outs, src[i])
      /\ \A i \in 1 .. Len(src) : src[i] \in Source
  BY <1>1, BuiltType
<1>3. out \in Seq(Outbound) /\ made \in Seq(Outbound)
  BY NewElements
<1>4. t \notin Name /\ t # "proxy"
  BY <1>2 DEF Source
<1>5. Existing(out, t)
        = IF m # <<>> /\ t = "proxy" THEN Selector(m)
          ELSE IF \E o \in ToSet(made) : o.tag = t THEN Existing(made, t)
          ELSE Existing(list, t)
  BY NewFind
<1>6. \A i \in 1 .. Len(src) :
         LET b == BuildManaged(outs, src[i]) IN
         /\ b.tag = src[i].tag
         /\ b.members = Existing(outs, src[i].tag).members
         /\ b.test = Existing(outs, src[i].tag).test
         /\ b.extra = Existing(outs, src[i].tag).extra
  BY <1>1, <1>2, BuildType DEF Source
<1>7. \A o \in ToSet(made) : o.tag \in Name
  <2>1. ASSUME NEW o \in ToSet(made) PROVE o.tag \in Name
    <3>1. PICK i \in 1 .. Len(Grouped(ss)) :
            o = GroupOf(outs, Grouped(ss)[i], ds) /\ Grouped(ss)[i] \in Sub
      BY <1>1, MadeType
    <3> QED
      BY <1>1, <3>1, GroupType DEF Sub
  <2> QED
    BY <2>1
<1>8. Existing(out, t) = Existing(list, t)
  BY <1>4, <1>5, <1>7
<1>9. first \in Seq(Outbound)
  <2> DEFINE d == <<Direct>>
  <2>1. kept \in Seq(Outbound)
    BY <1>1, KeptType
  <2>2. d \in Seq(Outbound)
    BY NewEntryType
  <2> HIDE DEF d, kept
  <2>3. d \o kept \in Seq(Outbound)
    BY <2>1, <2>2, ConcatProperties
  <2> QED
    BY <2>3 DEF d
<1>10. list = first \o built
  BY DEF Listed
<1> HIDE DEF first, built, list, out, src
<1>11. (\E o \in ToSet(built) : o.tag = t) => Existing(list, t) = Existing(built, t)
  BY <1>2, <1>9, <1>10, ExistingConcat
<1>12. \E o \in ToSet(built) : o.tag = t
  BY <1>2, <1>6 DEF src
<1>13. CASE t = ""
  <2>1. Existing(out, t) = NewEntry /\ Existing(outs, t) = NewEntry
    BY <1>1, <1>3, <1>13, ExistingIsLast
  <2> QED
    BY <2>1 DEF out, src
<1>14. CASE t # ""
  <2>1. PICK i \in 1 .. Len(built) : LastWith(built, t, i)
    BY <1>2, <1>12, <1>14, ExistingIsLast
  <2>2. Existing(built, t) = built[i] /\ built[i].tag = t
    <3>1. built[i].tag = t
      BY <2>1 DEF LastWith
    <3> QED
      BY <1>2, <1>14, <2>1, <3>1, ExistingIsLast
  <2>3. src[i].tag = t
    BY <1>2, <1>6, <2>2
  <2>4. /\ built[i].members = Existing(outs, t).members
        /\ built[i].test = Existing(outs, t).test
        /\ built[i].extra = Existing(outs, t).extra
    BY <1>2, <1>6, <2>3
  <2>5. Existing(out, t) = built[i]
    BY <1>8, <1>11, <1>12, <2>2
  <2> QED
    BY <2>4, <2>5 DEF out, src
<1> QED
  BY <1>13, <1>14

LEMMA GroupFound ==
  ASSUME NEW f, NEW ns, NEW ss, NEW gs, NEW ds, Input(f, ns, ss, gs, ds),
         NEW k \in 1 .. Len(Grouped(ss))
  PROVE  LET t == Grouped(ss)[k].name
             old == Existing(f.outbounds, t)
             new == Existing(NewOutbounds(f, ns, ss, gs, ds), t)
         IN  new.data = old.data /\ new.extra = old.extra
<1> DEFINE outs == f.outbounds
           g == Grouped(ss)
           t == g[k].name
           out == NewOutbounds(f, ns, ss, gs, ds)
           list == Listed(outs, ns, ss, gs)
           made == Made(outs, ss, ds)
           m == Members(outs, ns, ss, gs)
<1>1. outs \in Seq(Outbound) /\ ss \in Seq(Sub) /\ ds \in Test
  BY DEF Input, Orderly
<1>2. /\ made \in Seq(Outbound) /\ Len(made) = Len(g)
      /\ ToSet(made) = {GroupOf(outs, g[i], ds) : i \in 1 .. Len(g)}
      /\ \A i \in 1 .. Len(g) : made[i] = GroupOf(outs, g[i], ds)
      /\ \A i \in 1 .. Len(g) : g[i] \in Sub
  BY <1>1, MadeType
<1>3. \A i \in 1 .. Len(g) :
         LET b == GroupOf(outs, g[i], ds) IN
         /\ b.tag = g[i].name
         /\ b.data = Existing(outs, g[i].name).data
         /\ b.extra = Existing(outs, g[i].name).extra
  BY <1>1, <1>2, GroupType
<1>4. t # "proxy" /\ t # ""
  BY <1>2, CatalogAssumption DEF Sub
<1>5. Existing(out, t)
        = IF m # <<>> /\ t = "proxy" THEN Selector(m)
          ELSE IF \E o \in ToSet(made) : o.tag = t THEN Existing(made, t)
          ELSE Existing(list, t)
  BY NewFind
<1> HIDE DEF made, list, out, g
<1>6. \E o \in ToSet(made) : o.tag = t
  BY <1>2, <1>3 DEF g
<1>7. Existing(out, t) = Existing(made, t)
  BY <1>4, <1>5, <1>6
<1>8. PICK i \in 1 .. Len(made) : LastWith(made, t, i)
  BY <1>2, <1>4, <1>6, ExistingIsLast
<1>9. Existing(made, t) = made[i] /\ made[i].tag = t
  <2>1. made[i].tag = t
    BY <1>8 DEF LastWith
  <2> QED
    BY <1>2, <1>4, <1>8, <2>1, ExistingIsLast
<1>10. g[i].name = t /\ i \in 1 .. Len(g)
  BY <1>2, <1>3, <1>9
<1>11. made[i].data = Existing(outs, t).data /\ made[i].extra = Existing(outs, t).extra
  BY <1>2, <1>3, <1>10
<1>12. Existing(out, t) = made[i]
  BY <1>7, <1>9
<1> QED
  BY <1>11, <1>12 DEF out, g

\* The outbounds of a list that the user has written by hand.
Hand == {o \in Outbound : o.tag \in UserTags}

\* Those of a type that the sync does not replace.
Foreign == {o \in Hand : o.type \notin ReplacedTypes}

\* These stay as they are and in their order, the others go.
LEMMA SyncKeepsHand ==
  ASSUME NEW f, NEW ns, NEW ss, NEW gs, NEW ds, Input(f, ns, ss, gs, ds)
  PROVE  Only(NewOutbounds(f, ns, ss, gs, ds), Hand) = Only(f.outbounds, Foreign)
<1> DEFINE outs == f.outbounds
           list == Listed(outs, ns, ss, gs)
           built == Built(outs, ns, ss)
           kept == Kept(outs, ss, gs)
           made == Made(outs, ss, ds)
           p == ProxyPart(Members(outs, ns, ss, gs))
           d == <<Direct>>
           K == {o \in ToSet(outs) : ~ShouldReplace(o, ManagedGroups(gs, ss))}
<1>1. outs \in Seq(Outbound) /\ ns \in Seq(Source) /\ ss \in Seq(Sub) /\ ds \in Test
  BY DEF Input, Orderly
<1>2. /\ list \in Seq(Outbound) /\ made \in Seq(Outbound) /\ p \in Seq(Outbound)
      /\ kept \in Seq(Outbound) /\ built \in Seq(Outbound)
  BY <1>1, NewElements, KeptType, BuiltType
<1>3. d \in Seq(Outbound) /\ ToSet(d) = {Direct}
  <2>1. d = [i \in 1 .. 1 |-> Direct]
    OBVIOUS
  <2> QED
    BY <2>1, NewEntryType DEF ToSet
<1>4. ToSet(d) \cap Hand = {}
  BY <1>3, UserAssumption DEF Hand, Direct, NewEntry
<1>5. ToSet(built) \cap Hand = {}
  <2>1. ASSUME NEW o \in ToSet(built) PROVE o.tag \notin UserTags
    <3>1. PICK i \in 1 .. Len(Sources(ns, ss)) :
            /\ o = BuildManaged(outs, Sources(ns, ss)[i])
            /\ Sources(ns, ss)[i] \in Source
      BY <1>1, BuiltType
    <3>2. o.tag = Sources(ns, ss)[i].tag
      BY <1>1, <3>1, BuildType DEF Source
    <3> QED
      BY <3>1, <3>2 DEF Source
  <2> QED
    BY <2>1 DEF Hand
<1>6. ToSet(made) \cap Hand = {}
  <2>1. ASSUME NEW o \in ToSet(made) PROVE o.tag \notin UserTags
    <3>1. PICK i \in 1 .. Len(Grouped(ss)) :
            o = GroupOf(outs, Grouped(ss)[i], ds) /\ Grouped(ss)[i] \in Sub
      BY <1>1, MadeType
    <3>2. o.tag \in Name
      BY <1>1, <3>1, GroupType DEF Sub
    <3> QED
      BY <3>2, UserAssumption
  <2> QED
    BY <2>1 DEF Hand
<1>7. ToSet(p) \cap Hand = {}
  <2>1. \A o \in ToSet(p) : o.tag = "proxy"
    BY NewElements, ProxyPartType
  <2> QED
    BY <2>1, UserAssumption DEF Hand
<1>8. ASSUME NEW o \in ToSet(outs), o \in Hand
      PROVE  o \in K <=> o.type \notin ReplacedTypes
  <2>2. ManagedGroups(gs, ss) \subseteq Name
    <3>1. DOMAIN ss = 1 .. Len(ss) /\ \A i \in 1 .. Len(ss) : ss[i] \in Sub
      BY <1>1, LenProperties, ElementOfSeq
    <3>2. \A i \in DOMAIN ss : ss[i].name \in Name
      BY <3>1 DEF Sub
    <3> QED
      BY <3>2 DEF Input, ManagedGroups
  <2>3. o.tag \notin Name /\ o.tag # "proxy"
    BY <1>8, UserAssumption DEF Hand
  <2> QED
    BY <2>2, <2>3 DEF ShouldReplace
<1>9. Only(kept, Hand) = Only(outs, Foreign)
  <2>1. kept = Only(outs, K)
    BY DEF Kept
  <2>2. Only(Only(outs, K), Hand) = Only(outs, K \cap Hand)
    <3> HIDE DEF K, outs
    <3> QED
      BY <1>1, OnlyOnly
  <2>3. \A o \in ToSet(outs) : o \in K \cap Hand <=> o \in Foreign
    BY <1>8 DEF Foreign
  <2> HIDE DEF K, outs
  <2>4. Only(outs, K \cap Hand) = Only(outs, Foreign)
    <3> DEFINE KH == K \cap Hand
    <3>1. \A o \in ToSet(outs) : o \in KH <=> o \in Foreign
      BY <2>3
    <3> HIDE DEF KH
    <3>2. Only(outs, KH) = Only(outs, Foreign)
      BY <1>1, <3>1, OnlySame
    <3> QED
      BY <3>2 DEF KH
  <2> QED
    BY <2>1, <2>2, <2>4
<1>10. NewOutbounds(f, ns, ss, gs, ds) = (((d \o kept) \o built) \o made) \o p
  BY DEF NewOutbounds, Listed
<1> HIDE DEF outs, list, built, kept, made, p, d
<1>11. /\ Only(d, Hand) = <<>> /\ Only(built, Hand) = <<>>
       /\ Only(made, Hand) = <<>> /\ Only(p, Hand) = <<>>
  BY <1>2, <1>3, <1>4, <1>5, <1>6, <1>7, OnlyNone
<1>12. Only((((d \o kept) \o built) \o made) \o p, Hand) = Only(kept, Hand)
  BY <1>2, <1>3, <1>11, FiveParts
<1> QED
  BY <1>9, <1>10, <1>12 DEF outs

----------------------------------------------------------------------------
(* A second sync. *)

ManagedSource == {o \in Source : o.type \in ManagedNodeTypes}

\* A list has the type its elements have.
LEMMA Narrow ==
  ASSUME NEW E, NEW M, NEW s \in Seq(E), ToSet(s) \subseteq M
  PROVE  s \in Seq(M)
<1> DEFINE n == Len(s)
<1>1. /\ n \in Nat /\ DOMAIN s = 1 .. n /\ s \in [1 .. n -> E]
      /\ ToSet(s) = {s[i] : i \in 1 .. n}
  BY LenProperties, ToSetType
<1>2. s \in [1 .. n -> M]
  BY <1>1
<1> HIDE DEF n
<1> QED
  BY <1>1, <1>2, SeqMade

LEMMA ManagedSources ==
  ASSUME NEW ns \in Seq(ManagedSource), NEW ss \in Seq(Sub),
         \A i \in 1 .. Len(ss) : ss[i].outbounds \in Seq(ManagedSource)
  PROVE  Sources(ns, ss) \in Seq(ManagedSource)
<1> DEFINE n == Len(ss)
           feeds == [i \in DOMAIN ss |-> ss[i].outbounds]
<1>1. n \in Nat /\ DOMAIN ss = 1 .. n
  BY LenProperties
<1>2. feeds \in [1 .. n -> Seq(ManagedSource)]
  BY <1>1
<1>3. Sources(ns, ss) = ns \o FlattenSeq(feeds)
  BY DEF Sources
<1> HIDE DEF feeds, n
<1>4. feeds \in Seq(Seq(ManagedSource))
  BY <1>1, <1>2, SeqMade
<1>5. FlattenSeq(feeds) \in Seq(ManagedSource)
  BY <1>4, FlattenElements
<1> QED
  BY <1>3, <1>5, ConcatProperties

\* What the second sync keeps is what the first one kept: it takes everything
\* that the first one built for its own.
LEMMA KeptTwice ==
  ASSUME NEW f, NEW ns, NEW ss, NEW gs, NEW ds, Input(f, ns, ss, gs, ds),
         Sources(ns, ss) \in Seq(ManagedSource)
  PROVE  Kept(NewOutbounds(f, ns, ss, gs, ds), ss, ToSet(GroupNames(ss)))
           = Kept(f.outbounds, ss, gs)
<1> DEFINE outs == f.outbounds
           out == NewOutbounds(f, ns, ss, gs, ds)
           src == Sources(ns, ss)
           g == Grouped(ss)
           list == Listed(outs, ns, ss, gs)
           built == Built(outs, ns, ss)
           kept == Kept(outs, ss, gs)
           made == Made(outs, ss, ds)
           p == ProxyPart(Members(outs, ns, ss, gs))
           d == <<Direct>>
           before == ManagedGroups(gs, ss)
           after == ManagedGroups(ToSet(GroupNames(ss)), ss)
           K == {o \in ToSet(out) : ~ShouldReplace(o, after)}
<1>1. outs \in Seq(Outbound) /\ ns \in Seq(Source) /\ ss \in Seq(Sub) /\ ds \in Test
  BY DEF Input, Orderly
<1>2. /\ list \in Seq(Outbound) /\ made \in Seq(Outbound) /\ p \in Seq(Outbound)
      /\ kept \in Seq(Outbound) /\ built \in Seq(Outbound)
      /\ ToSet(kept) \subseteq ToSet(out)
  BY <1>1, NewElements, KeptType, BuiltType, ListedType
<1>3. d \in Seq(Outbound) /\ ToSet(d) = {Direct}
  <2>1. d = [i \in 1 .. 1 |-> Direct]
    OBVIOUS
  <2> QED
    BY <2>1, NewEntryType DEF ToSet
<1>4. DOMAIN ss = 1 .. Len(ss) /\ ToSet(ss) = {ss[i] : i \in 1 .. Len(ss)}
  BY <1>1, LenProperties, ToSetType
<1>5. \A i \in 1 .. Len(g) : g[i] \in ToSet(ss) /\ g[i] \in Sub
  BY <1>1, GroupedType, MadeType
<1>6. \A i \in 1 .. Len(g) : g[i].name \in after
  <2>1. ASSUME NEW i \in 1 .. Len(g) PROVE g[i].name \in after
    <3>1. PICK j \in DOMAIN ss : g[i] = ss[j]
      BY <1>4, <1>5
    <3>2. g[i].name # ""
      BY <1>5, CatalogAssumption DEF Sub
    <3> QED
      BY <3>1, <3>2 DEF ManagedGroups
  <2> QED
    BY <2>1
<1>7. after \subseteq before
  <2>1. ToSet(GroupNames(ss)) = {g[i].name : i \in 1 .. Len(g)}
    BY <1>1, NamesType
  <2>2. \A i \in 1 .. Len(g) : \E j \in DOMAIN ss : g[i].name = ss[j].name
    BY <1>4, <1>5
  <2> QED
    BY <2>1, <2>2 DEF ManagedGroups
<1>8. ToSet(d) \cap K = {}
  <2>1. Direct.type = "direct"
    BY DEF Direct, NewEntry
  <2> QED
    BY <1>3, <2>1 DEF ShouldReplace, ReplacedTypes
<1>9. ToSet(built) \cap K = {}
  <2>1. ASSUME NEW o \in ToSet(built) PROVE o.type \in ReplacedTypes
    <3>1. PICK i \in 1 .. Len(src) :
            o = BuildManaged(outs, src[i]) /\ src[i] \in Source
      BY <1>1, BuiltType
    <3>2. o.type = src[i].type
      BY <1>1, <3>1, BuildType DEF Source
    <3>3. src[i] \in ManagedSource
      BY ElementOfSeq
    <3> QED
      BY <3>2, <3>3 DEF ManagedSource, ReplacedTypes
  <2> QED
    BY <2>1 DEF ShouldReplace
<1>10. ToSet(made) \cap K = {}
  <2>1. ASSUME NEW o \in ToSet(made) PROVE o.type \in GroupTypes /\ o.tag \in after
    <3>1. PICK i \in 1 .. Len(g) : o = GroupOf(outs, g[i], ds) /\ g[i] \in Sub
      BY <1>1, MadeType
    <3>2. o.type \in GroupTypes /\ o.tag = g[i].name
      BY <1>1, <3>1, GroupType
    <3> QED
      BY <1>6, <3>2
  <2> QED
    BY <2>1 DEF ShouldReplace
<1>11. ToSet(p) \cap K = {}
  <2>1. \A o \in ToSet(p) : o.tag = "proxy" /\ o.type = "selector"
    BY NewElements, ProxyPartType
  <2> QED
    BY <2>1 DEF ShouldReplace
<1>12. ToSet(kept) \subseteq K
  <2>1. \A o \in ToSet(kept) : ~ShouldReplace(o, before)
    BY <1>1, KeptType
  <2> QED
    BY <1>2, <1>7, <2>1 DEF ShouldReplace
<1>13. out = (((d \o kept) \o built) \o made) \o p
  BY DEF NewOutbounds, Listed
<1>14. Kept(out, ss, ToSet(GroupNames(ss))) = Only(out, K)
  BY DEF Kept
<1> HIDE DEF outs, out, list, built, kept, made, p, d, K
<1>15. /\ Only(d, K) = <<>> /\ Only(built, K) = <<>>
       /\ Only(made, K) = <<>> /\ Only(p, K) = <<>>
  BY <1>2, <1>3, <1>8, <1>9, <1>10, <1>11, OnlyNone
<1>16. Only((((d \o kept) \o built) \o made) \o p, K) = Only(kept, K)
  BY <1>2, <1>3, <1>15, FiveParts
<1>17. Only(kept, K) = kept
  BY <1>2, <1>12, OnlyAll
<1> QED
  BY <1>13, <1>14, <1>16, <1>17 DEF out, kept, outs

\* Outbounds are equal that agree in every field.
SameFields(a, b) ==
    /\ a.type = b.type /\ a.tag = b.tag /\ a.data = b.data
    /\ a.members = b.members /\ a.test = b.test /\ a.extra = b.extra

LEMMA OutboundsEqual ==
  ASSUME NEW a \in Outbound, NEW b \in Outbound, SameFields(a, b)
  PROVE  a = b
<1>1. /\ a = [type |-> a.type, tag |-> a.tag, data |-> a.data,
              members |-> a.members, test |-> a.test, extra |-> a.extra]
      /\ b = [type |-> b.type, tag |-> b.tag, data |-> b.data,
              members |-> b.members, test |-> b.test, extra |-> b.extra]
  BY DEF Outbound
<1> QED
  BY <1>1 DEF SameFields

\* What the second sync builds is what the first one built.
LEMMA BuiltTwice ==
  ASSUME NEW f, NEW ns, NEW ss, NEW gs, NEW ds, Input(f, ns, ss, gs, ds)
  PROVE  Built(NewOutbounds(f, ns, ss, gs, ds), ns, ss) = Built(f.outbounds, ns, ss)
<1> DEFINE outs == f.outbounds
           out == NewOutbounds(f, ns, ss, gs, ds)
           src == Sources(ns, ss)
<1>1. outs \in Seq(Outbound) /\ out \in Seq(Outbound)
      /\ ns \in Seq(Source) /\ ss \in Seq(Sub)
  BY NewElements DEF Input, Orderly
<1>2. src \in Seq(Source)
  BY <1>1, SourcesType
<1>3. DOMAIN src = 1 .. Len(src) /\ \A i \in 1 .. Len(src) : src[i] \in Source
  BY <1>2, LenProperties, ElementOfSeq
<1>4. ASSUME NEW i \in 1 .. Len(src)
      PROVE  BuildManaged(out, src[i]) = BuildManaged(outs, src[i])
  <2> DEFINE old == Existing(outs, src[i].tag)
             new == Existing(out, src[i].tag)
  <2>1. new.members = old.members /\ new.test = old.test /\ new.extra = old.extra
    BY BuiltFound
  <2>3. src[i] \in Parameters
    BY <1>3 DEF Source
  <2> HIDE DEF old, new
  <2>4. /\ BuildManaged(out, src[i]) \in Outbound
        /\ BuildManaged(outs, src[i]) \in Outbound
        /\ SameFields(BuildManaged(out, src[i]), BuildManaged(outs, src[i]))
    BY <1>1, <2>1, <2>3, BuildType DEF SameFields, old, new
  <2> QED
    BY <2>4, OutboundsEqual
<1> QED
  BY <1>3, <1>4 DEF Built

LEMMA MadeTwice ==
  ASSUME NEW f, NEW ns, NEW ss, NEW gs, NEW ds, Input(f, ns, ss, gs, ds)
  PROVE  Made(NewOutbounds(f, ns, ss, gs, ds), ss, ds) = Made(f.outbounds, ss, ds)
<1> DEFINE outs == f.outbounds
           out == NewOutbounds(f, ns, ss, gs, ds)
           g == Grouped(ss)
<1>1. outs \in Seq(Outbound) /\ out \in Seq(Outbound) /\ ss \in Seq(Sub)
      /\ ds \in Test
  BY NewElements DEF Input, Orderly
<1>2. DOMAIN g = 1 .. Len(g)
  BY <1>1, GroupedType
<1>3. ASSUME NEW i \in 1 .. Len(g)
      PROVE  GroupOf(out, g[i], ds) = GroupOf(outs, g[i], ds)
  <2> DEFINE old == Existing(outs, g[i].name)
             new == Existing(out, g[i].name)
  <2>1. new.data = old.data /\ new.extra = old.extra
    BY GroupFound
  <2>2. g[i] \in Sub
    BY <1>1, MadeType
  <2> HIDE DEF old, new
  <2>3. /\ GroupOf(out, g[i], ds) \in Outbound
        /\ GroupOf(outs, g[i], ds) \in Outbound
        /\ SameFields(GroupOf(out, g[i], ds), GroupOf(outs, g[i], ds))
    BY <1>1, <2>1, <2>2, GroupType DEF SameFields, old, new
  <2> QED
    BY <2>3, OutboundsEqual
<1> QED
  BY <1>2, <1>3 DEF Made

\* A second sync right after the first one changes nothing.
THEOREM SyncTwice ==
  ASSUME NEW f, NEW ns, NEW ss, NEW gs, NEW ds, Input(f, ns, ss, gs, ds),
         Sources(ns, ss) \in Seq(ManagedSource)
  PROVE  LET once == Sync(f, ns, ss, gs, ds) IN
         Sync(once.file, ns, ss, once.groups, ds) = once
<1> DEFINE out == NewOutbounds(f, ns, ss, gs, ds)
           names == ToSet(GroupNames(ss))
           f2 == [outbounds |-> out, final |-> EnsureRouteFinal(f.final)]
<1>1. Sync(f, ns, ss, gs, ds) = [file |-> f2, groups |-> names]
  BY SyncForm
<1>2. Input(f2, ns, ss, names, ds)
  BY <1>1, SyncOrderly DEF Input
<1>3. /\ Kept(out, ss, names) = Kept(f.outbounds, ss, gs)
      /\ Built(out, ns, ss) = Built(f.outbounds, ns, ss)
      /\ Made(out, ss, ds) = Made(f.outbounds, ss, ds)
  BY KeptTwice, BuiltTwice, MadeTwice
<1> HIDE DEF names
<1>4. NewOutbounds(f2, ns, ss, names, ds) = NewOutbounds(f, ns, ss, gs, ds)
  BY <1>3 DEF NewOutbounds, Listed, Members
<1>5. EnsureRouteFinal(f2.final) = f2.final
  BY DEF EnsureRouteFinal
<1>6. Sync(f2, ns, ss, names, ds)
        = [file |-> [outbounds |-> NewOutbounds(f2, ns, ss, names, ds),
                     final |-> EnsureRouteFinal(f2.final)],
           groups |-> ToSet(GroupNames(ss))]
  BY <1>2, SyncForm
<1>7. Sync(f2, ns, ss, names, ds) = [file |-> f2, groups |-> names]
  BY <1>4, <1>5, <1>6 DEF names
<1> HIDE DEF f2
<1> QED
  BY <1>1, <1>7
=============================================================================
