------------------------------ MODULE Catalog ------------------------------
(***************************************************************************)
(* The imported nodes and the subscriptions (two buckets of the bbolt      *)
(* database), and the way they get into the configuration file: every      *)
(* request that changes them is a few transactions followed by             *)
(* syncOutboundsToConfig, which reads the file and the database piece by   *)
(* piece, writes the file and then remembers the groups it made.  No lock  *)
(* covers a request, so requests interleave between the pieces.            *)
(*                                                                         *)
(* A request that is one transaction is one action.  bbolt commits or does *)
(* not, so a crash only loses what the goroutines had in their hands.      *)
(***************************************************************************)
EXTENDS SyncOutbounds

CONSTANTS
    Proc,         \* goroutines that serve a request of several steps
    Node,         \* outbounds a user can import: [type, tag, data]
    TagOrder,     \* the tags of Node in the order bbolt iterates over them
    IdOrder,      \* ids likewise: their keys are decimal strings, "10" < "2"
    Name,         \* names of subscriptions
    Url,          \* their URLs
    Feed,         \* what each URL serves: a sequence of outbounds
    Override,     \* URL-test overrides: [enabled, params]
    Defaults,     \* URL-test defaults: [enabled, params]
    UserOutbound, \* outbounds a user writes into the file by hand
    InitFile,     \* files a user starts with
    InitSub,      \* subscriptions a used daemon starts with
    MaxSubs,      \* bound: subscriptions ever created
    MaxRequests,  \* bound: requests
    MaxFaults,    \* bound: failed writes
    MaxCrashes    \* bound: deaths of the process

\* The tags of the outbounds that are written by hand.
UserTags == {u.tag : u \in UserOutbound}

\* What nodes and subscriptions are made of: sing-box refuses two outbounds
\* with one tag, so they keep clear of the user's tags, of the groups' and of
\* the proxy selector's.
Source == {o \in Parameters : o.tag \notin Name \cup UserTags \cup {"proxy"}}

\* What a subscription or the defaults say about URL tests.
Test == [enabled : STRING, params : STRING]

\* A record with the fields of model.Subscription.
IsSub(s) == DOMAIN s = {"name", "url", "test", "outbounds", "error"}

Sub == [name : Name, url : Url, test : Override, outbounds : Seq(Source),
        error : BOOLEAN]

ASSUME CatalogAssumption ==
    /\ Feed \in [Url -> Seq(Source)]
    /\ Name \subseteq STRING \ {"", "proxy", "direct"}
    /\ "" \notin Url
    /\ Override \subseteq Test /\ Defaults \subseteq Test
    /\ Node \subseteq Source
    /\ TagOrder \in Seq(STRING) /\ \A n \in Node : n.tag \in ToSet(TagOrder)
    /\ IdOrder \in Seq(Nat) /\ 1 .. MaxSubs \subseteq ToSet(IdOrder)
    /\ InitSub \subseteq Sub /\ (InitSub = {} \/ MaxSubs > 0)
    /\ {MaxSubs, MaxRequests, MaxFaults, MaxCrashes} \subseteq Nat

\* The user's outbounds have tags of their own and any type, also one that the
\* sync takes for its own.
ASSUME UserAssumption ==
    /\ UserOutbound \subseteq Outbound
    /\ UserTags \cap (Name \cup {"proxy", "direct"}) = {}

Find(f, t) == Existing(f.outbounds, t)
There(f) == ToSet(Tags(f.outbounds))

\* What the proxy selector of f leads to is in f.
Resolves(f) ==
    LET members == ToSet(Find(f, "proxy").members) IN
    /\ members \subseteq There(f)
    /\ \A t \in members \cap Name : ToSet(Find(f, t).members) \subseteq There(f)

\* The tags of f are used for what they are meant for: those of subscriptions
\* for groups, "proxy" for the selector.
Orderly(f) ==
    /\ f \in [outbounds : Seq(Outbound), final : STRING]
    /\ \A o \in ToSet(f.outbounds) :
          /\ o.tag \in Name => o.type \in GroupTypes
          /\ o.tag = "proxy" => o.type = "selector"

ASSUME FileAssumption == \A f \in InitFile : Orderly(f) /\ Resolves(f)

VARIABLES
    nodes,     \* bucket imported_nodes: tag -> outbound
    subs,      \* bucket subscriptions: id -> subscription
    seq,       \* the bucket's sequence, the last id given out
    groups,    \* setting: names of the groups the last sync made
    defaults,  \* setting: URL-test defaults
    file,      \* the configuration file: outbounds and route.final
    pc,        \* where each goroutine is
    loc,       \* what it has in its hands
    spent      \* requests, faults and crashes so far

db == <<nodes, subs, seq, groups, defaults>>
vars == <<nodes, subs, seq, groups, defaults, file, pc, loc, spent>>

\* A goroutine's local variables before it has assigned them.
Blank == [id |-> 0, url |-> "", feed |-> <<>>, todo |-> <<>>, all |-> FALSE,
          node |-> NewEntry, old |-> "", file |-> {}, groups |-> {},
          defaults |-> {}, subs |-> <<>>, out |-> {}]

\* Where a goroutine can be.
Steps == {"idle", "node_delete", "node_add", "refresh_next", "download",
          "refresh_save", "refresh_error", "sync_read", "sync_settings",
          "sync_subs", "sync_nodes", "sync_write", "sync_groups", "sync_undo"}

Spending == [requests : 0 .. MaxRequests, faults : 0 .. MaxFaults,
             crashes : 0 .. MaxCrashes]

\* Types, and what ties the stores together: ids come from the sequence, a
\* node is stored under its own tag.
TypeOK ==
    /\ seq \in 0 .. MaxSubs
    /\ DOMAIN subs \subseteq 1 .. seq
    /\ \A i \in DOMAIN subs :
          subs[i].name \in Name /\ subs[i].url \in Url /\ subs[i].test \in Override
    /\ \A t \in DOMAIN nodes : nodes[t] \in Node /\ nodes[t].tag = t
    /\ groups \subseteq Name
    /\ defaults \in Defaults
    /\ file \in [outbounds : Seq(Outbound), final : STRING]
    /\ pc \in [Proc -> Steps]
    /\ spent \in Spending

Empty == [x \in {} |-> {}]

\* A fresh installation.
Fresh ==
    /\ subs = Empty
    /\ seq = 0
    /\ groups = {}
    /\ file \in InitFile

\* A daemon that has run before: one subscription, refreshed and synced.
Used ==
    \E s \in InitSub, f \in InitFile :
        LET done == Sync(f, <<>>, <<s>>, {}, defaults) IN
            /\ subs = [i \in {1} |-> s]
            /\ seq = 1
            /\ groups = done.groups
            /\ file = done.file

Init ==
    /\ nodes = Empty
    /\ defaults \in Defaults
    /\ Fresh \/ Used
    /\ pc = [p \in Proc |-> "idle"]
    /\ loc = [p \in Proc |-> Blank]
    /\ spent = [requests |-> 0, faults |-> 0, crashes |-> 0]

----------------------------------------------------------------------------

Request ==
    /\ spent.requests < MaxRequests
    /\ spent' = [spent EXCEPT !.requests = @ + 1]

MayFail(failed) ==
    IF failed
    THEN /\ spent.faults < MaxFaults
         /\ spent' = [spent EXCEPT !.faults = @ + 1]
    ELSE UNCHANGED spent

\* Goroutine p goes to l with l2 in its hands.
Goto(p, l, l2) ==
    /\ pc' = [pc EXCEPT ![p] = l]
    /\ loc' = [loc EXCEPT ![p] = l2]

Answer(p) == Goto(p, "idle", Blank)

\* NodeManager.List and SubscriptionManager.List, in the order of the keys.
ListNodes ==
    LET there == Only(TagOrder, DOMAIN nodes)
    IN  [i \in DOMAIN there |-> nodes[there[i]]]

Ids == Only(IdOrder, DOMAIN subs)
ListSubs == [i \in DOMAIN Ids |-> subs[Ids[i]]]

Put(f, k, v) == [x \in DOMAIN f \cup {k} |-> IF x = k THEN v ELSE f[x]]
Without(f, k) == [x \in DOMAIN f \ {k} |-> f[x]]

----------------------------------------------------------------------------
(* Requests of one transaction. *)

\* SubscriptionManager.Create under the next id of the bucket's sequence.
NewSub(n, u, t) == [name |-> n, url |-> u, test |-> t, outbounds |-> <<>>,
                    error |-> FALSE]

CreateSub ==
    /\ Request
    /\ seq < MaxSubs
    /\ seq' = seq + 1
    /\ \E n \in Name, u \in Url, t \in Override :
          subs' = Put(subs, seq + 1, NewSub(n, u, t))
    /\ UNCHANGED <<nodes, groups, defaults, file, pc, loc>>

\* SubscriptionManager.Update: an empty name or URL leaves the old one, the
\* override is always replaced.
Edited(sub, n, u, t) ==
    [sub EXCEPT !.name = IF n = "" THEN @ ELSE n,
                !.url = IF u = "" THEN @ ELSE u,
                !.test = t]

UpdateSub ==
    /\ Request
    /\ \E i \in DOMAIN subs, n \in Name \cup {""}, u \in Url \cup {""},
         t \in Override :
          subs' = [subs EXCEPT ![i] = Edited(@, n, u, t)]
    /\ UNCHANGED <<nodes, seq, groups, defaults, file, pc, loc>>

DeleteSub ==
    /\ Request
    /\ \E i \in DOMAIN subs : subs' = Without(subs, i)
    /\ UNCHANGED <<nodes, seq, groups, defaults, file, pc, loc>>

DeleteNode ==
    /\ Request
    /\ \E t \in DOMAIN nodes : nodes' = Without(nodes, t)
    /\ UNCHANGED <<subs, seq, groups, defaults, file, pc, loc>>

SetDefaults ==
    /\ Request
    /\ defaults' \in Defaults
    /\ UNCHANGED <<nodes, subs, seq, groups, file, pc, loc>>

\* A configuration is saved (ControlPlane) with one more outbound in it, or
\* with a field added to any of them.
SaveConfig ==
    /\ Request
    /\ \/ \E o \in UserOutbound :
             /\ o.tag \notin ToSet(Tags(file.outbounds))
             /\ file' = [file EXCEPT !.outbounds = Append(@, o)]
       \/ \E i \in DOMAIN file.outbounds :
             file' = [file EXCEPT !.outbounds[i].extra = "user"]
    /\ UNCHANGED <<db, pc, loc>>

----------------------------------------------------------------------------
(* Imported nodes. *)

\* ImportHandler.SaveNode: add, then sync.
SaveNode(p) ==
    /\ pc[p] = "idle"
    /\ Request
    /\ \E n \in Node : nodes' = Put(nodes, n.tag, n)
    /\ Goto(p, "sync_read", Blank)
    /\ UNCHANGED <<subs, seq, groups, defaults, file>>

\* NodesHandler.Update up to its checks: the node must be there.
UpdateNode(p) ==
    /\ pc[p] = "idle"
    /\ Request
    /\ \E t \in DOMAIN nodes, n \in Node :
          Goto(p, IF n.tag # t THEN "node_delete" ELSE "node_add",
               [Blank EXCEPT !.node = n, !.old = t])
    /\ UNCHANGED <<db, file>>

NodeDelete(p) ==
    /\ pc[p] = "node_delete"
    /\ \E failed \in BOOLEAN :
          /\ MayFail(failed)
          /\ IF failed
             THEN Answer(p) /\ UNCHANGED nodes
             ELSE /\ nodes' = Without(nodes, loc[p].old)
                  /\ Goto(p, "node_add", loc[p])
    /\ UNCHANGED <<subs, seq, groups, defaults, file>>

\* Mutant: a renamed node is written under its old tag.
NodeAddMutant(p) ==
    /\ pc[p] = "node_add"
    /\ nodes' = Put(nodes, loc[p].old, loc[p].node)
    /\ Goto(p, "sync_read", Blank)
    /\ UNCHANGED <<subs, seq, groups, defaults, file, spent>>

NodeAdd(p) ==
    /\ pc[p] = "node_add"
    /\ \E failed \in BOOLEAN :
          /\ MayFail(failed)
          /\ IF failed
             THEN Answer(p) /\ UNCHANGED nodes
             ELSE /\ nodes' = Put(nodes, loc[p].node.tag, loc[p].node)
                  /\ Goto(p, "sync_read", Blank)
    /\ UNCHANGED <<subs, seq, groups, defaults, file>>

----------------------------------------------------------------------------
(* Refresh of a subscription, or of all of them. *)

\* Refresh gets the subscription and goes to its URL.
Refresh(p) ==
    /\ pc[p] = "idle"
    /\ Request
    /\ \E i \in DOMAIN subs :
          Goto(p, "download", [Blank EXCEPT !.id = i, !.url = subs[i].url])
    /\ UNCHANGED <<db, file>>

RefreshAll(p) ==
    /\ pc[p] = "idle"
    /\ Request
    /\ Goto(p, "refresh_next", [Blank EXCEPT !.all = TRUE, !.todo = Ids])
    /\ UNCHANGED <<db, file>>

\* The next one of the list; one that has gone meanwhile is an error that
\* does not stop the others.
RefreshNext(p) ==
    /\ pc[p] = "refresh_next"
    /\ LET l == loc[p] IN
       IF l.todo = <<>>
       THEN Goto(p, "sync_read", Blank)
       ELSE LET i == Head(l.todo)
                rest == [l EXCEPT !.todo = Tail(@), !.id = 0, !.url = "",
                                  !.feed = <<>>]
            IN IF i \in DOMAIN subs
               THEN Goto(p, "download",
                         [rest EXCEPT !.id = i, !.url = subs[i].url])
               ELSE Goto(p, "refresh_next", rest)
    /\ UNCHANGED <<db, file, spent>>

\* parseSubscriptionContent, on what a URL may answer: the feed, or a page
\* that is none and counts as an empty one.
Parsed(u) == {Feed[u], <<>>}

\* The answer is parsed whatever its HTTP status is.
Download(p) ==
    /\ pc[p] = "download"
    /\ \/ Goto(p, "refresh_error", loc[p])
       \/ \E f \in Parsed(loc[p].url) :
             Goto(p, "refresh_save", [loc[p] EXCEPT !.feed = f])
    /\ UNCHANGED <<db, file, spent>>

\* Where a refresh goes on after its last transaction: one that failed ends
\* the request unless it is one of many.
Refreshed(p, failed) ==
    IF loc[p].all THEN Goto(p, "refresh_next", loc[p])
    ELSE IF failed THEN Answer(p)
    ELSE Goto(p, "sync_read", Blank)

\* Mutant: the subscription is put back even if it has been deleted.
SaveAnywayMutant(p) ==
    /\ pc[p] = "refresh_save"
    /\ subs' = Put(subs, loc[p].id,
                   [name |-> CHOOSE n \in Name : TRUE, url |-> loc[p].url,
                    test |-> CHOOSE t \in Override : TRUE,
                    outbounds |-> loc[p].feed, error |-> FALSE])
    /\ Refreshed(p, FALSE)
    /\ UNCHANGED <<nodes, seq, groups, defaults, file, spent>>

\* Mutant: the subscription is saved as Refresh had read it.
SaveStaleMutant(p) ==
    /\ pc[p] = "refresh_save"
    /\ LET i == loc[p].id IN
       IF i \in DOMAIN subs
       THEN /\ subs' = [subs EXCEPT ![i].url = loc[p].url,
                                    ![i].outbounds = loc[p].feed,
                                    ![i].error = FALSE]
            /\ Refreshed(p, FALSE)
       ELSE UNCHANGED subs /\ Refreshed(p, TRUE)
    /\ UNCHANGED <<nodes, seq, groups, defaults, file, spent>>

\* saveRefreshedSubscription: reads the subscription again in the transaction
\* that writes it.
RefreshSave(p) ==
    /\ pc[p] = "refresh_save"
    /\ \E failed \in BOOLEAN :
          /\ MayFail(failed)
          /\ IF loc[p].id \in DOMAIN subs /\ ~failed
             THEN /\ subs' = [subs EXCEPT ![loc[p].id].outbounds = loc[p].feed,
                                          ![loc[p].id].error = FALSE]
                  /\ Refreshed(p, FALSE)
             ELSE UNCHANGED subs /\ Refreshed(p, TRUE)
    /\ UNCHANGED <<nodes, seq, groups, defaults, file>>

\* setError, whose own error nobody looks at.
RefreshError(p) ==
    /\ pc[p] = "refresh_error"
    /\ \E failed \in BOOLEAN :
          /\ MayFail(failed)
          /\ subs' = IF loc[p].id \in DOMAIN subs /\ ~failed
                     THEN [subs EXCEPT ![loc[p].id].error = TRUE]
                     ELSE subs
    /\ Refreshed(p, TRUE)
    /\ UNCHANGED <<nodes, seq, groups, defaults, file>>

----------------------------------------------------------------------------
(* syncOutboundsToConfig. *)

\* NodesHandler.SyncToConfig.
SyncToConfig(p) ==
    /\ pc[p] = "idle"
    /\ Request
    /\ Goto(p, "sync_read", Blank)
    /\ UNCHANGED <<db, file>>

\* The read of the file.  A read that fails, this one or one of the database,
\* ends the sync with nothing written.
SyncRead(p) ==
    /\ pc[p] = "sync_read"
    /\ \E failed \in BOOLEAN :
          /\ MayFail(failed)
          /\ IF failed THEN Answer(p)
             ELSE Goto(p, "sync_settings", [Blank EXCEPT !.file = file])
    /\ UNCHANGED <<db, file>>

\* The defaults and the groups are two reads of the settings bucket; no
\* transaction changes both.
SyncSettings(p) ==
    /\ pc[p] = "sync_settings"
    /\ Goto(p, "sync_subs",
            [loc[p] EXCEPT !.groups = groups, !.defaults = defaults])
    /\ UNCHANGED <<db, file, spent>>

SyncSubs(p) ==
    /\ pc[p] = "sync_subs"
    /\ Goto(p, "sync_nodes", [loc[p] EXCEPT !.subs = ListSubs])
    /\ UNCHANGED <<db, file, spent>>

\* The last read, and the computation.
SyncNodes(p) ==
    /\ pc[p] = "sync_nodes"
    /\ LET l == loc[p] IN
       Goto(p, "sync_write",
            [Blank EXCEPT !.file = l.file,
                          !.out = Sync(l.file, ListNodes, l.subs, l.groups,
                                       l.defaults)])
    /\ UNCHANGED <<db, file, spent>>

SyncWrite(p) ==
    /\ pc[p] = "sync_write"
    /\ \E failed \in BOOLEAN :
          /\ MayFail(failed)
          /\ IF failed
             THEN Answer(p) /\ UNCHANGED file
             ELSE /\ file' = loc[p].out.file
                  /\ Goto(p, "sync_groups", loc[p])
    /\ UNCHANGED db

SyncGroups(p) ==
    /\ pc[p] = "sync_groups"
    /\ \E failed \in BOOLEAN :
          /\ MayFail(failed)
          /\ IF failed
             THEN Goto(p, "sync_undo", loc[p]) /\ UNCHANGED groups
             ELSE Answer(p) /\ groups' = loc[p].out.groups
    /\ UNCHANGED <<nodes, subs, seq, defaults, file>>

SyncUndo(p) ==
    /\ pc[p] = "sync_undo"
    /\ \E failed \in BOOLEAN :
          /\ MayFail(failed)
          /\ file' = IF failed THEN file ELSE loc[p].file
    /\ Answer(p)
    /\ UNCHANGED db

----------------------------------------------------------------------------

\* The process dies and is started again.
Crash ==
    /\ spent.crashes < MaxCrashes
    /\ spent' = [spent EXCEPT !.crashes = @ + 1]
    /\ pc' = [p \in Proc |-> "idle"]
    /\ loc' = [p \in Proc |-> Blank]
    /\ UNCHANGED <<db, file>>

Quiet == \A p \in Proc : pc[p] = "idle"

Finished == Quiet /\ spent.requests = MaxRequests /\ UNCHANGED vars

Next ==
    \/ CreateSub \/ UpdateSub \/ DeleteSub \/ DeleteNode
    \/ SetDefaults \/ SaveConfig
    \/ \E p \in Proc :
          \/ SaveNode(p) \/ UpdateNode(p) \/ NodeDelete(p) \/ NodeAdd(p)
          \/ Refresh(p) \/ RefreshAll(p) \/ RefreshNext(p) \/ Download(p)
          \/ RefreshSave(p) \/ RefreshError(p)
          \/ SyncToConfig(p) \/ SyncRead(p) \/ SyncSettings(p) \/ SyncSubs(p)
          \/ SyncNodes(p) \/ SyncWrite(p) \/ SyncGroups(p) \/ SyncUndo(p)
    \/ Crash
    \/ Finished

Spec == Init /\ [][Next]_vars

----------------------------------------------------------------------------
(* Properties. *)

\* The part of the state that DeletedStaysDeleted and RefreshKeepsEdits rest
\* on (CatalogProofs): a bucket of subscriptions, with ids from the sequence.
BucketInv ==
    /\ seq \in Nat
    /\ DOMAIN subs \subseteq 1 .. seq
    /\ subs = [i \in DOMAIN subs |-> subs[i]]
    /\ \A i \in DOMAIN subs : IsSub(subs[i])

\* The part that TypeOK and ProxyResolves rest on: the subscriptions and the
\* files are sound, also those that a goroutine has in its hands.
Sound(f) == Orderly(f) /\ Resolves(f)

Holding == {"sync_settings", "sync_subs", "sync_nodes", "sync_write",
            "sync_groups", "sync_undo"}

\* What a goroutine that is at a step has in its hands.
Hands(at, l) ==
    /\ DOMAIN l = DOMAIN Blank
    /\ at \in {"node_delete", "node_add"} => l.node \in Node
    /\ at = "download" => l.url \in Url
    /\ at = "refresh_save" => l.feed \in Seq(Source)
    /\ at \in Holding => Sound(l.file)
    /\ at \in {"sync_subs", "sync_nodes"}
       => l.groups \subseteq Name /\ l.defaults \in Test
    /\ at = "sync_nodes" => l.subs \in Seq(Sub)
    /\ at \in {"sync_write", "sync_groups"}
       => Sound(l.out.file) /\ l.out.groups \subseteq Name

SubsInv == \A i \in DOMAIN subs : subs[i] \in Sub
HandsInv == DOMAIN loc = Proc /\ \A p \in Proc : Hands(pc[p], loc[p])

IInv == TypeOK /\ BucketInv /\ SubsInv /\ Sound(file) /\ HandsInv

\* A deleted subscription stays deleted: a refresh that was downloading when
\* it went does not bring it back, and its id is never given out again, so
\* the late save cannot land in another subscription either.
DeletedStaysDeleted ==
    [][\A i \in 1 .. seq : i \notin DOMAIN subs => i \notin DOMAIN subs']_vars

\* A refresh that ends after the user has edited the subscription brings new
\* outbounds and leaves name, URL and override as the user wanted them.
RefreshKeepsEdits ==
    [][\A i \in DOMAIN subs \cap DOMAIN subs' :
          subs'[i].outbounds # subs[i].outbounds
          => /\ subs'[i].name = subs[i].name
             /\ subs'[i].url = subs[i].url
             /\ subs'[i].test = subs[i].test]_vars

\* Everything the proxy selector leads to is in the file: its members, and
\* the members of the groups among them.  So it is after every write of every
\* sync, whatever other requests did between its reads.
ProxyResolves == Resolves(file)

\* What a sync that ran now, alone, would make of the file.
SyncNow(f) == Sync(f, ListNodes, ListSubs, groups, defaults)

\* The nodes and subscriptions have managed types only.
OnlyManaged ==
    /\ \A t \in DOMAIN nodes : nodes[t].type \in ManagedNodeTypes
    /\ \A i \in DOMAIN subs : \A o \in ToSet(subs[i].outbounds) :
          o.type \in ManagedNodeTypes

\* The outbounds the user wrote by hand, and those of them that are not of a
\* type the sync replaces.
ByHand(f) == Only(f.outbounds, {o \in ToSet(f.outbounds) : o.tag \in UserTags})
OfForeignType(f) ==
    Only(f.outbounds, {o \in ToSet(f.outbounds) :
                          o.tag \in UserTags /\ o.type \notin ReplacedTypes})

\* The tags of what a sync builds upon the outbound that has the tag: nodes,
\* outbounds of subscriptions, groups.  The proxy selector and direct are not
\* among them, they start from an empty map.
BuiltUpon ==
    DOMAIN nodes
    \cup (UNION {ToSet(SubscriptionTags(subs[i])) : i \in DOMAIN subs})
    \cup SyncNow(file).groups

\* What a sync leaves of the user's part.  Of the outbounds written by hand it
\* keeps those, and only those, whose type is none that it replaces: untouched
\* and in their order.  A vless or a direct outbound of the user is deleted,
\* whatever its tag.  The fields the user has added to a node, an outbound of a
\* subscription or its group stay when these are built anew; those added to
\* proxy or to direct do not.
UserPartKept ==
    LET new == SyncNow(file).file IN
    /\ ByHand(new) = OfForeignType(file)
    /\ \A t \in BuiltUpon \cap There(file) : Find(new, t).extra = Find(file, t).extra

\* A second sync right after the first one changes nothing: groups are not
\* duplicated, members do not pile up, the user's fields are not lost.
SyncIdempotent ==
    OnlyManaged =>
      LET once == SyncNow(file)
          twice == Sync(once.file, ListNodes, ListSubs, once.groups, defaults)
      IN  twice = once

\* The group of a renamed or deleted subscription goes with the next sync
\* (TestSyncOutboundsRemovesManagedURLTestGroupAfterRename): whenever no
\* request is in flight, every group that a sync made is either remembered or
\* named like a subscription, so that the next sync finds it.
StaleGroupsAreFound ==
    Quiet => \A o \in ToSet(file.outbounds) :
                o.type \in GroupTypes /\ o.tag \in Name
                => o.tag \in ManagedGroups(groups, ListSubs)
=============================================================================
