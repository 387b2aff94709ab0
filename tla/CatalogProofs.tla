--------------------------- MODULE CatalogProofs ---------------------------
(***************************************************************************)
(* Proofs about Catalog: what a refresh, an edit and a deletion of the     *)
(* same subscription can do to each other, for any number of goroutines,   *)
(* subscriptions, requests, faults and crashes.                            *)
(***************************************************************************)
EXTENDS SyncProofs

----------------------------------------------------------------------------
(* The subscriptions bucket. *)

\* What a step can do to the bucket: create one under the next id, edit one,
\* delete one, replace its outbounds and its error, or leave it alone.
Created == /\ seq < MaxSubs /\ seq' = seq + 1
           /\ \E n \in Name, u \in Url, t \in Override :
                 subs' = Put(subs, seq + 1, NewSub(n, u, t))
EditedOne == /\ seq' = seq
             /\ \E i \in DOMAIN subs, n \in Name \cup {""}, u \in Url \cup {""},
                  t \in Override :
                   subs' = [subs EXCEPT ![i] = Edited(@, n, u, t)]
DeletedOne == /\ seq' = seq
              /\ \E i \in DOMAIN subs : subs' = Without(subs, i)
Reloaded == /\ seq' = seq
            /\ \E i \in DOMAIN subs, p \in Proc :
                  /\ pc[p] = "refresh_save"
                  /\ subs' = [subs EXCEPT ![i].outbounds = loc[p].feed,
                                          ![i].error = FALSE]
Failed == /\ seq' = seq
          /\ \E i \in DOMAIN subs : subs' = [subs EXCEPT ![i].error = TRUE]
Untouched == seq' = seq /\ subs' = subs

\* Every step of the system is one of these for the bucket: the handlers
\* reach it through the manager's transactions only.
LEMMA BucketSteps ==
  ASSUME [Next]_vars
  PROVE  Created \/ EditedOne \/ DeletedOne \/ Reloaded \/ Failed \/ Untouched
<1>1. CASE CreateSub
  BY <1>1 DEF CreateSub, Created
<1>2. CASE UpdateSub
  BY <1>2 DEF UpdateSub, EditedOne
<1>3. CASE DeleteSub
  BY <1>3 DEF DeleteSub, DeletedOne
<1>4. CASE DeleteNode \/ SetDefaults \/ SaveConfig \/ Crash \/ Finished
  BY <1>4 DEF DeleteNode, SetDefaults, SaveConfig, Crash, Finished, db, vars,
              Untouched
<1>5. ASSUME NEW p \in Proc,
             \/ SaveNode(p) \/ UpdateNode(p) \/ NodeDelete(p) \/ NodeAdd(p)
             \/ Refresh(p) \/ RefreshAll(p) \/ RefreshNext(p) \/ Download(p)
      PROVE  Untouched
  BY <1>5 DEF SaveNode, UpdateNode, NodeDelete, NodeAdd, Refresh, RefreshAll,
              RefreshNext, Download, db, Untouched
<1>6. ASSUME NEW p \in Proc, RefreshSave(p)
      PROVE  Reloaded \/ Untouched
  BY <1>6 DEF RefreshSave, Reloaded, Untouched
<1>7. ASSUME NEW p \in Proc, RefreshError(p)
      PROVE  Failed \/ Untouched
  BY <1>7 DEF RefreshError, Failed, Untouched
<1>8. ASSUME NEW p \in Proc,
             \/ SyncToConfig(p) \/ SyncRead(p) \/ SyncSettings(p)
             \/ SyncSubs(p) \/ SyncNodes(p) \/ SyncWrite(p) \/ SyncGroups(p)
             \/ SyncUndo(p)
      PROVE  Untouched
  BY <1>8 DEF SyncToConfig, SyncRead, SyncSettings, SyncSubs, SyncNodes,
              SyncWrite, SyncGroups, SyncUndo, db, Untouched
<1>9. CASE UNCHANGED vars
  BY <1>9 DEF vars, Untouched
<1> QED
  BY <1>1, <1>2, <1>3, <1>4, <1>5, <1>6, <1>7, <1>8, <1>9 DEF Next

\* An edit keeps the form of a subscription.
LEMMA EditKeeps ==
  ASSUME NEW s, IsSub(s), NEW n, NEW u, NEW t
  PROVE  IsSub(Edited(s, n, u, t))
BY DEF IsSub, Edited

\* A refresh keeps the form of a subscription.
LEMMA ReloadKeeps ==
  ASSUME NEW s, IsSub(s), NEW f, NEW e
  PROVE  IsSub([s EXCEPT !.outbounds = f, !.error = e])
BY DEF IsSub

LEMMA FailKeeps ==
  ASSUME NEW s, IsSub(s)
  PROVE  LET r == [s EXCEPT !.error = TRUE] IN
         /\ IsSub(r)
         /\ r.outbounds = s.outbounds
BY DEF IsSub

LEMMA InitBucket == Init => BucketInv
<1> SUFFICES ASSUME Init PROVE BucketInv
  OBVIOUS
<1>1. CASE Fresh
  BY <1>1 DEF Fresh, Empty, BucketInv
<1>2. CASE Used
  <2>1. PICK s \in InitSub : subs = [i \in {1} |-> s] /\ seq = 1
    BY <1>2 DEF Used
  <2>2. IsSub(s)
    BY CatalogAssumption DEF Sub, IsSub
  <2> QED
    BY <2>1, <2>2 DEF BucketInv
<1> QED
  BY <1>1, <1>2 DEF Init

\* The bucket stays a bucket.
LEMMA NextBucket == BucketInv /\ [Next]_vars => BucketInv'
<1> SUFFICES ASSUME BucketInv, [Next]_vars PROVE BucketInv'
  OBVIOUS
<1>1. CASE Created
  <2>1. PICK n \in Name, u \in Url, t \in Override :
          subs' = Put(subs, seq + 1, NewSub(n, u, t))
    BY <1>1 DEF Created
  <2>2. IsSub(NewSub(n, u, t))
    BY DEF IsSub, NewSub
  <2>3. DOMAIN subs' = DOMAIN subs \cup {seq + 1} /\ seq' = seq + 1
    BY <1>1, <2>1 DEF Put, Created
  <2> QED
    BY <2>1, <2>2, <2>3 DEF BucketInv, Put
<1>2. CASE EditedOne
  <2>1. PICK i \in DOMAIN subs, n \in Name \cup {""},
               u \in Url \cup {""}, t \in Override :
          subs' = [subs EXCEPT ![i] = Edited(@, n, u, t)]
    BY <1>2 DEF EditedOne
  <2>2. IsSub(Edited(subs[i], n, u, t))
    BY EditKeeps DEF BucketInv
  <2>3. DOMAIN subs' = DOMAIN subs
    BY <2>1
  <2> QED
    BY <1>2, <2>1, <2>2, <2>3 DEF BucketInv, EditedOne
<1>3. CASE DeletedOne
  BY <1>3 DEF BucketInv, DeletedOne, Without
<1>4. CASE Reloaded
  <2>1. PICK i \in DOMAIN subs, p \in Proc :
          subs' = [subs EXCEPT ![i].outbounds = loc[p].feed, ![i].error = FALSE]
    BY <1>4 DEF Reloaded
  <2>2. IsSub([subs[i] EXCEPT !.outbounds = loc[p].feed, !.error = FALSE])
    BY ReloadKeeps DEF BucketInv
  <2>3. DOMAIN subs' = DOMAIN subs
    BY <2>1
  <2>4. subs'[i] = [subs[i] EXCEPT !.outbounds = loc[p].feed, !.error = FALSE]
    BY <2>1
  <2> QED
    BY <1>4, <2>1, <2>2, <2>3, <2>4 DEF BucketInv, Reloaded
<1>5. CASE Failed
  <2>1. PICK i \in DOMAIN subs : subs' = [subs EXCEPT ![i].error = TRUE]
    BY <1>5 DEF Failed
  <2>2. IsSub([subs[i] EXCEPT !.error = TRUE])
    BY FailKeeps DEF BucketInv
  <2>3. DOMAIN subs' = DOMAIN subs
    BY <2>1
  <2>4. subs'[i] = [subs[i] EXCEPT !.error = TRUE]
    BY <2>1
  <2> QED
    BY <1>5, <2>1, <2>2, <2>3, <2>4 DEF BucketInv, Failed
<1>6. CASE Untouched
  BY <1>6 DEF BucketInv, Untouched
<1> QED
  BY <1>1, <1>2, <1>3, <1>4, <1>5, <1>6, BucketSteps

\* The subscriptions bucket (internal/core/subscription.go) is one in every
\* reachable state: ids come from its sequence.
THEOREM BucketCorrect == Spec => []BucketInv
<1>1. Init => BucketInv
  BY InitBucket
<1>2. BucketInv /\ [Next]_vars => BucketInv'
  BY NextBucket
<1> QED
  BY <1>1, <1>2, PTL DEF Spec

----------------------------------------------------------------------------
(* Deletions and edits against refreshes. *)

\* A deleted subscription never comes back, whatever refresh was downloading
\* for it (saveRefreshedSubscription looks again), and no id is used twice.
THEOREM NoResurrection == Spec => DeletedStaysDeleted
<1>1. ASSUME BucketInv, [Next]_vars, NEW i \in 1 .. seq, i \notin DOMAIN subs
      PROVE  i \notin DOMAIN subs'
  <2>1. CASE Created
    <3>1. DOMAIN subs' = DOMAIN subs \cup {seq + 1}
      BY <2>1 DEF Created, Put
    <3>2. i # seq + 1
      BY <1>1 DEF BucketInv
    <3> QED
      BY <1>1, <3>1, <3>2
  <2>2. CASE EditedOne \/ Reloaded \/ Failed \/ Untouched
    <3>1. DOMAIN subs' = DOMAIN subs
      BY <2>2 DEF EditedOne, Reloaded, Failed, Untouched
    <3> QED
      BY <1>1, <3>1
  <2>3. CASE DeletedOne
    BY <1>1, <2>3 DEF DeletedOne, Without
  <2> QED
    BY <1>1, <2>1, <2>2, <2>3, BucketSteps
<1>2. BucketInv /\ [Next]_vars
      => [\A i \in 1 .. seq : i \notin DOMAIN subs => i \notin DOMAIN subs']_vars
  BY <1>1
<1> QED
  BY <1>2, BucketCorrect, PTL DEF Spec, DeletedStaysDeleted

\* A refresh that ends late never takes back the name, the URL or the override
\* the user has given the subscription meanwhile.
THEOREM EditsSurviveRefresh == Spec => RefreshKeepsEdits
<1>1. ASSUME BucketInv, [Next]_vars, NEW i \in DOMAIN subs \cap DOMAIN subs',
             subs'[i].outbounds # subs[i].outbounds
      PROVE  /\ subs'[i].name = subs[i].name
             /\ subs'[i].url = subs[i].url
             /\ subs'[i].test = subs[i].test
  <2>0. IsSub(subs[i])
    BY <1>1 DEF BucketInv
  <2>1. CASE Created
    <3>1. subs'[i] = subs[i]
      BY <1>1, <2>1 DEF Created, Put, BucketInv
    <3> QED
      BY <1>1, <3>1
  <2>2. CASE EditedOne
    <3>1. PICK j \in DOMAIN subs, n \in Name \cup {""},
               u \in Url \cup {""}, t \in Override :
            subs' = [subs EXCEPT ![j] = Edited(@, n, u, t)]
      BY <2>2 DEF EditedOne
    <3>2. subs'[i] = subs[i] \/ subs'[i] = Edited(subs[i], n, u, t)
      BY <3>1
    <3>3. Edited(subs[i], n, u, t).outbounds = subs[i].outbounds
      BY <2>0 DEF IsSub, Edited
    <3> QED
      BY <1>1, <3>2, <3>3
  <2>3. CASE Reloaded
    <3>1. PICK j \in DOMAIN subs, p \in Proc :
            subs' = [subs EXCEPT ![j].outbounds = loc[p].feed, ![j].error = FALSE]
      BY <2>3 DEF Reloaded
    <3>2. \/ subs'[i] = subs[i]
          \/ subs'[i] = [subs[i] EXCEPT !.outbounds = loc[p].feed, !.error = FALSE]
      BY <3>1
    <3> DEFINE r == [subs[i] EXCEPT !.outbounds = loc[p].feed, !.error = FALSE]
    <3>3. r.name = subs[i].name /\ r.url = subs[i].url /\ r.test = subs[i].test
      BY <2>0 DEF IsSub
    <3> QED
      BY <3>2, <3>3
  <2>4. CASE Failed
    <3>1. PICK j \in DOMAIN subs : subs' = [subs EXCEPT ![j].error = TRUE]
      BY <2>4 DEF Failed
    <3>2. subs'[i] = subs[i] \/ subs'[i] = [subs[i] EXCEPT !.error = TRUE]
      BY <3>1
    <3> QED
      BY <1>1, <2>0, <3>2, FailKeeps
  <2>5. CASE DeletedOne
    <3>1. subs'[i] = subs[i]
      BY <1>1, <2>5 DEF DeletedOne, Without
    <3> QED
      BY <1>1, <3>1
  <2>6. CASE Untouched
    BY <1>1, <2>6 DEF Untouched
  <2> QED
    BY <1>1, <2>1, <2>2, <2>3, <2>4, <2>5, <2>6, BucketSteps
<1>2. BucketInv /\ [Next]_vars
      => [\A i \in DOMAIN subs \cap DOMAIN subs' :
            subs'[i].outbounds # subs[i].outbounds
            => /\ subs'[i].name = subs[i].name
               /\ subs'[i].url = subs[i].url
               /\ subs'[i].test = subs[i].test]_vars
  BY <1>1
<1> QED
  BY <1>2, BucketCorrect, PTL DEF Spec, RefreshKeepsEdits

----------------------------------------------------------------------------
(* Files. *)

\* One more outbound of the user, with a tag that is not there yet, leaves
\* everything the selector leads to where it was.
LEMMA AddedSound ==
  ASSUME NEW f, Sound(f), NEW u \in UserOutbound,
         u.tag \notin ToSet(Tags(f.outbounds))
  PROVE  Sound([f EXCEPT !.outbounds = Append(@, u)])
<1> DEFINE outs == f.outbounds
           out == Append(outs, u)
           g == [f EXCEPT !.outbounds = out]
<1>1. /\ f \in [outbounds : Seq(Outbound), final : STRING]
      /\ outs \in Seq(Outbound) /\ u \in Outbound
  BY UserAssumption DEF Sound, Orderly
<1>2. /\ out \in Seq(Outbound) /\ ToSet(out) = ToSet(outs) \cup {u}
      /\ out = outs \o <<u>>
  BY <1>1, AppendProperties, AppendToSet, AppendIsConcat
<1>3. g.outbounds = out /\ g \in [outbounds : Seq(Outbound), final : STRING]
  BY <1>1, <1>2
<1>4. <<u>> \in Seq(Outbound) /\ ToSet(<<u>>) = {u}
  <2>1. <<u>> = [i \in 1 .. 1 |-> u]
    OBVIOUS
  <2> QED
    BY <1>1, <2>1 DEF ToSet
<1>5. u.tag \in UserTags /\ u.tag \notin Name /\ u.tag # "proxy"
  BY UserAssumption DEF UserTags
<1> HIDE DEF out, g
<1>6. Orderly(g)
  BY <1>2, <1>3, <1>5 DEF Orderly, Sound
<1>7. /\ There(f) = {o.tag : o \in ToSet(outs)}
      /\ There(g) = There(f) \cup {u.tag}
  BY <1>1, <1>2, <1>3, OutboundTags DEF There
<1>8. ASSUME NEW t, t # u.tag PROVE Find(g, t) = Find(f, t)
  <2> DEFINE one == <<u>>
  <2>1. one \in Seq(Outbound) /\ ~\E o \in ToSet(one) : o.tag = t
    BY <1>4, <1>8
  <2>2. out = outs \o one
    BY <1>2
  <2> HIDE DEF one, outs
  <2>3. Existing(outs \o one, t) = Existing(outs, t)
    BY <1>1, <2>1, ExistingConcat
  <2> QED
    BY <1>3, <2>2, <2>3 DEF Find, outs
<1>9. Find(g, "proxy") = Find(f, "proxy")
      /\ \A t \in Name : Find(g, t) = Find(f, t)
  BY <1>5, <1>8
<1>10. Resolves(g)
  <2> HIDE DEF Find, There
  <2> QED
    BY <1>7, <1>9 DEF Resolves, Sound
<1> QED
  BY <1>6, <1>10 DEF Sound, g, out

\* So does a field that the user adds to an outbound.
LEMMA ExtraSound ==
  ASSUME NEW f, Sound(f), NEW k \in DOMAIN f.outbounds
  PROVE  Sound([f EXCEPT !.outbounds[k].extra = "user"])
<1> DEFINE outs == f.outbounds
           b == [outs[k] EXCEPT !.extra = "user"]
           out == [outs EXCEPT ![k] = b]
           g == [f EXCEPT !.outbounds = out]
<1>1. /\ f \in [outbounds : Seq(Outbound), final : STRING]
      /\ outs \in Seq(Outbound)
  BY DEF Sound, Orderly
<1>2. /\ DOMAIN outs = 1 .. Len(outs) /\ Len(outs) \in Nat
      /\ \A i \in 1 .. Len(outs) : outs[i] \in Outbound
  BY <1>1, LenProperties, ElementOfSeq
<1>3. /\ b \in Outbound
      /\ b.tag = outs[k].tag /\ b.type = outs[k].type
      /\ b.members = outs[k].members
  BY <1>2, LiteralAssumption DEF Outbound
<1> HIDE DEF b
<1>4. /\ out = [i \in 1 .. Len(outs) |-> IF i = k THEN b ELSE outs[i]]
      /\ out \in [1 .. Len(outs) -> Outbound]
  BY <1>2, <1>3
<1> HIDE DEF out, outs
<1>5. /\ out \in Seq(Outbound) /\ Len(out) = Len(outs)
      /\ ToSet(out) = {out[i] : i \in 1 .. Len(outs)}
  <2> DEFINE n == Len(outs)
  <2>1. n \in Nat /\ out \in [1 .. n -> Outbound]
    BY <1>2, <1>4
  <2> HIDE DEF n
  <2>2. out \in Seq(Outbound) /\ Len(out) = n /\ ToSet(out) = {out[i] : i \in 1 .. n}
    BY <2>1, SeqMade
  <2> QED
    BY <2>2 DEF n
<1>6. \A i \in 1 .. Len(outs) :
         /\ out[i].tag = outs[i].tag /\ out[i].type = outs[i].type
         /\ out[i].members = outs[i].members
  BY <1>2, <1>3, <1>4
<1>7. ToSet(outs) = {outs[i] : i \in 1 .. Len(outs)}
  BY <1>1, ToSetType
<1>8. g.outbounds = out /\ g \in [outbounds : Seq(Outbound), final : STRING]
  BY <1>1, <1>5
<1> HIDE DEF g
<1>9. Orderly(g)
  <2>1. \A o \in ToSet(outs) :
           /\ o.tag \in Name => o.type \in GroupTypes
           /\ o.tag = "proxy" => o.type = "selector"
    BY DEF Sound, Orderly, outs
  <2> QED
    BY <1>5, <1>6, <1>7, <1>8, <2>1 DEF Orderly
<1>10. There(g) = There(f)
  <2>1. There(f) = {o.tag : o \in ToSet(outs)}
    BY <1>1, OutboundTags DEF There, outs
  <2>2. There(g) = {o.tag : o \in ToSet(out)}
    BY <1>5, <1>8, OutboundTags DEF There
  <2> QED
    BY <1>5, <1>6, <1>7, <2>1, <2>2
<1>11. ASSUME NEW t PROVE Find(g, t).members = Find(f, t).members
  <2>1. CASE t = "" \/ \A i \in 1 .. Len(outs) : outs[i].tag # t
    <3>1. Existing(outs, t) = NewEntry
      BY <1>1, <1>7, <2>1, ExistingIsLast
    <3>2. t = "" \/ \A o \in ToSet(out) : o.tag # t
      BY <1>5, <1>6, <2>1
    <3>3. Existing(out, t) = NewEntry
      BY <1>5, <3>2, ExistingIsLast
    <3> QED
      BY <1>8, <3>1, <3>3 DEF Find, outs
  <2>2. CASE t # "" /\ \E i \in 1 .. Len(outs) : outs[i].tag = t
    <3>1. \E o \in ToSet(outs) : o.tag = t
      BY <1>7, <2>2
    <3>2. PICK i \in 1 .. Len(outs) : LastWith(outs, t, i)
      BY <1>1, <2>2, <3>1, ExistingIsLast
    <3>3. LastWith(out, t, i)
      BY <1>5, <1>6, <3>2 DEF LastWith
    <3>4. Existing(outs, t) = outs[i] /\ Existing(out, t) = out[i]
      BY <1>1, <1>5, <2>2, <3>2, <3>3, ExistingIsLast
    <3> QED
      BY <1>6, <1>8, <3>4 DEF Find, outs
  <2> QED
    BY <2>1, <2>2
<1>12. Resolves(g)
  <2> HIDE DEF Find, There
  <2> QED
    BY <1>10, <1>11 DEF Resolves, Sound
<1> QED
  BY <1>9, <1>12 DEF Sound, g, out, outs, b

\* What one run of a sync makes of a sound file is a sound file.
LEMMA SyncSound ==
  ASSUME NEW f, NEW ns \in Seq(Source), NEW ss \in Seq(Sub), NEW gs, NEW ds,
         Sound(f), gs \subseteq Name, ds \in Test
  PROVE  /\ Sound(Sync(f, ns, ss, gs, ds).file)
         /\ Sync(f, ns, ss, gs, ds).groups \subseteq Name
<1>1. Input(f, ns, ss, gs, ds)
  BY DEF Input, Sound
<1> QED
  BY <1>1, SyncOrderly, SyncResolves DEF Sound

----------------------------------------------------------------------------
(* The stores keep their types. *)

\* The subscriptions, with their ids out of the bound sequence.
SubsType == /\ seq \in 0 .. MaxSubs
            /\ DOMAIN subs \subseteq 1 .. seq
            /\ SubsInv

LEMMA Bounds == /\ MaxSubs \in Nat /\ MaxRequests \in Nat
                /\ MaxFaults \in Nat /\ MaxCrashes \in Nat
BY CatalogAssumption

LEMMA InitSubs == Init => SubsType
<1> SUFFICES ASSUME Init PROVE SubsType
  OBVIOUS
<1>1. CASE Fresh
  BY <1>1, Bounds DEF Fresh, Empty, SubsType, SubsInv
<1>2. CASE Used
  <2>1. PICK s \in InitSub : subs = [i \in {1} |-> s] /\ seq = 1
    BY <1>2 DEF Used
  <2>2. 1 \in 0 .. MaxSubs /\ s \in Sub
    <3>1. InitSub \subseteq Sub /\ (InitSub = {} \/ MaxSubs > 0)
      BY CatalogAssumption
    <3> QED
      BY <3>1, Bounds
  <2> QED
    BY <2>1, <2>2 DEF SubsType, SubsInv
<1> QED
  BY <1>1, <1>2 DEF Init

LEMMA NextSubs ==
  ASSUME SubsType, HandsInv, [Next]_vars
  PROVE  SubsType'
<1>1. CASE Created
  <2>1. PICK n \in Name, u \in Url, t \in Override :
          subs' = Put(subs, seq + 1, NewSub(n, u, t))
    BY <1>1 DEF Created
  <2>2. NewSub(n, u, t) \in Sub
    <3>1. <<>> \in Seq(Source)
      BY EmptySeq
    <3> QED
      BY <3>1 DEF Sub, NewSub
  <2>3. DOMAIN subs' = DOMAIN subs \cup {seq + 1} /\ seq' = seq + 1 /\ seq < MaxSubs
    BY <1>1, <2>1 DEF Put, Created
  <2>4. seq' \in 0 .. MaxSubs /\ DOMAIN subs' \subseteq 1 .. seq'
    BY <2>3, Bounds DEF SubsType
  <2> QED
    BY <2>1, <2>2, <2>4 DEF SubsType, SubsInv, Put
<1>2. CASE EditedOne
  <2>1. PICK i \in DOMAIN subs, n \in Name \cup {""},
               u \in Url \cup {""}, t \in Override :
          subs' = [subs EXCEPT ![i] = Edited(@, n, u, t)]
    BY <1>2 DEF EditedOne
  <2>2. subs[i] \in Sub
    BY DEF SubsType, SubsInv
  <2>3. Edited(subs[i], n, u, t) \in Sub
    <3>1. /\ (IF n = "" THEN subs[i].name ELSE n) \in Name
          /\ (IF u = "" THEN subs[i].url ELSE u) \in Url
      BY <2>2 DEF Sub
    <3> QED
      BY <2>2, <3>1 DEF Edited, Sub
  <2>4. DOMAIN subs' = DOMAIN subs
    BY <2>1
  <2> QED
    BY <1>2, <2>1, <2>3, <2>4 DEF SubsType, SubsInv, EditedOne
<1>3. CASE DeletedOne
  BY <1>3 DEF SubsType, SubsInv, DeletedOne, Without
<1>4. CASE Reloaded
  <2>1. PICK i \in DOMAIN subs, p \in Proc :
          /\ pc[p] = "refresh_save"
          /\ subs' = [subs EXCEPT ![i].outbounds = loc[p].feed, ![i].error = FALSE]
    BY <1>4 DEF Reloaded
  <2>2. subs[i] \in Sub /\ loc[p].feed \in Seq(Source)
    BY <2>1 DEF SubsType, SubsInv, HandsInv, Hands
  <2>3. [subs[i] EXCEPT !.outbounds = loc[p].feed, !.error = FALSE] \in Sub
    BY <2>2 DEF Sub
  <2>4. DOMAIN subs' = DOMAIN subs
    BY <2>1
  <2>5. subs'[i] = [subs[i] EXCEPT !.outbounds = loc[p].feed, !.error = FALSE]
    BY <2>1
  <2> QED
    BY <1>4, <2>1, <2>3, <2>4, <2>5 DEF SubsType, SubsInv, Reloaded
<1>5. CASE Failed
  <2>1. PICK i \in DOMAIN subs : subs' = [subs EXCEPT ![i].error = TRUE]
    BY <1>5 DEF Failed
  <2>2. [subs[i] EXCEPT !.error = TRUE] \in Sub
    BY DEF SubsType, SubsInv, Sub
  <2>3. DOMAIN subs' = DOMAIN subs
    BY <2>1
  <2>4. subs'[i] = [subs[i] EXCEPT !.error = TRUE]
    BY <2>1
  <2> QED
    BY <1>5, <2>1, <2>2, <2>3, <2>4 DEF SubsType, SubsInv, Failed
<1>6. CASE Untouched
  BY <1>6 DEF SubsType, SubsInv, Untouched
<1> QED
  BY <1>1, <1>2, <1>3, <1>4, <1>5, <1>6, BucketSteps

\* The imported nodes, each under its own tag.
NodesType == \A t \in DOMAIN nodes : nodes[t] \in Node /\ nodes[t].tag = t

LEMMA NodePut ==
  ASSUME NodesType, NEW n \in Node, nodes' = Put(nodes, n.tag, n)
  PROVE  NodesType'
BY DEF NodesType, Put

LEMMA NodeGone ==
  ASSUME NodesType, NEW t, nodes' = Without(nodes, t)
  PROVE  NodesType'
BY DEF NodesType, Without

LEMMA NextNodes ==
  ASSUME NodesType, HandsInv, [Next]_vars
  PROVE  NodesType'
<1>1. CASE nodes' = nodes
  BY <1>1 DEF NodesType
<1>2. CASE DeleteNode
  BY <1>2, NodeGone DEF DeleteNode
<1>3. ASSUME NEW p \in Proc, SaveNode(p) PROVE NodesType'
  BY <1>3, NodePut DEF SaveNode
<1>4. ASSUME NEW p \in Proc, NodeDelete(p) PROVE NodesType'
  BY <1>1, <1>4, NodeGone DEF NodeDelete
<1>5. ASSUME NEW p \in Proc, NodeAdd(p) PROVE NodesType'
  <2>1. loc[p].node \in Node
    BY <1>5 DEF NodeAdd, HandsInv, Hands
  <2> QED
    BY <1>1, <1>5, <2>1, NodePut DEF NodeAdd
<1>6. ASSUME NEW p \in Proc,
             \/ UpdateNode(p) \/ Refresh(p) \/ RefreshAll(p) \/ RefreshNext(p)
             \/ Download(p) \/ RefreshSave(p) \/ RefreshError(p)
      PROVE  nodes' = nodes
  BY <1>6 DEF UpdateNode, Refresh, RefreshAll, RefreshNext, Download, RefreshSave,
              RefreshError, db
<1>7. ASSUME NEW p \in Proc,
             \/ SyncToConfig(p) \/ SyncRead(p) \/ SyncSettings(p)
             \/ SyncSubs(p) \/ SyncNodes(p) \/ SyncWrite(p) \/ SyncGroups(p)
             \/ SyncUndo(p)
      PROVE  nodes' = nodes
  BY <1>7 DEF SyncToConfig, SyncRead, SyncSettings, SyncSubs, SyncNodes,
              SyncWrite, SyncGroups, SyncUndo, db
<1>8. CASE CreateSub \/ UpdateSub \/ DeleteSub \/ SetDefaults \/ SaveConfig
           \/ Crash \/ Finished \/ UNCHANGED vars
  BY <1>1, <1>8 DEF CreateSub, UpdateSub, DeleteSub, SetDefaults, SaveConfig, Crash,
              Finished, db, vars
<1> QED
  BY <1>1, <1>2, <1>3, <1>4, <1>5, <1>6, <1>7, <1>8 DEF Next

\* The settings: the groups of the last sync and the URL-test defaults.
SettingsType == groups \subseteq Name /\ defaults \in Defaults

LEMMA NextSettings ==
  ASSUME SettingsType, HandsInv, [Next]_vars
  PROVE  SettingsType'
<1>1. CASE groups' = groups /\ defaults' = defaults
  BY <1>1 DEF SettingsType
<1>2. CASE SetDefaults
  BY <1>2 DEF SetDefaults, SettingsType
<1>3. ASSUME NEW p \in Proc, SyncGroups(p) PROVE SettingsType'
  <2>1. loc[p].out.groups \subseteq Name
    BY <1>3 DEF SyncGroups, HandsInv, Hands
  <2> QED
    BY <1>3, <2>1 DEF SyncGroups, SettingsType
<1>4. ASSUME NEW p \in Proc,
             \/ SaveNode(p) \/ UpdateNode(p) \/ NodeDelete(p) \/ NodeAdd(p)
             \/ Refresh(p) \/ RefreshAll(p) \/ RefreshNext(p) \/ Download(p)
             \/ RefreshSave(p) \/ RefreshError(p)
      PROVE  groups' = groups /\ defaults' = defaults
  BY <1>4 DEF SaveNode, UpdateNode, NodeDelete, NodeAdd, Refresh, RefreshAll,
              RefreshNext, Download, RefreshSave, RefreshError, db
<1>5. ASSUME NEW p \in Proc,
             \/ SyncToConfig(p) \/ SyncRead(p) \/ SyncSettings(p)
             \/ SyncSubs(p) \/ SyncNodes(p) \/ SyncWrite(p) \/ SyncUndo(p)
      PROVE  groups' = groups /\ defaults' = defaults
  BY <1>5 DEF SyncToConfig, SyncRead, SyncSettings, SyncSubs, SyncNodes,
              SyncWrite, SyncUndo, db
<1>6. CASE CreateSub \/ UpdateSub \/ DeleteSub \/ DeleteNode \/ SaveConfig
           \/ Crash \/ Finished \/ UNCHANGED vars
  BY <1>1, <1>6 DEF CreateSub, UpdateSub, DeleteSub, DeleteNode, SaveConfig, Crash,
              Finished, db, vars
<1> QED
  BY <1>1, <1>2, <1>3, <1>4, <1>5, <1>6 DEF Next

\* The file.
LEMMA InitSound == Init => Sound(file) /\ groups \subseteq Name
<1> SUFFICES ASSUME Init PROVE Sound(file) /\ groups \subseteq Name
  OBVIOUS
<1>1. CASE Fresh
  BY <1>1, FileAssumption DEF Fresh, Sound
<1>2. CASE Used
  <2>1. PICK s \in InitSub, f \in InitFile :
          LET done == Sync(f, <<>>, <<s>>, {}, defaults) IN
            groups = done.groups /\ file = done.file
    BY <1>2 DEF Used
  <2> DEFINE none == <<>>
             one == <<s>>
             no == {}
  <2>2. none \in Seq(Source) /\ one \in Seq(Sub)
    <3>1. s \in Sub
      BY CatalogAssumption
    <3>2. one = [i \in 1 .. 1 |-> s]
      OBVIOUS
    <3> QED
      BY <3>1, <3>2, EmptySeq
  <2>3. Sound(f) /\ no \subseteq Name /\ defaults \in Test
    BY FileAssumption, CatalogAssumption DEF Sound, Init
  <2>4. groups = Sync(f, none, one, no, defaults).groups
        /\ file = Sync(f, none, one, no, defaults).file
    BY <2>1
  <2> HIDE DEF none, one, no
  <2> QED
    BY <2>2, <2>3, <2>4, SyncSound
<1> QED
  BY <1>1, <1>2 DEF Init

LEMMA NextFile ==
  ASSUME Sound(file), HandsInv, [Next]_vars
  PROVE  Sound(file')
<1>1. CASE file' = file
  BY <1>1
<1>2. CASE SaveConfig
  <2>1. CASE \E o \in UserOutbound :
               /\ o.tag \notin ToSet(Tags(file.outbounds))
               /\ file' = [file EXCEPT !.outbounds = Append(@, o)]
    BY <2>1, AddedSound
  <2>2. CASE \E i \in DOMAIN file.outbounds :
               file' = [file EXCEPT !.outbounds[i].extra = "user"]
    BY <2>2, ExtraSound
  <2> QED
    BY <1>2, <2>1, <2>2 DEF SaveConfig
<1>3. ASSUME NEW p \in Proc, SyncWrite(p) PROVE Sound(file')
  <2>1. Sound(loc[p].out.file)
    BY <1>3 DEF SyncWrite, HandsInv, Hands
  <2> QED
    BY <1>3, <2>1 DEF SyncWrite
<1>4. ASSUME NEW p \in Proc, SyncUndo(p) PROVE Sound(file')
  <2>1. Sound(loc[p].file)
    BY <1>4 DEF SyncUndo, HandsInv, Hands, Holding
  <2> QED
    BY <1>4, <2>1 DEF SyncUndo
<1>5. ASSUME NEW p \in Proc,
             \/ SaveNode(p) \/ UpdateNode(p) \/ NodeDelete(p) \/ NodeAdd(p)
             \/ Refresh(p) \/ RefreshAll(p) \/ RefreshNext(p) \/ Download(p)
             \/ RefreshSave(p) \/ RefreshError(p)
      PROVE  file' = file
  BY <1>5 DEF SaveNode, UpdateNode, NodeDelete, NodeAdd, Refresh, RefreshAll,
              RefreshNext, Download, RefreshSave, RefreshError
<1>6. ASSUME NEW p \in Proc,
             \/ SyncToConfig(p) \/ SyncRead(p) \/ SyncSettings(p)
             \/ SyncSubs(p) \/ SyncNodes(p) \/ SyncGroups(p)
      PROVE  file' = file
  BY <1>6 DEF SyncToConfig, SyncRead, SyncSettings, SyncSubs, SyncNodes, SyncGroups
<1>7. CASE CreateSub \/ UpdateSub \/ DeleteSub \/ DeleteNode \/ SetDefaults
           \/ Crash \/ Finished \/ UNCHANGED vars
  BY <1>1, <1>7 DEF CreateSub, UpdateSub, DeleteSub, DeleteNode, SetDefaults, Crash,
              Finished, vars
<1> QED
  BY <1>1, <1>2, <1>3, <1>4, <1>5, <1>6, <1>7 DEF Next

----------------------------------------------------------------------------
(* What the goroutines have in their hands. *)

\* A goroutine goes on with what the next step needs in its hands.
LEMMA Went ==
  ASSUME pc \in [Proc -> Steps], HandsInv,
         NEW p \in Proc, NEW at \in Steps, NEW l, Goto(p, at, l), Hands(at, l)
  PROVE  pc' \in [Proc -> Steps] /\ HandsInv'
<1>1. pc' = [pc EXCEPT ![p] = at] /\ loc' = [loc EXCEPT ![p] = l]
  BY DEF Goto
<1>2. DOMAIN loc = Proc /\ \A q \in Proc : Hands(pc[q], loc[q])
  BY DEF HandsInv
<1>3. \A q \in Proc : \/ q = p /\ pc'[q] = at /\ loc'[q] = l
                      \/ q # p /\ pc'[q] = pc[q] /\ loc'[q] = loc[q]
  BY <1>1, <1>2
<1>4. \A q \in Proc : Hands(pc'[q], loc'[q])
  BY <1>2, <1>3
<1>5. DOMAIN loc' = Proc
  BY <1>1, <1>2
<1> QED
  BY <1>1, <1>4, <1>5 DEF HandsInv

\* Nothing is needed where a request begins, ends or goes on afresh.
LEMMA Free ==
  ASSUME NEW at \in {"idle", "refresh_next", "refresh_error", "sync_read"}, NEW l,
         DOMAIN l = DOMAIN Blank
  PROVE  Hands(at, l) /\ at \in Steps
BY DEF Hands, Holding, Steps

LEMMA Answered ==
  ASSUME pc \in [Proc -> Steps], HandsInv, NEW p \in Proc, Answer(p)
  PROVE  pc' \in [Proc -> Steps] /\ HandsInv'
BY Went, Free DEF Answer

\* A list of a bucket in the order of its keys.
LEMMA InOrder ==
  ASSUME NEW K, NEW V, NEW order \in Seq(K), NEW D, NEW f, \A x \in D : f[x] \in V,
         D \subseteq ToSet(order)
  PROVE  LET there == Only(order, D)
             list == [i \in DOMAIN there |-> f[there[i]]]
         IN  list \in Seq(V) /\ ToSet(list) = {f[x] : x \in D}
<1> DEFINE there == Only(order, D)
           n == Len(there)
           list == [i \in DOMAIN there |-> f[there[i]]]
<1>1. there \in Seq(K) /\ ToSet(there) = D
  <2>1. there \in Seq(K) /\ ToSet(there) = ToSet(order) \cap D
    BY OnlyElements
  <2> QED
    BY <2>1
<1> HIDE DEF there
<1>2. n \in Nat /\ DOMAIN there = 1 .. n /\ ToSet(there) = {there[i] : i \in 1 .. n}
  BY <1>1, LenProperties, ToSetType
<1>3. \A i \in 1 .. n : f[there[i]] \in V
  BY <1>1, <1>2
<1>4. list \in [1 .. n -> V] /\ \A i \in 1 .. n : list[i] = f[there[i]]
  BY <1>2, <1>3
<1> HIDE DEF n, list
<1>5. list \in Seq(V) /\ ToSet(list) = {list[i] : i \in 1 .. n}
  BY <1>2, <1>4, SeqMade
<1>6. ToSet(list) = {f[x] : x \in D}
  BY <1>1, <1>2, <1>4, <1>5
<1> QED
  BY <1>5, <1>6 DEF list, there

\* What is read from the stores is made of sources and subscriptions.
LEMMA ListsType ==
  ASSUME NodesType, SubsType
  PROVE  /\ ListNodes \in Seq(Source) /\ ListSubs \in Seq(Sub)
         /\ ToSet(ListNodes) = {nodes[t] : t \in DOMAIN nodes}
         /\ ToSet(ListSubs) = {subs[i] : i \in DOMAIN subs}
<1>1. /\ TagOrder \in Seq(STRING) /\ IdOrder \in Seq(Nat)
      /\ Node \subseteq Source /\ 1 .. MaxSubs \subseteq ToSet(IdOrder)
      /\ \A n \in Node : n.tag \in ToSet(TagOrder)
  BY CatalogAssumption
<1>2. /\ \A t \in DOMAIN nodes : nodes[t] \in Source
      /\ \A i \in DOMAIN subs : subs[i] \in Sub
  BY <1>1 DEF NodesType, SubsType, SubsInv
<1>3. DOMAIN nodes \subseteq ToSet(TagOrder)
  BY <1>1 DEF NodesType
<1>4. DOMAIN subs \subseteq ToSet(IdOrder)
  <2>1. DOMAIN subs \subseteq 1 .. MaxSubs
    BY Bounds DEF SubsType
  <2> QED
    BY <1>1, <2>1
<1> DEFINE N == [i \in DOMAIN Only(TagOrder, DOMAIN nodes) |->
                   nodes[Only(TagOrder, DOMAIN nodes)[i]]]
           S == [i \in DOMAIN Only(IdOrder, DOMAIN subs) |->
                   subs[Only(IdOrder, DOMAIN subs)[i]]]
<1>5. N \in Seq(Source) /\ ToSet(N) = {nodes[t] : t \in DOMAIN nodes}
  <2> DEFINE D == DOMAIN nodes
             there == Only(TagOrder, D)
             list == [i \in DOMAIN there |-> nodes[there[i]]]
  <2>1. /\ TagOrder \in Seq(STRING) /\ D \subseteq ToSet(TagOrder)
        /\ \A x \in D : nodes[x] \in Source
    BY <1>1, <1>2, <1>3
  <2> HIDE DEF D
  <2>2. list \in Seq(Source) /\ ToSet(list) = {nodes[x] : x \in D}
    BY <2>1, InOrder
  <2> QED
    BY <2>2 DEF D
<1>6. S \in Seq(Sub) /\ ToSet(S) = {subs[i] : i \in DOMAIN subs}
  <2> DEFINE D == DOMAIN subs
             there == Only(IdOrder, D)
             list == [i \in DOMAIN there |-> subs[there[i]]]
             K == Nat
  <2>1. IdOrder \in Seq(K)
    BY <1>1
  <2>2. D \subseteq ToSet(IdOrder) /\ \A x \in D : subs[x] \in Sub
    BY <1>2, <1>4
  <2> HIDE DEF D, K
  <2>3. list \in Seq(Sub) /\ ToSet(list) = {subs[x] : x \in D}
    BY <2>1, <2>2, InOrder
  <2> QED
    BY <2>3 DEF D
<1>7. ListNodes = N /\ ListSubs = S
  BY DEF ListNodes, ListSubs, Ids
<1> QED
  BY <1>5, <1>6, <1>7

\* Where a refresh goes on after its last transaction.
LEMMA RefreshedHands ==
  ASSUME pc \in [Proc -> Steps], HandsInv, NEW p \in Proc, NEW failed \in BOOLEAN,
         Refreshed(p, failed)
  PROVE  pc' \in [Proc -> Steps] /\ HandsInv'
<1>1. DOMAIN loc[p] = DOMAIN Blank
  BY DEF HandsInv, Hands
<1>2. CASE Goto(p, "refresh_next", loc[p])
  BY <1>1, <1>2, Went, Free
<1>3. CASE Answer(p)
  BY <1>3, Answered
<1>4. CASE Goto(p, "sync_read", Blank)
  BY <1>4, Went, Free
<1> QED
  BY <1>2, <1>3, <1>4 DEF Refreshed

\* Requests about nodes.
LEMMA NodeHands ==
  ASSUME pc \in [Proc -> Steps], HandsInv, NodesType, NEW p \in Proc,
         SaveNode(p) \/ UpdateNode(p) \/ NodeDelete(p) \/ NodeAdd(p)
  PROVE  pc' \in [Proc -> Steps] /\ HandsInv'
<1>1. CASE SaveNode(p)
  BY <1>1, Went, Free DEF SaveNode
<1>2. CASE UpdateNode(p)
  <2>1. PICK t \in DOMAIN nodes, n \in Node :
          Goto(p, IF n.tag # t THEN "node_delete" ELSE "node_add",
               [Blank EXCEPT !.node = n, !.old = t])
    BY <1>2 DEF UpdateNode
  <2> DEFINE at == IF n.tag # t THEN "node_delete" ELSE "node_add"
             l == [Blank EXCEPT !.node = n, !.old = t]
  <2>2. at \in {"node_delete", "node_add"}
    OBVIOUS
  <2>3. DOMAIN l = DOMAIN Blank /\ l.node = n
    BY DEF Blank
  <2>4. Goto(p, at, l)
    BY <2>1
  <2> HIDE DEF at, l
  <2>5. Hands(at, l) /\ at \in Steps
    BY <2>2, <2>3 DEF Hands, Holding, Steps
  <2> QED
    BY <2>4, <2>5, Went
<1>3. CASE NodeDelete(p)
  <2>1. Answer(p) \/ Goto(p, "node_add", loc[p])
    BY <1>3 DEF NodeDelete
  <2>2. pc[p] = "node_delete" /\ Hands(pc[p], loc[p])
    BY <1>3 DEF NodeDelete, HandsInv
  <2>3. Hands("node_add", loc[p]) /\ "node_add" \in Steps
    BY <2>2 DEF Hands, Holding, Steps
  <2> QED
    BY <2>1, <2>3, Went, Answered
<1>4. CASE NodeAdd(p)
  BY <1>4, Went, Free, Answered DEF NodeAdd
<1> QED
  BY <1>1, <1>2, <1>3, <1>4

\* Refreshes.
LEMMA RefreshHands ==
  ASSUME pc \in [Proc -> Steps], HandsInv, SubsType, NEW p \in Proc,
         \/ Refresh(p) \/ RefreshAll(p) \/ RefreshNext(p) \/ Download(p)
         \/ RefreshSave(p) \/ RefreshError(p)
  PROVE  pc' \in [Proc -> Steps] /\ HandsInv'
<1> DEFINE l == loc[p]
<1>1. DOMAIN l = DOMAIN Blank /\ Hands(pc[p], l)
  BY DEF HandsInv, Hands
<1>2. ASSUME NEW m, DOMAIN m = DOMAIN Blank, m.url \in Url
      PROVE  Hands("download", m) /\ "download" \in Steps
  BY <1>2 DEF Hands, Holding, Steps
<1>3. \A i \in DOMAIN subs : subs[i].url \in Url
  BY DEF SubsType, SubsInv, Sub
<1>4. CASE Refresh(p)
  <2>1. PICK i \in DOMAIN subs :
          Goto(p, "download", [Blank EXCEPT !.id = i, !.url = subs[i].url])
    BY <1>4 DEF Refresh
  <2> DEFINE m == [Blank EXCEPT !.id = i, !.url = subs[i].url]
  <2>2. DOMAIN m = DOMAIN Blank /\ m.url \in Url
    BY <1>3 DEF Blank
  <2>3. Goto(p, "download", m)
    BY <2>1
  <2> HIDE DEF m
  <2> QED
    BY <1>2, <2>2, <2>3, Went
<1>5. CASE RefreshAll(p)
  <2> DEFINE m == [Blank EXCEPT !.all = TRUE, !.todo = Ids]
  <2>1. DOMAIN m = DOMAIN Blank
    OBVIOUS
  <2>2. Goto(p, "refresh_next", m)
    BY <1>5 DEF RefreshAll
  <2> HIDE DEF m
  <2> QED
    BY <2>1, <2>2, Went, Free
<1>6. CASE RefreshNext(p)
  <2>1. CASE l.todo = <<>>
    BY <1>6, <2>1, Went, Free DEF RefreshNext
  <2>2. CASE l.todo # <<>>
    <3> DEFINE i == Head(l.todo)
               rest == [l EXCEPT !.todo = Tail(@), !.id = 0, !.url = "",
                                 !.feed = <<>>]
               m == [rest EXCEPT !.id = i, !.url = subs[i].url]
    <3>1. IF i \in DOMAIN subs THEN Goto(p, "download", m)
          ELSE Goto(p, "refresh_next", rest)
      BY <1>6, <2>2 DEF RefreshNext
    <3>2. DOMAIN rest = DOMAIN Blank
      BY <1>1
    <3> HIDE DEF rest, i
    <3>3. DOMAIN m = DOMAIN Blank /\ m.url = subs[i].url
      BY <3>2 DEF Blank
    <3> HIDE DEF m
    <3>4. CASE i \in DOMAIN subs
      BY <1>2, <1>3, <3>1, <3>3, <3>4, Went
    <3>5. CASE i \notin DOMAIN subs
      BY <3>1, <3>2, <3>5, Went, Free
    <3> QED
      BY <3>4, <3>5
  <2> QED
    BY <2>1, <2>2
<1>7. CASE Download(p)
  <2>1. CASE Goto(p, "refresh_error", loc[p])
    BY <1>1, <2>1, Went, Free
  <2>2. CASE \E f \in Parsed(loc[p].url) :
               Goto(p, "refresh_save", [loc[p] EXCEPT !.feed = f])
    <3>1. PICK f \in Parsed(loc[p].url) :
            Goto(p, "refresh_save", [loc[p] EXCEPT !.feed = f])
      BY <2>2
    <3>2. loc[p].url \in Url
      BY <1>1, <1>7 DEF Download, Hands
    <3>3. f \in Seq(Source)
      <4>1. Feed \in [Url -> Seq(Source)] /\ <<>> \in Seq(Source)
        BY CatalogAssumption, EmptySeq
      <4> QED
        BY <3>2, <4>1 DEF Parsed
    <3> DEFINE m == [loc[p] EXCEPT !.feed = f]
    <3>4. DOMAIN m = DOMAIN Blank /\ m.feed = f
      BY <1>1 DEF Blank
    <3>5. Goto(p, "refresh_save", m)
      BY <3>1
    <3> HIDE DEF m
    <3>6. Hands("refresh_save", m) /\ "refresh_save" \in Steps
      BY <3>3, <3>4 DEF Hands, Holding, Steps
    <3> QED
      BY <3>5, <3>6, Went
  <2> QED
    BY <1>7, <2>1, <2>2 DEF Download
<1>8. CASE RefreshSave(p)
  BY <1>8, RefreshedHands DEF RefreshSave
<1>9. CASE RefreshError(p)
  BY <1>9, RefreshedHands DEF RefreshError
<1> QED
  BY <1>4, <1>5, <1>6, <1>7, <1>8, <1>9

\* What a sync has read so far, and what it makes of it.
LEMMA SyncHands ==
  ASSUME pc \in [Proc -> Steps], HandsInv, NodesType, SubsType, SettingsType,
         Sound(file), NEW p \in Proc,
         \/ SyncToConfig(p) \/ SyncRead(p) \/ SyncSettings(p) \/ SyncSubs(p)
         \/ SyncNodes(p) \/ SyncWrite(p) \/ SyncGroups(p) \/ SyncUndo(p)
  PROVE  pc' \in [Proc -> Steps] /\ HandsInv'
<1> DEFINE l == loc[p]
<1>1. DOMAIN l = DOMAIN Blank /\ Hands(pc[p], l)
  BY DEF HandsInv, Hands
<1>2. CASE SyncToConfig(p)
  BY <1>2, Went, Free DEF SyncToConfig
<1>3. CASE SyncRead(p)
  <2> DEFINE m == [Blank EXCEPT !.file = file]
  <2>1. DOMAIN m = DOMAIN Blank /\ m.file = file
    BY DEF Blank
  <2>2. Answer(p) \/ Goto(p, "sync_settings", m)
    BY <1>3 DEF SyncRead
  <2> HIDE DEF m
  <2>3. Hands("sync_settings", m) /\ "sync_settings" \in Steps
    BY <2>1 DEF Hands, Steps
  <2> QED
    BY <2>2, <2>3, Went, Answered
<1>4. CASE SyncSettings(p)
  <2> DEFINE m == [l EXCEPT !.groups = groups, !.defaults = defaults]
  <2>1. /\ DOMAIN m = DOMAIN Blank /\ m.file = l.file
        /\ m.groups = groups /\ m.defaults = defaults
    BY <1>1 DEF Blank
  <2>2. Goto(p, "sync_subs", m) /\ Sound(l.file)
    BY <1>1, <1>4 DEF SyncSettings, Hands, Holding
  <2>3. defaults \in Test
    BY CatalogAssumption DEF SettingsType
  <2> HIDE DEF m
  <2>4. Hands("sync_subs", m) /\ "sync_subs" \in Steps
    BY <2>1, <2>2, <2>3 DEF Hands, Steps, SettingsType
  <2> QED
    BY <2>2, <2>4, Went
<1>5. CASE SyncSubs(p)
  <2> DEFINE m == [l EXCEPT !.subs = ListSubs]
  <2>1. /\ DOMAIN m = DOMAIN Blank /\ m.file = l.file /\ m.subs = ListSubs
        /\ m.groups = l.groups /\ m.defaults = l.defaults
    BY <1>1 DEF Blank
  <2>2. /\ Goto(p, "sync_nodes", m) /\ Sound(l.file)
        /\ l.groups \subseteq Name /\ l.defaults \in Test
    BY <1>1, <1>5 DEF SyncSubs, Hands, Holding
  <2>3. ListSubs \in Seq(Sub)
    BY ListsType
  <2> HIDE DEF m
  <2>4. Hands("sync_nodes", m) /\ "sync_nodes" \in Steps
    BY <2>1, <2>2, <2>3 DEF Hands, Steps
  <2> QED
    BY <2>2, <2>4, Went
<1>6. CASE SyncNodes(p)
  <2> DEFINE done == Sync(l.file, ListNodes, l.subs, l.groups, l.defaults)
             m == [Blank EXCEPT !.file = l.file, !.out = done]
  <2>1. Goto(p, "sync_write", m)
    BY <1>6 DEF SyncNodes
  <2>2. /\ Sound(l.file) /\ l.groups \subseteq Name /\ l.defaults \in Test
        /\ l.subs \in Seq(Sub)
    BY <1>1, <1>6 DEF SyncNodes, Hands, Holding
  <2>3. ListNodes \in Seq(Source)
    BY ListsType
  <2> HIDE DEF l
  <2>4. Sound(done.file) /\ done.groups \subseteq Name
    BY <2>2, <2>3, SyncSound
  <2> HIDE DEF done
  <2>5. DOMAIN m = DOMAIN Blank /\ m.file = l.file /\ m.out = done
    BY DEF Blank
  <2> HIDE DEF m
  <2>6. Hands("sync_write", m) /\ "sync_write" \in Steps
    BY <2>2, <2>4, <2>5 DEF Hands, Steps
  <2> QED
    BY <2>1, <2>6, Went
<1>7. CASE SyncWrite(p)
  <2>1. Answer(p) \/ Goto(p, "sync_groups", l)
    BY <1>7 DEF SyncWrite
  <2>2. pc[p] = "sync_write"
    BY <1>7 DEF SyncWrite
  <2>3. Hands("sync_groups", l) /\ "sync_groups" \in Steps
    BY <1>1, <2>2 DEF Hands, Holding, Steps
  <2> QED
    BY <2>1, <2>3, Went, Answered
<1>8. CASE SyncGroups(p)
  <2>1. Answer(p) \/ Goto(p, "sync_undo", l)
    BY <1>8 DEF SyncGroups
  <2>2. pc[p] = "sync_groups"
    BY <1>8 DEF SyncGroups
  <2>3. Hands("sync_undo", l) /\ "sync_undo" \in Steps
    BY <1>1, <2>2 DEF Hands, Holding, Steps
  <2> QED
    BY <2>1, <2>3, Went, Answered
<1>9. CASE SyncUndo(p)
  BY <1>9, Answered DEF SyncUndo
<1> QED
  BY <1>2, <1>3, <1>4, <1>5, <1>6, <1>7, <1>8, <1>9

LEMMA NextHands ==
  ASSUME pc \in [Proc -> Steps], HandsInv, NodesType, SubsType, SettingsType,
         Sound(file), [Next]_vars
  PROVE  pc' \in [Proc -> Steps] /\ HandsInv'
<1>1. CASE pc' = pc /\ loc' = loc
  BY <1>1 DEF HandsInv
<1>2. CASE CreateSub \/ UpdateSub \/ DeleteSub \/ DeleteNode \/ SetDefaults
           \/ SaveConfig \/ Finished \/ UNCHANGED vars
  BY <1>1, <1>2 DEF CreateSub, UpdateSub, DeleteSub, DeleteNode, SetDefaults,
              SaveConfig, Finished, vars
<1>3. CASE Crash
  <2>1. pc' = [p \in Proc |-> "idle"] /\ loc' = [p \in Proc |-> Blank]
    BY <1>3 DEF Crash
  <2>2. Hands("idle", Blank) /\ "idle" \in Steps
    BY Free
  <2>3. \A p \in Proc : Hands(pc'[p], loc'[p])
    BY <2>1, <2>2
  <2> QED
    BY <2>1, <2>2, <2>3 DEF HandsInv
<1> QED
  BY <1>2, <1>3, NodeHands, RefreshHands, SyncHands DEF Next

\* The bounds hold.
LEMMA NextSpent ==
  ASSUME spent \in Spending, [Next]_vars
  PROVE  spent' \in Spending
<1>1. CASE spent' = spent
  BY <1>1
<1>2. CASE Request
  BY <1>2, Bounds DEF Request, Spending
<1>3. CASE \E failed \in BOOLEAN : MayFail(failed)
  BY <1>3, Bounds DEF MayFail, Spending
<1>4. CASE Crash
  BY <1>4, Bounds DEF Crash, Spending
<1>5. CASE CreateSub \/ UpdateSub \/ DeleteSub \/ DeleteNode \/ SetDefaults
           \/ SaveConfig
  BY <1>2, <1>5 DEF CreateSub, UpdateSub, DeleteSub, DeleteNode, SetDefaults,
              SaveConfig
<1>6. ASSUME NEW p \in Proc,
             SaveNode(p) \/ UpdateNode(p) \/ Refresh(p) \/ RefreshAll(p)
             \/ SyncToConfig(p)
      PROVE  Request
  BY <1>6 DEF SaveNode, UpdateNode, Refresh, RefreshAll, SyncToConfig
<1>7. ASSUME NEW p \in Proc,
             \/ NodeDelete(p) \/ NodeAdd(p) \/ RefreshSave(p) \/ RefreshError(p)
             \/ SyncRead(p) \/ SyncWrite(p) \/ SyncGroups(p) \/ SyncUndo(p)
      PROVE  \E failed \in BOOLEAN : MayFail(failed)
  BY <1>7 DEF NodeDelete, NodeAdd, RefreshSave, RefreshError, SyncRead, SyncWrite,
              SyncGroups, SyncUndo
<1>8. ASSUME NEW p \in Proc,
             RefreshNext(p) \/ Download(p) \/ SyncSettings(p) \/ SyncSubs(p)
             \/ SyncNodes(p)
      PROVE  spent' = spent
  BY <1>8 DEF RefreshNext, Download, SyncSettings, SyncSubs, SyncNodes
<1>9. CASE Finished \/ UNCHANGED vars
  BY <1>1, <1>9 DEF Finished, vars
<1> QED
  BY <1>1, <1>2, <1>3, <1>4, <1>5, <1>6, <1>7, <1>8, <1>9 DEF Next

----------------------------------------------------------------------------
(* The inductive invariant. *)

\* IInv in the parts that the lemmas are about.
LEMMA Parts ==
  IInv <=> /\ SubsType /\ NodesType /\ SettingsType /\ BucketInv
           /\ Sound(file) /\ HandsInv
           /\ pc \in [Proc -> Steps] /\ spent \in Spending
<1>1. ASSUME SubsInv PROVE \A i \in DOMAIN subs : /\ subs[i].name \in Name
                                                  /\ subs[i].url \in Url
                                                  /\ subs[i].test \in Override
  BY <1>1 DEF SubsInv, Sub
<1>2. ASSUME Sound(file) PROVE file \in [outbounds : Seq(Outbound), final : STRING]
  BY <1>2 DEF Sound, Orderly
<1> QED
  BY <1>1, <1>2 DEF IInv, TypeOK, SubsType, NodesType, SettingsType

LEMMA InitInv == Init => IInv
<1> SUFFICES ASSUME Init PROVE IInv
  OBVIOUS
<1>1. NodesType
  BY DEF Init, Empty, NodesType
<1>2. SettingsType /\ Sound(file)
  BY InitSound DEF SettingsType, Init
<1>3. HandsInv /\ pc \in [Proc -> Steps]
  <2>1. Hands("idle", Blank) /\ "idle" \in Steps
    BY Free
  <2>2. pc = [p \in Proc |-> "idle"] /\ loc = [p \in Proc |-> Blank]
    BY DEF Init
  <2> QED
    BY <2>1, <2>2 DEF HandsInv
<1>4. spent \in Spending
  BY Bounds DEF Init, Spending
<1> QED
  BY <1>1, <1>2, <1>3, <1>4, InitSubs, InitBucket, Parts

LEMMA NextInv == IInv /\ [Next]_vars => IInv'
<1> SUFFICES ASSUME IInv, [Next]_vars PROVE IInv'
  OBVIOUS
<1>1. /\ SubsType /\ NodesType /\ SettingsType /\ BucketInv
      /\ Sound(file) /\ HandsInv
      /\ pc \in [Proc -> Steps] /\ spent \in Spending
  BY Parts
<1>2. SubsType' /\ NodesType' /\ SettingsType' /\ BucketInv'
  BY <1>1, NextSubs, NextNodes, NextSettings, NextBucket
<1>3. Sound(file') /\ HandsInv' /\ pc' \in [Proc -> Steps] /\ spent' \in Spending
  BY <1>1, NextFile, NextHands, NextSpent
<1>4. TypeOK'
  <2>1. \A i \in DOMAIN subs' : /\ subs'[i].name \in Name /\ subs'[i].url \in Url
                                /\ subs'[i].test \in Override
    BY <1>2 DEF SubsType, SubsInv, Sub
  <2>2. file' \in [outbounds : Seq(Outbound), final : STRING]
    BY <1>3 DEF Sound, Orderly
  <2> QED
    BY <1>2, <1>3, <2>1, <2>2 DEF TypeOK, SubsType, NodesType, SettingsType
<1> QED
  BY <1>2, <1>3, <1>4 DEF IInv, SubsType

\* The buckets, the settings and the file are sound in every reachable state,
\* and so is whatever a request that was overtaken has still in its hands.
THEOREM CatalogCorrect == Spec => []IInv
<1>1. Init => IInv
  BY InitInv
<1>2. IInv /\ [Next]_vars => IInv'
  BY NextInv
<1> QED
  BY <1>1, <1>2, PTL DEF Spec

\* Types, with ids out of the bucket's sequence (internal/core/subscription.go)
\* and nodes under their own tags (internal/core/nodes.go).
THEOREM CatalogTyped == Spec => []TypeOK
<1>1. IInv => TypeOK
  BY DEF IInv
<1> QED
  BY <1>1, CatalogCorrect, PTL

\* What the proxy selector leads to is always in the file
\* (internal/api/nodes_sync.go): no interleaving of syncs, refreshes, edits,
\* failed writes and crashes leaves a member behind that is not there.
THEOREM ProxyReachable == Spec => []ProxyResolves
<1>1. IInv => ProxyResolves
  BY DEF IInv, Sound, ProxyResolves
<1> QED
  BY <1>1, CatalogCorrect, PTL

----------------------------------------------------------------------------
(* What a sync that ran now would do. *)

LEMMA NowInput ==
  ASSUME IInv
  PROVE  Input(file, ListNodes, ListSubs, groups, defaults)
<1>1. ListNodes \in Seq(Source) /\ ListSubs \in Seq(Sub)
  BY Parts, ListsType
<1>2. defaults \in Test
  BY CatalogAssumption DEF IInv, TypeOK
<1> QED
  BY <1>1, <1>2 DEF Input, IInv, TypeOK, Sound

\* The user's outbounds and the user's fields.
LEMMA KeepsUserPart == IInv => UserPartKept
<1> SUFFICES ASSUME IInv PROVE UserPartKept
  OBVIOUS
<1> DEFINE ns == ListNodes
           ss == ListSubs
           src == Sources(ns, ss)
           g == Grouped(ss)
           out == NewOutbounds(file, ns, ss, groups, defaults)
           new == Sync(file, ns, ss, groups, defaults).file
<1>1. Input(file, ns, ss, groups, defaults)
  BY NowInput
<1>2. /\ ns \in Seq(Source) /\ ss \in Seq(Sub)
      /\ ToSet(ns) = {nodes[t] : t \in DOMAIN nodes}
      /\ ToSet(ss) = {subs[i] : i \in DOMAIN subs}
  BY Parts, ListsType
<1>3. /\ new.outbounds = out /\ out \in Seq(Outbound)
      /\ file.outbounds \in Seq(Outbound)
  BY <1>1, NewThere, NewElements DEF Input, Orderly
<1>4. ASSUME NEW f, f.outbounds \in Seq(Outbound)
      PROVE  ByHand(f) = Only(f.outbounds, Hand)
  <2> DEFINE l == f.outbounds
             H == {o \in ToSet(l) : o.tag \in UserTags}
  <2>1. ToSet(l) \subseteq Outbound
    BY <1>4, ToSetType
  <2>2. \A o \in ToSet(l) : o \in H <=> o \in Hand
    BY <2>1 DEF Hand
  <2>3. ByHand(f) = Only(l, H) /\ l \in Seq(Outbound)
    BY <1>4 DEF ByHand
  <2> HIDE DEF l, H
  <2>4. Only(l, H) = Only(l, Hand)
    BY <2>2, <2>3, OnlySame
  <2> QED
    BY <2>3, <2>4 DEF l
<1>5. Only(out, Hand) = Only(file.outbounds, Foreign)
  BY <1>1, SyncKeepsHand
<1>14. OfForeignType(file) = Only(file.outbounds, Foreign)
  <2> DEFINE l == file.outbounds
             H == {o \in ToSet(l) : o.tag \in UserTags /\ o.type \notin ReplacedTypes}
  <2>1. ToSet(l) \subseteq Outbound
    BY <1>3, ToSetType
  <2>2. \A o \in ToSet(l) : o \in H <=> o \in Foreign
    BY <2>1 DEF Hand, Foreign
  <2>3. OfForeignType(file) = Only(l, H) /\ l \in Seq(Outbound)
    BY <1>3 DEF OfForeignType
  <2> HIDE DEF l, H
  <2>4. Only(l, H) = Only(l, Foreign)
    BY <2>2, <2>3, OnlySame
  <2> QED
    BY <2>3, <2>4 DEF l
<1> HIDE DEF new, out
<1>6. ByHand(new) = OfForeignType(file)
  BY <1>3, <1>4, <1>5, <1>14
<1>7. ASSUME NEW k \in 1 .. Len(src)
      PROVE  Existing(out, src[k].tag).extra = Existing(file.outbounds, src[k].tag).extra
  BY <1>1, BuiltFound DEF out
<1>8. ASSUME NEW k \in 1 .. Len(g)
      PROVE  Existing(out, g[k].name).extra = Existing(file.outbounds, g[k].name).extra
  BY <1>1, GroupFound DEF out
<1>9. /\ ToSet(src) = {src[k] : k \in 1 .. Len(src)}
      /\ ToSet(ns) \subseteq ToSet(src)
      /\ \A i \in 1 .. Len(ss) : ToSet(ss[i].outbounds) \subseteq ToSet(src)
      /\ ToSet(ss) = {ss[i] : i \in 1 .. Len(ss)}
  <2>1. src \in Seq(Source)
    BY <1>2, SourcesType
  <2>2. /\ ToSet(ns) \subseteq ToSet(src)
        /\ \A i \in 1 .. Len(ss) : ToSet(ss[i].outbounds) \subseteq ToSet(src)
    BY <1>2, SourcesType
  <2> HIDE DEF src, ns, ss
  <2> QED
    BY <1>2, <2>1, <2>2, ToSetType
<1>10. ASSUME NEW o \in ToSet(src)
       PROVE  Existing(out, o.tag).extra = Existing(file.outbounds, o.tag).extra
  BY <1>7, <1>9
<1>11. ASSUME NEW t \in BuiltUpon
       PROVE  Existing(out, t).extra = Existing(file.outbounds, t).extra
  <2>1. CASE t \in DOMAIN nodes
    <3>1. nodes[t] \in ToSet(src) /\ nodes[t].tag = t
      BY <1>2, <1>9, <2>1 DEF IInv, TypeOK
    <3> QED
      BY <1>10, <3>1
  <2>2. CASE \E i \in DOMAIN subs : t \in ToSet(SubscriptionTags(subs[i]))
    <3>1. PICK i \in DOMAIN subs : t \in ToSet(SubscriptionTags(subs[i]))
      BY <2>2
    <3>2. subs[i] \in Sub
      BY DEF IInv, SubsInv
    <3>3. PICK o \in ToSet(subs[i].outbounds) : o.tag = t
      BY <3>1, <3>2, SubscriptionTagsType
    <3>4. PICK j \in 1 .. Len(ss) : subs[i] = ss[j]
      BY <1>2, <1>9
    <3>5. o \in ToSet(src)
      BY <1>9, <3>3, <3>4
    <3> QED
      BY <1>10, <3>3, <3>5
  <2>3. CASE t \in SyncNow(file).groups
    <3>1. SyncNow(file).groups = ToSet(GroupNames(ss))
      BY <1>1, SyncForm DEF SyncNow
    <3>2. PICK k \in 1 .. Len(g) : t = g[k].name
      BY <1>2, <2>3, <3>1, NamesType
    <3> QED
      BY <1>8, <3>2
  <2> QED
    BY <2>1, <2>2, <2>3 DEF BuiltUpon
<1>12. \A t \in BuiltUpon : Find(new, t).extra = Find(file, t).extra
  BY <1>3, <1>11 DEF Find
<1>13. SyncNow(file).file = new
  BY DEF SyncNow, new
<1> HIDE DEF Find
<1> QED
  BY <1>6, <1>12, <1>13 DEF UserPartKept

LEMMA StaysTheSame == IInv => SyncIdempotent
<1> SUFFICES ASSUME IInv, OnlyManaged PROVE
      LET once == SyncNow(file)
      IN  Sync(once.file, ListNodes, ListSubs, once.groups, defaults) = once
  BY DEF SyncIdempotent
<1> DEFINE ns == ListNodes
           ss == ListSubs
<1>1. Input(file, ns, ss, groups, defaults)
  BY NowInput
<1>2. /\ ns \in Seq(Source) /\ ss \in Seq(Sub)
      /\ ToSet(ns) = {nodes[t] : t \in DOMAIN nodes}
      /\ ToSet(ss) = {subs[i] : i \in DOMAIN subs}
  BY Parts, ListsType
<1>3. ns \in Seq(ManagedSource)
  <2>1. ToSet(ns) \subseteq Source
    BY <1>2, ToSetType
  <2>2. ToSet(ns) \subseteq ManagedSource
    BY <1>2, <2>1 DEF OnlyManaged, ManagedSource
  <2> HIDE DEF ns
  <2> QED
    BY <1>2, <2>2, Narrow
<1>4. ASSUME NEW i \in 1 .. Len(ss) PROVE ss[i].outbounds \in Seq(ManagedSource)
  <2>1. PICK j \in DOMAIN subs : ss[i] = subs[j]
    <3>1. ss[i] \in ToSet(ss)
      <4> HIDE DEF ss
      <4>1. ToSet(ss) = {ss[j] : j \in 1 .. Len(ss)}
        BY <1>2, ToSetType
      <4> QED
        BY <4>1
    <3> QED
      BY <1>2, <3>1
  <2>2. ss[i].outbounds \in Seq(Source)
    BY <2>1 DEF IInv, SubsInv, Sub
  <2>3. ToSet(ss[i].outbounds) \subseteq Source
    BY <2>2, ToSetType
  <2>4. ToSet(ss[i].outbounds) \subseteq ManagedSource
    BY <2>1, <2>3 DEF OnlyManaged, ManagedSource
  <2> HIDE DEF ss
  <2> QED
    BY <2>2, <2>4, Narrow
<1>5. Sources(ns, ss) \in Seq(ManagedSource)
  BY <1>2, <1>3, <1>4, ManagedSources
<1> QED
  BY <1>1, <1>5, SyncTwice DEF SyncNow

\* In every reachable state a sync (internal/api/nodes_sync.go) keeps of the
\* outbounds that the user wrote by hand exactly those of the types it does not
\* replace, as they are and in their order, and the fields the user has added
\* to the nodes and the groups that it builds anew; not those added to proxy
\* and direct.
THEOREM UserPartSafe == Spec => []UserPartKept
BY KeepsUserPart, CatalogCorrect, PTL

\* In every reachable state a second sync would change nothing that the first
\* one has made, when all nodes are of the managed types.
THEOREM SyncSettles == Spec => []SyncIdempotent
BY StaysTheSame, CatalogCorrect, PTL
=============================================================================
