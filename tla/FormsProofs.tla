---------------------------- MODULE FormsProofs ----------------------------
(***************************************************************************)
(* Proofs about the forms: what pruning does to an object of any size,     *)
(* whatever table of fields and conditions it is given; that every edit    *)
(* leaves an object that the tables know; that what Save stores could be   *)
(* saved again; that another type of an outbound drops the secrets; and    *)
(* that an entry holds no more than its type, action and transport have.   *)
(***************************************************************************)
EXTENDS EntryForms, FiniteSetTheorems, SequenceTheorems, WellFoundedInduction,
        TLAPS

----------------------------------------------------------------------------
(* Paths. *)

\* Induction over the natural numbers, with a set for the hypothesis.
LEMMA SetInduction ==
  ASSUME NEW T, 0 \in T, \A n \in Nat : n \in T => n + 1 \in T
  PROVE  \A n \in Nat : n \in T
<1> DEFINE Bad == {n \in Nat : n \notin T}
<1>1. SUFFICES ASSUME Bad # {} PROVE FALSE
  OBVIOUS
<1>2. PICK m \in Bad : \A k \in Bad : ~(<<k, m>> \in OpToRel(<, Nat))
  <2>1. Bad \subseteq Nat
    OBVIOUS
  <2> QED
    BY <1>1, <2>1, NatLessThanWellFounded, WFMin
<1>3. \A k \in Bad : ~(k < m)
  BY <1>2 DEF OpToRel
<1>4. m # 0 /\ m \in Nat
  OBVIOUS
<1>5. m - 1 \in Nat /\ m - 1 < m /\ (m - 1) + 1 = m
  BY <1>4
<1> QED
  BY <1>3, <1>5

\* A path is a sequence of its keys.
LEMMA PathIsSeq ==
  ASSUME NEW p, IsPath(p)
  PROVE  p \in Seq({p[i] : i \in 1 .. Len(p)})
<1> DEFINE K == {p[i] : i \in 1 .. Len(p)}
           n == Len(p)
<1>1. n \in Nat /\ p \in [1 .. n -> K]
  BY DEF IsPath
<1> HIDE DEF K, n
<1> QED
  BY <1>1 DEF K, n

\* The prefixes of a path are paths before it.
LEMMA PrefixOfPath ==
  ASSUME NEW d, IsPath(d), NEW p \in Prefixes(d)
  PROVE  IsPrefix(p, d)
<1> DEFINE K == {d[i] : i \in 1 .. Len(d)}
<1>1. d \in Seq(K)
  BY PathIsSeq
<1> HIDE DEF K
<1>2. PICK l \in 0 .. Len(d) : p = SubSeq(d, 1, l)
  BY DEF Prefixes
<1>3. Len(d) \in Nat
  BY <1>1
<1>4. p \in Seq(K) /\ Len(p) = l /\ \A i \in 1 .. l : p[i] = d[i]
  BY <1>1, <1>2, <1>3, SubSeqProperties
<1>5. SubSeq(p, 1, Len(p)) = SubSeq(d, 1, Len(p))
  BY <1>1, <1>3, <1>4, SubSeqProperties, SeqEqual
<1> QED
  BY <1>3, <1>4, <1>5 DEF IsPrefix

\* Paths that start alike have the same first key.
LEMMA FirstKey ==
  ASSUME NEW p, IsPath(p), Len(p) # 0, NEW d, IsPath(d), IsPrefix(p, d)
  PROVE  Len(d) # 0 /\ d[1] = p[1]
<1>1. p \in Seq({p[i] : i \in 1 .. Len(p)}) /\ d \in Seq({d[i] : i \in 1 .. Len(d)})
  BY PathIsSeq
<1>2. /\ Len(p) \in Nat /\ Len(d) \in Nat /\ 1 <= Len(p) /\ Len(p) <= Len(d)
      /\ SubSeq(p, 1, Len(p)) = SubSeq(d, 1, Len(p))
  BY DEF IsPrefix, IsPath
<1>3. SubSeq(p, 1, Len(p))[1] = p[1] /\ SubSeq(d, 1, Len(p))[1] = d[1]
  BY <1>1, <1>2, SubSeqProperties
<1> QED
  BY <1>2, <1>3

\* A part of an object is one, and holds nothing else at any path.
LEMMA SubObject ==
  ASSUME NEW o, IsObject(o),
         NEW q, DOMAIN q \subseteq DOMAIN o, q = [d \in DOMAIN q |-> o[d]]
  PROVE  /\ IsObject(q)
         /\ \A d \in DOMAIN q : q[d] = o[d]
         /\ \A p : getPath(q, p) \in {getPath(o, p), "undefined"}
<1>1. \A d \in DOMAIN q : q[d] = o[d]
  OBVIOUS
<1>2. IsFiniteSet(DOMAIN q)
  BY FS_Subset DEF IsObject
<1>3. q = [d \in DOMAIN q |-> q[d]]
  BY <1>1
<1>4. IsObject(q)
  BY <1>1, <1>2, <1>3 DEF IsObject
<1>5. ASSUME NEW p PROVE getPath(q, p) \in {getPath(o, p), "undefined"}
  <2>1. CASE p \in DOMAIN q
    BY <1>1, <2>1 DEF getPath
  <2>2. CASE p \notin DOMAIN q
    <3>1. ASSUME NEW d \in DOMAIN q, IsStrictPrefix(p, d)
          PROVE  getPath(o, p) = "object"
      BY <3>1 DEF IsObject, getPath
    <3> QED
      BY <2>2, <3>1 DEF getPath
  <2> QED
    BY <2>1, <2>2
<1> QED
  BY <1>1, <1>4, <1>5

----------------------------------------------------------------------------
(* One round of pruning. *)

\* What is left of the leaves L of o after a round, and when it is the last.
Kept(o, L) == Restrict(o, L)
Hides(o, fields, L) == HiddenButSet(Kept(o, L), fields)
Rest(o, fields, L) == DOMAIN Without(Kept(o, L), PathsOf(Hides(o, fields, L)))

\* The leaves that are kept have the values they had.
LEMMA KeptLeaves ==
  ASSUME NEW o, NEW L
  PROVE  DOMAIN Kept(o, L) = L /\ \A d \in L : Kept(o, L)[d] = o[d]
BY DEF Kept, Restrict

\* A round that finds a hidden field removes something.
LEMMA RoundRemoves ==
  ASSUME NEW o, IsObject(o), NEW fields, NEW L \in SUBSET DOMAIN o
  PROVE  /\ Rest(o, fields, L) \subseteq L
         /\ Hides(o, fields, L) # {} => Rest(o, fields, L) # L
<1>1. DOMAIN Kept(o, L) = L
  BY KeptLeaves
<1>2. Rest(o, fields, L) =
        {d \in L : \A p \in PathsOf(Hides(o, fields, L)) :
                      ~IsPrefix(p, d) /\ ~IsStrictPrefix(d, p)}
  BY <1>1 DEF Rest, Without, Restrict
<1>3. ASSUME NEW f \in Hides(o, fields, L)
      PROVE  \E d \in L : d \notin Rest(o, fields, L)
  <2>1. f.path \in PathsIn(Kept(o, L))
    BY <1>3 DEF Hides, HiddenButSet
  <2>2. PICK d \in L : f.path \in Prefixes(d)
    BY <1>1, <2>1 DEF PathsIn
  <2>3. IsPrefix(f.path, d)
    BY <2>2, PrefixOfPath DEF IsObject
  <2> QED
    BY <1>2, <1>3, <2>3 DEF PathsOf
<1> QED
  BY <1>2, <1>3

----------------------------------------------------------------------------
(* The rounds.  g is the function that pruneInvisibleFields declares.      *)

PruneFcn(o, fields, g) ==
    g = [L \in SUBSET DOMAIN o |->
           IF Hides(o, fields, L) = {} THEN Kept(o, L)
           ELSE g[Rest(o, fields, L)]]

\* The same for sets of at most n leaves.
Small(o, n) == {L \in SUBSET DOMAIN o : Cardinality(L) <= n}
SmallFcn(o, fields, n, g) ==
    g = [L \in Small(o, n) |->
           IF Hides(o, fields, L) = {} THEN Kept(o, L)
           ELSE g[Rest(o, fields, L)]]

\* The leaves that a round leaves are fewer.
LEMMA RoundSmaller ==
  ASSUME NEW o, IsObject(o), NEW fields, NEW n \in Nat,
         NEW L \in Small(o, n), Hides(o, fields, L) # {}
  PROVE  /\ n # 0
         /\ Rest(o, fields, L) \in Small(o, n - 1)
<1>1. L \in SUBSET DOMAIN o /\ Cardinality(L) <= n
  BY DEF Small
<1>2. IsFiniteSet(L)
  BY <1>1, FS_Subset DEF IsObject
<1> DEFINE R == Rest(o, fields, L)
<1>3. R \subseteq L /\ R # L
  BY <1>1, RoundRemoves
<1> HIDE DEF R
<1>4. IsFiniteSet(R) /\ Cardinality(R) <= Cardinality(L)
      /\ Cardinality(R) # Cardinality(L)
  BY <1>2, <1>3, FS_Subset
<1>5. Cardinality(R) \in Nat /\ Cardinality(L) \in Nat
  BY <1>2, <1>4, FS_CardinalityType
<1>6. n # 0 /\ Cardinality(R) <= n - 1
  BY <1>1, <1>4, <1>5
<1> QED
  BY <1>1, <1>3, <1>6 DEF Small, R

\* The function of the rounds exists on the sets of at most n leaves, by
\* induction over n.
LEMMA SmallFcnExists ==
  ASSUME NEW o, IsObject(o), NEW fields
  PROVE  \A n \in Nat : \E g : SmallFcn(o, fields, n, g)
<1> DEFINE T == {n \in Nat : \E g : SmallFcn(o, fields, n, g)}
<1>1. 0 \in T
  <2> DEFINE g == [L \in Small(o, 0) |-> Kept(o, L)]
  <2>1. \A L \in Small(o, 0) : Hides(o, fields, L) = {}
    BY RoundSmaller
  <2>2. SmallFcn(o, fields, 0, g)
    BY <2>1 DEF SmallFcn
  <2> QED
    BY <2>2
<1>2. ASSUME NEW n \in Nat, n \in T PROVE n + 1 \in T
  <2>1. PICK h : SmallFcn(o, fields, n, h)
    BY <1>2
  <2> DEFINE value(L, f) == IF Hides(o, fields, L) = {} THEN Kept(o, L)
                            ELSE f[Rest(o, fields, L)]
             g == [L \in Small(o, n + 1) |-> value(L, h)]
  <2>2. \A L \in Small(o, n) : h[L] = value(L, h)
    BY <2>1 DEF SmallFcn
  <2>3. Small(o, n) \subseteq Small(o, n + 1)
    <3> SUFFICES ASSUME NEW L \in Small(o, n) PROVE L \in Small(o, n + 1)
      OBVIOUS
    <3>1. IsFiniteSet(L)
      BY FS_Subset DEF IsObject, Small
    <3>2. Cardinality(L) \in Nat
      BY <3>1, FS_CardinalityType
    <3> QED
      BY <3>2 DEF Small
  <2>4. \A L \in Small(o, n) : g[L] = h[L]
    BY <2>2, <2>3
  <2>5. ASSUME NEW L \in Small(o, n + 1) PROVE g[L] = value(L, g)
    <3>1. CASE Hides(o, fields, L) = {}
      BY <3>1
    <3>2. CASE Hides(o, fields, L) # {}
      <4>1. Rest(o, fields, L) \in Small(o, (n + 1) - 1)
        BY <3>2, RoundSmaller
      <4>2. (n + 1) - 1 = n
        OBVIOUS
      <4>3. g[Rest(o, fields, L)] = h[Rest(o, fields, L)]
        BY <2>4, <4>1, <4>2
      <4> QED
        BY <3>2, <4>3
    <3> QED
      BY <3>1, <3>2
  <2>6. g = [L \in Small(o, n + 1) |-> value(L, g)]
    BY <2>5
  <2>7. SmallFcn(o, fields, n + 1, g)
    BY <2>6 DEF SmallFcn
  <2> QED
    BY <2>7
<1> HIDE DEF T
<1>3. \A n \in Nat : n \in T
  BY <1>1, <1>2, SetInduction
<1> QED
  BY <1>3 DEF T

\* So it exists on all sets of leaves of an object.
LEMMA PruneFcnExists ==
  ASSUME NEW o, IsObject(o), NEW fields
  PROVE  \E g : PruneFcn(o, fields, g)
<1> DEFINE n == Cardinality(DOMAIN o)
<1>1. n \in Nat
  BY FS_CardinalityType DEF IsObject
<1>2. Small(o, n) = SUBSET DOMAIN o
  <2>1. \A L \in SUBSET DOMAIN o : Cardinality(L) <= n
    BY FS_Subset DEF IsObject
  <2> QED
    BY <2>1 DEF Small
<1> HIDE DEF n
<1>3. PICK g : SmallFcn(o, fields, n, g)
  BY <1>1, SmallFcnExists
<1>4. PruneFcn(o, fields, g)
  BY <1>2, <1>3 DEF SmallFcn, PruneFcn
<1> QED
  BY <1>4

\* What pruneInvisibleFields chooses satisfies its own equation.
LEMMA PruneUnfold ==
  ASSUME NEW o, IsObject(o), NEW fields
  PROVE  \E g : /\ PruneFcn(o, fields, g)
                /\ pruneInvisibleFields(o, fields) = g[DOMAIN o]
<1> DEFINE h == CHOOSE g : PruneFcn(o, fields, g)
<1>1. PruneFcn(o, fields, h)
  BY PruneFcnExists
<1>2. pruneInvisibleFields(o, fields) = h[DOMAIN o]
  BY DEF pruneInvisibleFields, PruneFcn, Hides, Rest, Kept
<1> QED
  BY <1>1, <1>2

\* What a round finds in the leaves L, it also finds in them as an object.
LEMMA PrunedIs ==
  ASSUME NEW o, IsObject(o), NEW fields
  PROVE  LET pruned == pruneInvisibleFields(o, fields) IN
         /\ DOMAIN pruned \subseteq DOMAIN o
         /\ pruned = Kept(o, DOMAIN pruned)
         /\ HiddenButSet(pruned, fields) = {}
<1>1. PICK g : PruneFcn(o, fields, g)
               /\ pruneInvisibleFields(o, fields) = g[DOMAIN o]
  BY PruneUnfold
<1> DEFINE good(L) == /\ DOMAIN g[L] \subseteq L
                      /\ g[L] = Kept(o, DOMAIN g[L])
                      /\ HiddenButSet(g[L], fields) = {}
           Bad == {L \in SUBSET DOMAIN o : ~good(L)}
<1>2. ASSUME NEW L \in SUBSET DOMAIN o, Hides(o, fields, L) = {}
      PROVE  good(L)
  <2>1. g[L] = Kept(o, L)
    BY <1>1, <1>2 DEF PruneFcn
  <2>2. DOMAIN g[L] = L
    BY <2>1, KeptLeaves
  <2> QED
    BY <1>2, <2>1, <2>2 DEF Hides
<1>3. ASSUME NEW L \in SUBSET DOMAIN o, Hides(o, fields, L) # {},
             good(Rest(o, fields, L))
      PROVE  good(L)
  <2>1. g[L] = g[Rest(o, fields, L)]
    BY <1>1, <1>3 DEF PruneFcn
  <2>2. Rest(o, fields, L) \subseteq L
    BY RoundRemoves
  <2> QED
    BY <1>3, <2>1, <2>2
<1> HIDE DEF good
<1>4. Bad = {}
  <2> SUFFICES ASSUME Bad # {} PROVE FALSE
    OBVIOUS
  <2>1. Bad \subseteq FiniteSubsetsOf(DOMAIN o)
    BY FS_Subset DEF FiniteSubsetsOf, IsObject
  <2> HIDE DEF Bad
  <2>2. PICK L \in Bad :
          \A M \in Bad : ~(<<M, L>> \in StrictSubsetOrdering(DOMAIN o))
    BY <2>1, FS_StrictSubsetOrderingWellFounded, WFMin
  <2> USE DEF Bad
  <2>3. Hides(o, fields, L) # {} /\ ~good(Rest(o, fields, L))
    BY <1>2, <1>3
  <2>4. Rest(o, fields, L) \subseteq L /\ Rest(o, fields, L) # L
    BY <2>3, RoundRemoves
  <2> QED
    BY <2>2, <2>3, <2>4 DEF StrictSubsetOrdering
<1>5. good(DOMAIN o)
  BY <1>4
<1> QED
  BY <1>1, <1>5 DEF good

\* Pruning takes nothing that no field it removes covers, and leaves nothing
\* set that the table hides in what it leaves: one pass of the form is
\* enough, whatever chain of conditions the fields have
\* (pruneInvisiblePolicyFields, pruneInvisibleProxyFields).
THEOREM PruneSettles ==
  ASSUME NEW o, IsObject(o), NEW fields
  PROVE  LET pruned == pruneInvisibleFields(o, fields) IN
         /\ HiddenButSet(pruned, fields) = {}
         /\ IsObject(pruned)
         /\ DOMAIN pruned \subseteq DOMAIN o
         /\ \A d \in DOMAIN pruned : pruned[d] = o[d]
         /\ \A p : getPath(pruned, p) \in {getPath(o, p), "undefined"}
<1> DEFINE pruned == pruneInvisibleFields(o, fields)
           D == DOMAIN pruned
<1>1. D \subseteq DOMAIN o /\ pruned = Kept(o, D)
      /\ HiddenButSet(pruned, fields) = {}
  BY PrunedIs
<1> HIDE DEF pruned
<1>2. pruned = [d \in D |-> o[d]]
  BY <1>1 DEF Kept, Restrict
<1>3. /\ IsObject(pruned) /\ \A d \in D : pruned[d] = o[d]
      /\ \A p : getPath(pruned, p) \in {getPath(o, p), "undefined"}
  BY <1>1, <1>2, SubObject
<1> QED
  BY <1>1, <1>3 DEF pruned

\* A pruned object is left as it is: Save may prune what an edit has pruned.
THEOREM PruneTwice ==
  ASSUME NEW o, IsObject(o), NEW fields
  PROVE  LET pruned == pruneInvisibleFields(o, fields) IN
         pruneInvisibleFields(pruned, fields) = pruned
<1> DEFINE pruned == pruneInvisibleFields(o, fields)
<1>1. IsObject(pruned) /\ HiddenButSet(pruned, fields) = {}
  BY PruneSettles
<1> HIDE DEF pruned
<1>2. PICK g : PruneFcn(pruned, fields, g)
               /\ pruneInvisibleFields(pruned, fields) = g[DOMAIN pruned]
  BY <1>1, PruneUnfold
<1>3. Kept(pruned, DOMAIN pruned) = pruned
  BY <1>1 DEF Kept, Restrict, IsObject
<1>4. Hides(pruned, fields, DOMAIN pruned) = {}
  BY <1>1, <1>3 DEF Hides
<1>5. g[DOMAIN pruned] = pruned
  BY <1>2, <1>3, <1>4 DEF PruneFcn
<1> QED
  BY <1>2, <1>5 DEF pruned

\* The leaves K stay if no round that starts with them hides a field whose
\* removal would take one of them.
LEMMA PruneKeeps ==
  ASSUME NEW o, IsObject(o), NEW fields, NEW K \in SUBSET DOMAIN o,
         \A L \in SUBSET DOMAIN o : K \subseteq L =>
           \A f \in Hides(o, fields, L), d \in K :
             ~IsPrefix(f.path, d) /\ ~IsStrictPrefix(d, f.path)
  PROVE  K \subseteq DOMAIN pruneInvisibleFields(o, fields)
<1>1. PICK g : PruneFcn(o, fields, g)
               /\ pruneInvisibleFields(o, fields) = g[DOMAIN o]
  BY PruneUnfold
<1> DEFINE Bad == {L \in SUBSET DOMAIN o : K \subseteq L /\ ~(K \subseteq DOMAIN g[L])}
<1>2. ASSUME NEW L \in SUBSET DOMAIN o, K \subseteq L
      PROVE  K \subseteq Rest(o, fields, L)
  <2>1. DOMAIN Kept(o, L) = L
    BY KeptLeaves
  <2>2. Rest(o, fields, L) =
          {d \in L : \A p \in PathsOf(Hides(o, fields, L)) :
                        ~IsPrefix(p, d) /\ ~IsStrictPrefix(d, p)}
    BY <2>1 DEF Rest, Without, Restrict
  <2> QED
    BY <1>2, <2>2 DEF PathsOf
<1>3. Bad = {}
  <2> SUFFICES ASSUME Bad # {} PROVE FALSE
    OBVIOUS
  <2>1. Bad \subseteq FiniteSubsetsOf(DOMAIN o)
    BY FS_Subset DEF FiniteSubsetsOf, IsObject
  <2> HIDE DEF Bad
  <2>2. PICK L \in Bad :
          \A M \in Bad : ~(<<M, L>> \in StrictSubsetOrdering(DOMAIN o))
    BY <2>1, FS_StrictSubsetOrderingWellFounded, WFMin
  <2> USE DEF Bad
  <2>3. DOMAIN Kept(o, L) = L
    BY KeptLeaves
  <2>4. Hides(o, fields, L) # {}
    BY <1>1, <2>3 DEF PruneFcn
  <2>5. g[L] = g[Rest(o, fields, L)]
    BY <1>1, <2>4 DEF PruneFcn
  <2>6. Rest(o, fields, L) \in Bad
    BY <1>2, <2>5, RoundRemoves
  <2> QED
    BY <2>2, <2>4, <2>6, RoundRemoves DEF StrictSubsetOrdering
<1> QED
  BY <1>1, <1>3

----------------------------------------------------------------------------
(* Objects under a single change. *)

\* A path that begins with a key that is not in X.
PathFrom(p, X) == IsPath(p) /\ Len(p) # 0 /\ p[1] \notin X

\* A path that begins with another key is neither above nor below a key.
LEMMA OtherKey ==
  ASSUME NEW p, IsPath(p), Len(p) # 0, NEW x, p[1] # x
  PROVE  ~IsPrefix(p, <<x>>) /\ ~IsStrictPrefix(<<x>>, p)
<1>1. /\ <<x>> \in Seq({x}) /\ Len(<<x>>) = 1 /\ <<x>>[1] = x
      /\ SubSeq(<<x>>, 1, 1)[1] = x
  OBVIOUS
<1> DEFINE K == {p[i] : i \in 1 .. Len(p)}
<1>2. p \in Seq(K) /\ Len(p) \in Nat /\ Len(p) >= 1
  BY PathIsSeq DEF IsPath
<1> HIDE DEF K
<1>3. SubSeq(p, 1, 1)[1] = p[1]
  BY <1>2, SubSeqProperties
<1>4. ASSUME IsPrefix(p, <<x>>) PROVE FALSE
  <2>1. Len(p) <= 1 /\ SubSeq(p, 1, Len(p)) = SubSeq(<<x>>, 1, Len(p))
    BY <1>1, <1>4 DEF IsPrefix
  <2>2. Len(p) = 1
    BY <1>2, <2>1
  <2> QED
    BY <1>1, <1>3, <2>1, <2>2
<1>5. ASSUME IsStrictPrefix(<<x>>, p) PROVE FALSE
  BY <1>1, <1>3, <1>5 DEF IsStrictPrefix, IsPrefix
<1> QED
  BY <1>4, <1>5

\* Removing paths leaves an object, with nothing in it that was not there.
LEMMA WithoutObject ==
  ASSUME NEW o, IsObject(o), NEW paths
  PROVE  LET next == Without(o, paths) IN
         /\ IsObject(next)
         /\ DOMAIN next \subseteq DOMAIN o
         /\ \A p : getPath(next, p) \in {getPath(o, p), "undefined"}
<1> DEFINE next == Without(o, paths)
<1>1. DOMAIN next \subseteq DOMAIN o /\ next = [d \in DOMAIN next |-> o[d]]
  BY DEF Without, Restrict
<1> HIDE DEF next
<1>2. IsObject(next) /\ \A p : getPath(next, p) \in {getPath(o, p), "undefined"}
  BY <1>1, SubObject
<1> QED
  BY <1>1, <1>2 DEF next

\* What is removed is gone.
LEMMA WithoutGone ==
  ASSUME NEW o, NEW paths, NEW p \in paths, IsPath(p)
  PROVE  getPath(Without(o, paths), p) = "undefined"
<1>1. DOMAIN Without(o, paths) =
        {d \in DOMAIN o : \A q \in paths : ~IsPrefix(q, d) /\ ~IsStrictPrefix(d, q)}
  BY DEF Without, Restrict
<1>2. IsPrefix(p, p)
  BY DEF IsPrefix, IsPath
<1> QED
  BY <1>1, <1>2 DEF getPath, IsStrictPrefix

\* A key stays as it is when paths below other keys are removed.
LEMMA WithoutKey ==
  ASSUME NEW o, IsObject(o), NEW x, NEW paths, \A p \in paths : PathFrom(p, {x})
  PROVE  getPath(Without(o, paths), <<x>>) = getPath(o, <<x>>)
<1> DEFINE next == Without(o, paths)
           k == <<x>>
<1>1. /\ DOMAIN next = {d \in DOMAIN o : \A q \in paths :
                          ~IsPrefix(q, d) /\ ~IsStrictPrefix(d, q)}
      /\ \A d \in DOMAIN next : next[d] = o[d]
  BY DEF Without, Restrict
<1>2. IsPath(k) /\ Len(k) # 0 /\ k[1] = x
  BY DEF IsPath
<1> HIDE DEF next, k
<1>3. ASSUME NEW d \in DOMAIN o, IsPrefix(k, d) PROVE d \in DOMAIN next
  <2>1. IsPath(d) /\ Len(d) # 0 /\ d[1] = x
    BY <1>2, <1>3, FirstKey DEF IsObject
  <2>2. ASSUME NEW q \in paths PROVE ~IsPrefix(q, d) /\ ~IsStrictPrefix(d, q)
    BY <2>1, FirstKey DEF PathFrom, IsStrictPrefix
  <2> QED
    BY <1>1, <2>2
<1>4. k \in DOMAIN o <=> k \in DOMAIN next
  <2>1. IsPrefix(k, k)
    BY <1>2 DEF IsPrefix, IsPath
  <2> QED
    BY <1>1, <1>3, <2>1
<1>5. (\E d \in DOMAIN o : IsStrictPrefix(k, d)) <=>
        (\E d \in DOMAIN next : IsStrictPrefix(k, d))
  BY <1>1, <1>3 DEF IsStrictPrefix
<1>6. getPath(next, k) = getPath(o, k)
  BY <1>1, <1>4, <1>5 DEF getPath
<1> QED
  BY <1>6 DEF next, k

\* Setting a path leaves an object: what is above it and below it goes.
LEMMA SetPathObject ==
  ASSUME NEW o, IsObject(o), NEW p, IsPath(p), NEW v
  PROVE  IsObject(setPath(o, p, v))
<1> DEFINE rest == Without(o, {p})
           D == DOMAIN rest \cup {p}
           new == [d \in D |-> IF d = p THEN v ELSE rest[d]]
<1>1. IsObject(rest)
  BY WithoutObject
<1>2. \A d \in DOMAIN rest : ~IsPrefix(p, d) /\ ~IsStrictPrefix(d, p)
  BY DEF Without, Restrict
<1>3. setPath(o, p, v) = IF v = "undefined" THEN rest ELSE new
  BY DEF setPath
<1> HIDE DEF rest
<1>4. ASSUME v # "undefined" PROVE IsObject(new)
  <2>1. IsFiniteSet(D)
    BY <1>1, FS_AddElement DEF IsObject
  <2>2. \A d \in D : IsPath(d) /\ new[d] # "undefined"
    BY <1>1, <1>4 DEF IsObject
  <2>3. \A d, e \in D : ~IsStrictPrefix(d, e)
    BY <1>1, <1>2 DEF IsObject, IsStrictPrefix
  <2>4. DOMAIN new = D /\ new = [d \in D |-> new[d]]
    OBVIOUS
  <2> HIDE DEF new, D
  <2> QED
    BY <2>1, <2>2, <2>3, <2>4 DEF IsObject
<1> QED
  BY <1>1, <1>3, <1>4

\* The value is set, and what is not above it is no other than before.
LEMMA SetPathValue ==
  ASSUME NEW o, IsObject(o), NEW p, IsPath(p), NEW v
  PROVE  /\ getPath(setPath(o, p, v), p) = v
         /\ \A q : ~IsPrefix(q, p) =>
              getPath(setPath(o, p, v), q) \in {getPath(o, q), "undefined"}
         /\ \A x : PathFrom(p, {x}) =>
              getPath(setPath(o, p, v), <<x>>) = getPath(o, <<x>>)
<1> DEFINE rest == Without(o, {p})
           D == DOMAIN rest \cup {p}
           new == [d \in D |-> IF d = p THEN v ELSE rest[d]]
<1>1. \A q : getPath(rest, q) \in {getPath(o, q), "undefined"}
  BY WithoutObject
<1>2. getPath(rest, p) = "undefined"
  BY WithoutGone
<1>3. \A x : PathFrom(p, {x}) => getPath(rest, <<x>>) = getPath(o, <<x>>)
  BY WithoutKey
<1>4. setPath(o, p, v) = IF v = "undefined" THEN rest ELSE new
  BY DEF setPath
<1> HIDE DEF rest
<1>5. ASSUME NEW q, ~IsPrefix(q, p) PROVE getPath(new, q) = getPath(rest, q)
  <2>1. q # p
    BY <1>5 DEF IsPrefix, IsPath
  <2> QED
    BY <1>5, <2>1 DEF getPath, IsStrictPrefix
<1>6. getPath(new, p) = v
  BY DEF getPath
<1>7. \A x : PathFrom(p, {x}) => ~IsPrefix(<<x>>, p)
  <2> SUFFICES ASSUME NEW x, PathFrom(p, {x}), IsPrefix(<<x>>, p) PROVE FALSE
    OBVIOUS
  <2>1. IsPath(<<x>>) /\ Len(<<x>>) # 0 /\ <<x>>[1] = x
    BY DEF IsPath
  <2> QED
    BY <2>1, FirstKey DEF PathFrom
<1> HIDE DEF new
<1> QED
  BY <1>1, <1>2, <1>3, <1>4, <1>5, <1>6, <1>7

----------------------------------------------------------------------------
(* The tables.  What a table needs for the objects that its form edits: its *)
(* fields are records at paths, none of which begins with a key of X.       *)

FieldFrom(f, X) ==
    /\ f = [path |-> f.path, kind |-> f.kind, when |-> f.when]
    /\ PathFrom(f.path, X)

Table(S, X) == \A f \in S : FieldFrom(f, X)

\* The keys that no field of a table begins with: those that choose the tables,
\* in the forms of the policies and of the proxies, and the identity of an
\* endpoint.
ChoiceKeys == {"type", "action"}
ProxyKeys == {"type", "transport"}
EndpointKeys == {"type", "tag"}
DraftKeys == {"type", "tag", "address", "private_key"}

\* Paths of up to four keys.
LEMMA ShortPaths ==
  ASSUME NEW X, NEW a, a \notin X
  PROVE  /\ PathFrom(<<a>>, X)
         /\ \A b : PathFrom(<<a, b>>, X)
         /\ \A b, c : PathFrom(<<a, b, c>>, X)
         /\ \A b, c, d : PathFrom(<<a, b, c, d>>, X)
BY DEF IsPath, PathFrom

\* A path that is continued begins with the same key.
LEMMA LongerPath ==
  ASSUME NEW X, NEW p, PathFrom(p, X), NEW n
  PROVE  PathFrom(Append(p, n), X)
<1> DEFINE K == {p[i] : i \in 1 .. Len(p)} \cup {n}
           r == Append(p, n)
<1>1. p \in Seq({p[i] : i \in 1 .. Len(p)})
  BY PathIsSeq DEF PathFrom
<1>2. p \in Seq(K) /\ n \in K
  BY <1>1
<1> HIDE DEF K
<1>3. r \in Seq(K) /\ Len(r) = Len(p) + 1 /\ \A i \in 1 .. Len(p) : r[i] = p[i]
  BY <1>2, AppendProperties
<1>4. Len(p) \in Nat /\ 1 \in 1 .. Len(p)
  BY DEF IsPath, PathFrom
<1> HIDE DEF r
<1>5. IsPath(r) /\ Len(r) # 0 /\ r[1] = p[1]
  BY <1>3, <1>4 DEF IsPath
<1> QED
  BY <1>5 DEF r, PathFrom

\* How tables are built.
LEMMA InFields ==
  \A kind, P, f : f \in Fields(kind, P) =>
    f.path \in P /\ \A X : PathFrom(f.path, X) => FieldFrom(f, X)
BY DEF Fields, FieldFrom

\* A field of top-level keys begins with one of them.
LEMMA InTop ==
  \A kind, N, f : f \in Fields(kind, Top(N)) =>
    \E n \in N : \A X : n \notin X => FieldFrom(f, X)
<1> SUFFICES ASSUME NEW kind, NEW N, NEW f \in Fields(kind, Top(N))
             PROVE  \E n \in N : \A X : n \notin X => FieldFrom(f, X)
  OBVIOUS
<1>1. PICK n \in N : f.path = <<n>>
  BY InFields DEF Top
<1>2. \A X : n \notin X => PathFrom(f.path, X)
  BY <1>1, ShortPaths
<1> QED
  BY <1>1, <1>2, InFields

\* A field below a path begins as the path does.
LEMMA InSub ==
  \A kind, p, N, f : f \in Fields(kind, Sub(p, N)) =>
    \A X : PathFrom(p, X) => FieldFrom(f, X)
<1> SUFFICES ASSUME NEW kind, NEW p, NEW N, NEW f \in Fields(kind, Sub(p, N)),
                    NEW X, PathFrom(p, X)
             PROVE  FieldFrom(f, X)
  OBVIOUS
<1>1. PICK n \in N : f.path = Append(p, n)
  BY InFields DEF Sub
<1> QED
  BY <1>1, InFields, LongerPath

\* A condition moves no field.
LEMMA InWhen ==
  \A conditions, S, f : f \in When(conditions, S) =>
    \E g \in S : \A X : FieldFrom(g, X) => FieldFrom(f, X)
<1> SUFFICES ASSUME NEW conditions, NEW S, NEW f \in When(conditions, S)
             PROVE  \E g \in S : \A X : FieldFrom(g, X) => FieldFrom(f, X)
  OBVIOUS
<1>1. PICK g \in S : f = [g EXCEPT !.when = @ \cup conditions]
  BY DEF When
<1>2. ASSUME NEW X, FieldFrom(g, X) PROVE FieldFrom(f, X)
  <2>1. g = [path |-> g.path, kind |-> g.kind, when |-> g.when] /\ PathFrom(g.path, X)
    BY <1>2 DEF FieldFrom
  <2>2. f = [path |-> g.path, kind |-> g.kind, when |-> g.when \cup conditions]
    BY <1>1, <2>1
  <2> QED
    BY <2>1, <2>2 DEF FieldFrom
<1> QED
  BY <1>2

\* The part of a table for some types is part of it.
LEMMA InFor == \A t, types, S, f : f \in For(t, types, S) => f \in S
BY DEF For

\* Fields of top-level keys that choose no table.
LEMMA ChoiceTop ==
  \A kind, N, f :
    f \in Fields(kind, Top(N)) /\ "type" \notin N /\ "action" \notin N =>
      FieldFrom(f, ChoiceKeys)
BY InTop DEF ChoiceKeys

\* So with the fields of the proxies that are neither type nor transport.
LEMMA ProxyTop ==
  \A kind, N, f :
    f \in Fields(kind, Top(N)) /\ "type" \notin N /\ "transport" \notin N =>
      FieldFrom(f, ProxyKeys)
BY InTop DEF ProxyKeys

\* The fields of an endpoint that are not its identity.
LEMMA EndpointTop ==
  /\ \A kind, N, f :
       f \in Fields(kind, Top(N)) /\ "type" \notin N /\ "tag" \notin N =>
         FieldFrom(f, EndpointKeys)
  /\ \A kind, N, f :
       /\ f \in Fields(kind, Top(N)) /\ "type" \notin N /\ "tag" \notin N
       /\ "address" \notin N /\ "private_key" \notin N
       => FieldFrom(f, DraftKeys)
BY InTop DEF EndpointKeys, DraftKeys

\* The tables of the forms, one after the other: every field is at a path.
LEMMA ResolverTable ==
  /\ Table(Resolver(DR), ChoiceKeys)
  /\ Table(Resolver(DR), ProxyKeys)
  /\ Table(Resolver(DR), DraftKeys)
  /\ Table(Resolver(<<"default_domain_resolver">>), ChoiceKeys)
<1> SUFFICES ASSUME NEW X, NEW p, PathFrom(p, X)
             PROVE  Table(Resolver(p), X)
  BY ShortPaths DEF DR, ChoiceKeys, ProxyKeys, DraftKeys
<1>1. \A kind, N : Table(Fields(kind, Sub(p, N)), X)
  BY InSub DEF Table
<1> QED
  BY <1>1, InWhen DEF Resolver, Table

\* The dialer fields begin with no such key when their resolver does not.
LEMMA DialerTable ==
  /\ \A S : Table(S, ChoiceKeys) => Table(DialerFields(S), ChoiceKeys)
  /\ \A S : Table(S, ProxyKeys) => Table(DialerFields(S), ProxyKeys)
  /\ \A S : Table(S, DraftKeys) => Table(DialerFields(S), DraftKeys)
<1>1. \A S : Table(S, ChoiceKeys) => Table(DialerFields(S), ChoiceKeys)
  BY ChoiceTop, InWhen DEF DialerFields, Table
<1>2. \A S : Table(S, ProxyKeys) => Table(DialerFields(S), ProxyKeys)
  BY ProxyTop, InWhen DEF DialerFields, Table
<1>3. \A S : Table(S, DraftKeys) => Table(DialerFields(S), DraftKeys)
  BY EndpointTop, InWhen DEF DialerFields, Table
<1> QED
  BY <1>1, <1>2, <1>3

\* Nor do the fields of the route rules and of the route settings,
LEMMA RouteTables ==
  /\ Table(routeGlobalFields, ChoiceKeys)
  /\ \A type, action : Table(managedRouteRuleFields(type, action), ChoiceKeys)
<1>1. Table(routeGlobalFields, ChoiceKeys)
  BY ResolverTable, ChoiceTop DEF routeGlobalFields, Table
<1>2. Table(MatchFields, ChoiceKeys)
  BY ChoiceTop DEF MatchFields, Table
<1>3. Table(routeMatchFields, ChoiceKeys)
  BY <1>2, ChoiceTop DEF routeMatchFields, Table
<1>4. Table(routeOptionFields, ChoiceKeys)
  BY ChoiceTop, InWhen DEF routeOptionFields, Table
<1>5. Table(routeFields, ChoiceKeys)
  BY <1>4, ChoiceTop DEF routeFields, Table
<1>6. Table(directFields, ChoiceKeys)
  BY ResolverTable, DialerTable, ChoiceTop DEF directFields, Table
<1>7. Table(rejectFields, ChoiceKeys)
  BY ChoiceTop DEF rejectFields, Table
<1>8. Table(logicalRuleFields, ChoiceKeys)
  BY ChoiceTop DEF logicalRuleFields, Table
<1>9. \A a \in routeActions : Table(routeActionFields[a], ChoiceKeys)
  BY <1>4, <1>5, <1>6, <1>7, ChoiceTop, InFor DEF routeActionFields, Table
<1>10. \A a : Table(TargetOf(routeActionFields, a), ChoiceKeys)
  <2>1. DOMAIN routeActionFields = routeActions
    BY DEF routeActionFields
  <2> QED
    BY <1>9, <2>1 DEF TargetOf, Table
<1> QED
  BY <1>1, <1>3, <1>8, <1>10 DEF managedRouteRuleFields, Table

\* those of the DNS rules, servers and settings,
LEMMA DNSTables ==
  /\ Table(dnsGlobalFields, ChoiceKeys)
  /\ Table(legacyFakeIPFields, ChoiceKeys)
  /\ \A o : Table(DNSRuleTabs(o), ChoiceKeys)
  /\ \A t : Table(TargetOf(dnsServerFields, t), ChoiceKeys)
  /\ \A a : Table(TargetOf(dnsActionFields, a), ChoiceKeys)
<1>1. Table(dnsGlobalFields, ChoiceKeys)
  BY ChoiceTop DEF dnsGlobalFields, Table
<1>2. PathFrom(TLS, ChoiceKeys) /\ PathFrom(<<"fakeip">>, ChoiceKeys)
      /\ PathFrom(<<"fakeip", "enabled">>, ChoiceKeys)
  BY ShortPaths DEF TLS, ChoiceKeys
<1>3. Table(legacyFakeIPFields, ChoiceKeys)
  BY <1>2, InFields, InSub, InWhen DEF legacyFakeIPFields, Table
<1>4. Table(MatchFields, ChoiceKeys)
  BY ChoiceTop DEF MatchFields, Table
<1>5. Table(dnsRuleMatchFields, ChoiceKeys)
  BY <1>4, ChoiceTop DEF dnsRuleMatchFields, Table
<1>6. Table(dnsRouteOptionFields, ChoiceKeys)
  BY ChoiceTop DEF dnsRouteOptionFields, Table
<1>7. Table(rejectFields, ChoiceKeys)
  BY ChoiceTop DEF rejectFields, Table
<1>8. \A a \in dnsActions : Table(dnsActionFields[a], ChoiceKeys)
  BY <1>6, <1>7, ChoiceTop, InFor DEF dnsActionFields, Table
<1>9. \A a : Table(TargetOf(dnsActionFields, a), ChoiceKeys)
  <2>1. DOMAIN dnsActionFields = dnsActions
    BY DEF dnsActionFields
  <2> QED
    BY <1>8, <2>1 DEF TargetOf, Table
<1>10. Table(dnsLogicalFields, ChoiceKeys)
  BY ChoiceTop DEF dnsLogicalFields, Table
<1>11. Table(dnsDialerFields, ChoiceKeys)
  BY ResolverTable, DialerTable, ChoiceTop DEF dnsDialerFields, Table
<1>12. Table(remoteFields, ChoiceKeys)
  BY <1>11, ChoiceTop DEF remoteFields, Table
<1>13. Table(dnsTLSFields, ChoiceKeys)
  BY <1>2, InSub, InWhen DEF dnsTLSFields, Table
<1>14. Table(dnsLegacyFields, ChoiceKeys) /\ Table(httpFields, ChoiceKeys)
  BY ChoiceTop DEF dnsLegacyFields, httpFields, Table
<1>15. \A t \in dnsServerTypes : Table(dnsServerFields[t], ChoiceKeys)
  BY <1>11, <1>12, <1>13, <1>14, ChoiceTop, InFor DEF dnsServerFields, Table
<1>16. \A t : Table(TargetOf(dnsServerFields, t), ChoiceKeys)
  <2>1. DOMAIN dnsServerFields = dnsServerTypes
    BY DEF dnsServerFields
  <2> QED
    BY <1>15, <2>1 DEF TargetOf, Table
<1>17. \A o : Table(DNSRuleTabs(o), ChoiceKeys)
  BY <1>5, <1>9, <1>10 DEF DNSRuleTabs, Table
<1> QED
  BY <1>1, <1>3, <1>9, <1>16, <1>17

\* those of the rule sets,
LEMMA RuleSetTable == \A o : Table(RuleSetTabs(o), ChoiceKeys)
<1> SUFFICES ASSUME NEW o PROVE Table(RuleSetTabs(o), ChoiceKeys)
  OBVIOUS
<1> DEFINE always == Fields("text", Top({"tag", "format"}))
           remote == Fields("text", Top({"url", "update_interval"})) \cup
                     Fields("ref", Top({"download_detour"}))
           path == Fields("text", Top({"path"}))
<1>1. Table(always, ChoiceKeys) /\ Table(remote, ChoiceKeys) /\ Table(path, ChoiceKeys)
  BY ChoiceTop DEF Table
<1>2. RuleSetTabs(o) \in {always \cup remote, always \cup path, always \cup {}}
  BY DEF RuleSetTabs
<1> HIDE DEF always, remote, path
<1> QED
  BY <1>1, <1>2 DEF Table

\* and those of the experimental settings.
LEMMA ExperimentalTable == Table(experimentalFields, ChoiceKeys)
<1>1. /\ PathFrom(CF, ChoiceKeys) /\ PathFrom(CA, ChoiceKeys) /\ PathFrom(VA, ChoiceKeys)
      /\ PathFrom(<<"v2ray_api", "stats">>, ChoiceKeys)
      /\ PathFrom(<<"v2ray_api", "stats", "enabled">>, ChoiceKeys)
      /\ PathFrom(<<"v2ray_api", "stats", "users">>, ChoiceKeys)
  BY ShortPaths DEF CF, CA, VA, ChoiceKeys
<1>2. Table(experimentalCacheFields, ChoiceKeys)
  BY <1>1, InSub, InWhen DEF experimentalCacheFields, Table
<1>3. Table(experimentalClashFields, ChoiceKeys)
  BY <1>1, InSub DEF experimentalClashFields, Table
<1>4. Table(experimentalV2RayFields, ChoiceKeys)
  BY <1>1, InSub, InFields, InWhen DEF experimentalV2RayFields, Table
<1> QED
  BY <1>2, <1>3, <1>4 DEF experimentalFields, Table

\* What the proofs need to know of the endpoints' table: no field is the tag
\* or the type, and the address and the private key belong to WireGuard.
LEMMA EndpointTable ==
  /\ Table(endpointFields, EndpointKeys)
  /\ \A f \in endpointFields :
       f.path[1] \in {"address", "private_key"} => f.when = isWireGuard
<1>1. Table(endpointDialerFields, DraftKeys)
  BY ResolverTable, DialerTable, EndpointTop DEF endpointDialerFields, Table
<1>2. Table(tailscaleFields, DraftKeys)
  BY EndpointTop, InWhen DEF tailscaleFields, Table
<1>3. \A S : Table(S, DraftKeys) => Table(S, EndpointKeys)
  BY DEF Table, FieldFrom, PathFrom, DraftKeys, EndpointKeys
<1> DEFINE S == Fields("boolean", Top({"system"})) \cup
                Fields("text", Top({"name", "private_key", "udp_timeout"})) \cup
                Fields("number", Top({"mtu", "listen_port", "workers"})) \cup
                Fields("list", Top({"address"})) \cup
                Fields("json-array", Top({"peers"}))
<1>4. wireGuardFields = When(isWireGuard, S) /\ \A f \in S : f.when = {}
  BY DEF wireGuardFields, Fields
<1>5. Table(S, EndpointKeys)
  BY EndpointTop DEF Table
<1> HIDE DEF S
<1>6. Table(wireGuardFields, EndpointKeys)
  BY <1>4, <1>5, InWhen DEF Table
<1>7. ASSUME NEW f \in S
      PROVE  [f EXCEPT !.when = @ \cup isWireGuard].when = isWireGuard
  <2>1. f = [path |-> f.path, kind |-> f.kind, when |-> f.when]
    BY <1>5 DEF Table, FieldFrom
  <2>2. f.when \cup isWireGuard = isWireGuard
    BY <1>4
  <2> QED
    BY <2>1, <2>2
<1>8. \A f \in wireGuardFields : f.when = isWireGuard
  BY <1>4, <1>7 DEF When
<1>9. \A f \in tailscaleFields \cup endpointDialerFields :
        f.path[1] \notin {"address", "private_key"}
  BY <1>1, <1>2 DEF Table, FieldFrom, PathFrom, DraftKeys
<1> QED
  BY <1>1, <1>2, <1>3, <1>6, <1>8, <1>9 DEF endpointFields, Table

----------------------------------------------------------------------------
(* The tables of the proxies: no field is at the type or below it, and only *)
(* the selection of the transport is at its type, where it always shows.    *)

AtTransport(f) ==
    \E x : f.path = <<"transport", x>> /\ (x = "type" => f.when = {})

ProxyTable(S) ==
    \A f \in S :
        /\ PathFrom(f.path, {"type"})
        /\ IsPrefix(transportType, f.path) =>
             f.path = transportType /\ f.kind = "select"
        /\ f.path[1] = "transport" => AtTransport(f)

\* The type of a transport is at a path from the key "transport".
LEMMA TransportPath ==
  IsPath(transportType) /\ Len(transportType) # 0 /\ transportType[1] = "transport"
BY DEF transportType, IsPath

\* A table with no field at a type or transport is one of a proxy.
LEMMA PlainTable == \A S : Table(S, ProxyKeys) => ProxyTable(S)
<1>1. ASSUME NEW p, PathFrom(p, ProxyKeys)
      PROVE  /\ PathFrom(p, {"type"}) /\ ~IsPrefix(transportType, p)
             /\ p[1] # "transport"
  BY <1>1, FirstKey, TransportPath DEF PathFrom, ProxyKeys
<1> QED
  BY <1>1 DEF Table, FieldFrom, ProxyTable

\* So are the fields of a transport.
LEMMA TransportTable ==
  \A t : ProxyTable(transportTypeFields(t))
<1> DEFINE Leaf(f) == \E n : f.path = <<"transport", n>> /\ n # "type"
<1>1. \A kind, N, f :
        f \in Fields(kind, Sub(TR, N)) /\ "type" \notin N => Leaf(f)
  BY DEF Fields, Sub, TR
<1>2. \A f : Leaf(f) => /\ PathFrom(f.path, {"type"}) /\ AtTransport(f)
                       /\ ~IsPrefix(transportType, f.path)
  <2>1. ASSUME NEW n, n # "type"
        PROVE  /\ PathFrom(<<"transport", n>>, {"type"})
               /\ ~IsPrefix(transportType, <<"transport", n>>)
    BY <2>1 DEF IsPath, IsPrefix, transportType, PathFrom
  <2> QED
    BY <2>1 DEF AtTransport
<1>3. ProxyTable(Fields("select", {transportType}))
  <2>1. \A f \in Fields("select", {transportType}) :
          f.path = transportType /\ f.kind = "select" /\ f.when = {}
    BY DEF Fields
  <2>2. \A f \in Fields("select", {transportType}) : AtTransport(f)
    BY <2>1 DEF AtTransport, transportType
  <2> QED
    BY <2>1, <2>2, TransportPath DEF ProxyTable, PathFrom
<1> HIDE DEF Leaf
<1>4. \A t \in transportTypes5 : \A f \in transportByType[t] : Leaf(f)
  BY <1>1, InFor DEF transportByType
<1>5. \A t : ProxyTable(TargetOf(transportByType, t))
  <2>1. DOMAIN transportByType = transportTypes5
    BY DEF transportByType
  <2> QED
    BY <1>2, <1>4, <2>1 DEF TargetOf, ProxyTable
<1> QED
  BY <1>3, <1>5 DEF transportTypeFields, ProxyTable

\* The paths below the keys of the proxies that hold objects.
LEMMA TLSPaths ==
  /\ PathFrom(TLS, ProxyKeys) /\ PathFrom(MUX, ProxyKeys)
  /\ \A b : PathFrom(<<"tls", b>>, ProxyKeys)
  /\ \A b, c : PathFrom(<<"tls", b, c>>, ProxyKeys)
  /\ \A b, c, d : PathFrom(<<"tls", b, c, d>>, ProxyKeys)
  /\ \A b : PathFrom(<<"multiplex", b>>, ProxyKeys)
  /\ \A b, c : PathFrom(<<"multiplex", b, c>>, ProxyKeys)
  /\ \A b : PathFrom(<<"obfs", b>>, ProxyKeys)
  /\ \A b : PathFrom(<<"handshake", b>>, ProxyKeys)
  /\ \A b : PathFrom(<<"udp_over_tcp", b>>, ProxyKeys)
BY ShortPaths DEF TLS, MUX, ProxyKeys

\* The fields of the inbounds that are at neither a type nor a transport.
LEMMA InboundPlain ==
  /\ Table(listenFields, ProxyKeys) /\ Table(tunFields, ProxyKeys)
  /\ \A t : Table(TargetOf(inboundProtocolMap, t), ProxyKeys)
<1>1. Table(listenFields, ProxyKeys)
  BY ProxyTop, InWhen DEF listenFields, Table
<1>2. Table(users, ProxyKeys) /\ Table(network, ProxyKeys)
  BY ProxyTop DEF users, network, Table
<1>3. \A t \in inboundTypes : Table(inboundProtocolMap[t], ProxyKeys)
  BY <1>2, TLSPaths, ProxyTop, InFields, InWhen, InFor
     DEF inboundProtocolMap, Table
<1>4. \A t : Table(TargetOf(inboundProtocolMap, t), ProxyKeys)
  <2>1. DOMAIN inboundProtocolMap = inboundTypes
    BY DEF inboundProtocolMap
  <2> QED
    BY <1>3, <2>1 DEF TargetOf, Table
<1>5. Table(tunFields, ProxyKeys)
  BY ProxyTop, InWhen DEF tunFields, Table
<1> QED
  BY <1>1, <1>4, <1>5

\* The tables of the inbounds, with the tabs that show them.
LEMMA InboundTable ==
  \A type \in inboundNames, transport \in transportNames :
    /\ ProxyTable(managedInboundFields[type][transport])
    /\ ProxyTable(InboundTabs[type][transport])
<1>6. Table(inboundTLSFields, ProxyKeys)
  BY TLSPaths, InSub, InFields, InWhen DEF inboundTLSFields, Table
<1>7. Table(inboundMultiplexFields, ProxyKeys)
  BY TLSPaths, InSub, InFields, InWhen
     DEF inboundMultiplexFields, brutalFields, Table
<1>8. \A type, transport : ProxyTable(inboundFields(type, transport))
  BY <1>6, <1>7, InboundPlain, PlainTable, TransportTable
     DEF inboundFields, ProxyTable, Table
<1>9. ASSUME NEW type \in inboundNames, NEW transport \in transportNames
      PROVE  /\ ProxyTable(managedInboundFields[type][transport])
             /\ InboundTabs[type][transport] \subseteq
                  managedInboundFields[type][transport]
  BY <1>8 DEF managedInboundFields, InboundTabs
<1> QED
  BY <1>9 DEF ProxyTable

\* The fields of the outbounds that are at neither a type nor a transport.
LEMMA OutboundPlain ==
  /\ Table(outboundDialerFields, ProxyKeys)
  /\ \A t : Table(outboundTypeFields(t), ProxyKeys)
<1>1. Table({[f EXCEPT !.when = {}] : f \in Resolver(DR)}, ProxyKeys)
  <2> SUFFICES ASSUME NEW f \in Resolver(DR)
               PROVE  /\ [f EXCEPT !.when = {}] =
                           [path |-> f.path, kind |-> f.kind, when |-> {}]
                      /\ PathFrom(f.path, ProxyKeys)
    BY DEF Table, FieldFrom
  <2>1. FieldFrom(f, ProxyKeys)
    BY ResolverTable DEF Table
  <2> QED
    BY <2>1 DEF FieldFrom
<1>2. Table(outboundDialerFields, ProxyKeys)
  BY <1>1, DialerTable, ProxyTop DEF outboundDialerFields, Table
<1>3. Table(network, ProxyKeys)
  BY ProxyTop DEF network, Table
<1>4. Table(udpOverTCP, ProxyKeys)
  BY TLSPaths, InFields, InWhen DEF udpOverTCP, Table
<1>5. \A t \in outboundTypes : Table(authFields[t], ProxyKeys)
  BY ProxyTop, InFor DEF authFields, Table
<1>6. \A t \in outboundTypes : Table(outboundProtocolMap[t], ProxyKeys)
  BY <1>3, <1>4, <1>5, TLSPaths, ProxyTop, InFields, InWhen, InFor
     DEF outboundProtocolMap, Table
<1>7. \A t \in {"selector", "urltest"} : Table(groupMap[t], ProxyKeys)
  <2>1. Table(groupMap.selector, ProxyKeys) /\ Table(groupMap.urltest, ProxyKeys)
    BY ProxyTop DEF groupMap, Table
  <2> QED
    BY <2>1
<1>8. \A t : Table(outboundTypeFields(t), ProxyKeys)
  <2>1. /\ DOMAIN outboundProtocolMap = outboundTypes
        /\ DOMAIN groupMap = {"selector", "urltest"}
    BY DEF outboundProtocolMap, groupMap
  <2> QED
    BY <1>6, <1>7, <2>1 DEF outboundTypeFields, TargetOf, Table
<1> QED
  BY <1>2, <1>8

\* The tables of the outbounds, with the tabs that show them.
LEMMA OutboundTable ==
  \A type \in outboundNames, transport \in transportNames :
    /\ ProxyTable(managedOutboundFields[type][transport])
    /\ ProxyTable(OutboundTabs[type][transport])
<1>9. Table(outboundTLSFields, ProxyKeys)
  BY TLSPaths, InSub, InFields, InWhen DEF outboundTLSFields, Table
<1>10. Table(outboundMultiplexFields, ProxyKeys)
  BY TLSPaths, InSub, InFields, InWhen
     DEF outboundMultiplexFields, inboundMultiplexFields, brutalFields, Table
<1>11. \A type, transport : ProxyTable(outboundFields(type, transport))
  BY <1>9, <1>10, OutboundPlain, PlainTable, TransportTable
     DEF outboundFields, ProxyTable, Table
<1>12. ASSUME NEW type \in outboundNames, NEW transport \in transportNames
       PROVE  /\ ProxyTable(managedOutboundFields[type][transport])
              /\ OutboundTabs[type][transport] \subseteq
                   managedOutboundFields[type][transport]
  BY <1>11 DEF managedOutboundFields, OutboundTabs
<1> QED
  BY <1>12 DEF ProxyTable

\* The secrets of the auth sections are among the paths that a type change
\* removes, and so is the client's side of TLS.
LEMMA SecretsListed ==
  /\ \A f \in AllOf(authFields) :
       f.kind \in {"text", "textarea"} => f.path \in credentialPaths
  /\ Sub(TLS, {"client_certificate", "client_key"}) \subseteq tlsCredentialPaths
<1> DEFINE Names == {"username", "password", "uuid", "flow", "security", "auth",
                     "auth_str", "user", "private_key", "private_key_path",
                     "private_key_passphrase"}
           Listing(f) == f.kind \in {"text", "textarea"} => f.path \in Top(Names)
<1>1. /\ \A kind, N, f : f \in Fields(kind, Top(N)) /\ kind \notin {"text", "textarea"}
           => Listing(f)
      /\ \A kind, N, f : f \in Fields(kind, Top(N)) /\ N \subseteq Names => Listing(f)
  BY DEF Fields, Top
<1>2. /\ {"username", "password"} \subseteq Names /\ {"password"} \subseteq Names
      /\ {"uuid"} \subseteq Names /\ {"auth", "auth_str"} \subseteq Names
      /\ {"uuid", "password"} \subseteq Names /\ {"private_key"} \subseteq Names
      /\ {"user", "password", "private_key_path", "private_key_passphrase"}
           \subseteq Names
  OBVIOUS
<1>3. Top(Names) \subseteq credentialPaths
  BY DEF credentialPaths
<1> HIDE DEF Listing, Names
<1>4. \A t \in outboundTypes : \A f \in authFields[t] : Listing(f)
  BY <1>1, <1>2, InFor DEF authFields
<1>5. \A f \in AllOf(authFields) : \E t \in outboundTypes : f \in authFields[t]
  BY DEF AllOf, authFields
<1>6. Sub(TLS, {"client_certificate", "client_key"}) \subseteq tlsCredentialPaths
  BY DEF tlsCredentialPaths, Sub
<1> QED
  BY <1>3, <1>4, <1>5, <1>6 DEF Listing

----------------------------------------------------------------------------
(* An endpoint that Save prunes. *)

\* A key whose value is neither an object nor absent is a leaf.
LEMMA LeafThere ==
  ASSUME NEW o, NEW p, getPath(o, p) \notin {"object", "undefined"}
  PROVE  p \in DOMAIN o /\ o[p] = getPath(o, p)
BY DEF getPath

\* An endpoint that is ready before its hidden fields are pruned is ready
\* after, as long as it has a type.
LEMMA PreparedReady ==
  ASSUME NEW o, IsObject(o), isEndpointReady(o),
         getPath(prepareEndpointObject(o), <<"type">>) \in {"wireguard", "tailscale"}
  PROVE  isEndpointReady(prepareEndpointObject(o))
<1> DEFINE next == prepareEndpointObject(o)
           type == <<"type">>
           tag == <<"tag">>
           address == <<"address">>
           key == <<"private_key">>
           wire == o[type] = "wireguard"
           K == IF wire THEN {type, tag, address, key} ELSE {tag}
<1>1. DOMAIN next \subseteq DOMAIN o /\ \A d \in DOMAIN next : next[d] = o[d]
  BY PruneSettles DEF prepareEndpointObject
<1>2. type \in DOMAIN next /\ next[type] \in {"wireguard", "tailscale"}
  BY LeafThere
<1>3. type \in DOMAIN o /\ o[type] = next[type] /\ getPath(o, type) = o[type]
  BY <1>1, <1>2 DEF getPath
<1>4. tag \in DOMAIN o /\ o[tag] = "string"
  BY LeafThere DEF isEndpointReady
<1>5. wire => /\ address \in DOMAIN o /\ o[address] \in {"string", "strings"}
              /\ key \in DOMAIN o /\ o[key] = "string"
  <2> SUFFICES ASSUME wire
               PROVE  /\ address \in DOMAIN o /\ o[address] \in {"string", "strings"}
                      /\ key \in DOMAIN o /\ o[key] = "string"
    OBVIOUS
  <2>1. /\ getPath(o, address) \in {"string", "strings"}
        /\ getPath(o, key) = "string"
    BY <1>3 DEF isEndpointReady, inferEndpointType
  <2> QED
    BY <2>1, LeafThere
<1>6. K \in SUBSET DOMAIN o
  BY <1>3, <1>4, <1>5
<1>7. ASSUME NEW L \in SUBSET DOMAIN o, K \subseteq L,
             NEW f \in Hides(o, endpointFields, L), NEW d \in K
      PROVE  ~IsPrefix(f.path, d) /\ ~IsStrictPrefix(d, f.path)
  <2>1. f \in endpointFields /\ ~isFieldVisible(Kept(o, L), f)
    BY <1>7 DEF Hides, HiddenButSet
  <2>2. /\ IsPath(f.path) /\ Len(f.path) # 0
        /\ f.path[1] \notin {"tag", "type"}
        /\ f.path[1] \in {"address", "private_key"} => f.when = isWireGuard
    BY <2>1, EndpointTable DEF Table, FieldFrom, PathFrom, EndpointKeys
  <2>3. CASE d \in {tag, type}
    BY <2>2, <2>3, OtherKey
  <2>4. CASE wire /\ d \in {address, key}
    <3>1. getPath(Kept(o, L), type) = "wireguard"
      BY <1>7, <2>4, KeptLeaves DEF getPath
    <3>2. ASSUME NEW c \in isWireGuard PROVE matchesWhen(Kept(o, L), c)
      <4>1. c.path = type /\ c.set = {"wireguard"} /\ c.in = TRUE
        BY <3>2 DEF isWireGuard, Is
      <4>2. (getPath(Kept(o, L), c.path) \in c.set) = TRUE
        BY <3>1, <4>1
      <4> QED
        BY <4>1, <4>2 DEF matchesWhen
    <3>3. f.when # isWireGuard
      BY <2>1, <3>2 DEF isFieldVisible
    <3> QED
      BY <2>2, <2>4, <3>3, OtherKey
  <2> QED
    BY <2>3, <2>4
<1> HIDE DEF K
<1>8. K \subseteq DOMAIN next
  BY <1>6, <1>7, PruneKeeps DEF prepareEndpointObject
<1> HIDE DEF next
<1>9. getPath(next, tag) = "string"
  BY <1>1, <1>4, <1>8 DEF K, getPath
<1>10. wire => /\ getPath(next, address) \in {"string", "strings"}
               /\ getPath(next, key) = "string"
  BY <1>1, <1>5, <1>8 DEF K, getPath
<1>11. inferEndpointType(next) = "wireguard" => wire
  BY <1>2, <1>3 DEF inferEndpointType, getPath
<1> QED
  BY <1>9, <1>10, <1>11 DEF isEndpointReady, next

----------------------------------------------------------------------------
(* What an entry becomes: a part of it, or a part with one value set. *)

Part(n, o) ==
    IsObject(n) /\ \A p : getPath(n, p) \in {getPath(o, p), "undefined"}

\* Removing paths, pruning and clearing a path take a part.
LEMMA Parts ==
  ASSUME NEW o, IsObject(o)
  PROVE  /\ Part(o, o)
         /\ \A paths : Part(Without(o, paths), o)
         /\ \A fields : Part(pruneInvisibleFields(o, fields), o)
         /\ \A p : Part(setPath(o, p, "undefined"), o)
BY WithoutObject, PruneSettles DEF Part, setPath

\* A part of a part is a part.
LEMMA PartOfPart ==
  ASSUME NEW o, NEW q, Part(q, o), NEW n, Part(n, q)
  PROVE  Part(n, o)
BY DEF Part

\* Pruning after an edit takes a part.
LEMMA ApplyPart ==
  ASSUME NEW f, NEW next, IsObject(next)
  PROVE  Part(Apply(f, next), next)
<1>1. Part(applyDNSFakeIPFieldChange(next), next)
  <2> DEFINE enabled == <<"fakeip", "enabled">>
             mid == IF getPath(next, enabled) = "false"
                    THEN setPath(next, enabled, "undefined") ELSE next
  <2>1. Part(mid, next)
    BY Parts
  <2>2. applyDNSFakeIPFieldChange(next) = pruneInvisibleFields(mid, legacyFakeIPFields)
    BY DEF applyDNSFakeIPFieldChange
  <2> HIDE DEF mid
  <2> QED
    BY <2>1, <2>2, Parts, PartOfPart DEF Part
<1>2. \/ Apply(f, next) \in {next, applyDNSFakeIPFieldChange(next)}
      \/ \E fields : Apply(f, next) = pruneInvisibleFields(next, fields)
  BY DEF Apply, applyRouteRuleFieldChange, applyDNSServerFieldChange,
         applyInboundFieldChange, applyOutboundFieldChange, prepareEndpointObject
<1> QED
  BY <1>1, <1>2, Parts

----------------------------------------------------------------------------
(* The entries of the proxies keep a type and a transport that have tables. *)

TypesOf(f) == IF f = "inbound" THEN inboundTypes ELSE outboundTypes

\* The type and the transport stay, go, or change to known ones.
LEMMA ListedFrom ==
  ASSUME NEW f, NEW o, Listed(f, o), NEW n,
         getPath(n, <<"type">>) \in {getPath(o, <<"type">>), "undefined"} \cup TypesOf(f),
         getPath(n, transportType) \in
           {getPath(o, transportType), "undefined"} \cup transportTypes5
  PROVE  Listed(f, n)
<1>1. /\ ProxyType(o) \in TypesOf(f) \cup Unnamed
      /\ Transport(o) \in transportTypes5 \cup Unnamed
  BY DEF Listed, TypesOf, inboundNames, outboundNames, transportNames
<1>2. ProxyType(n) \in TypesOf(f) \cup Unnamed
  BY <1>1 DEF ProxyType, Named, Unnamed
<1>3. Transport(n) \in transportTypes5 \cup Unnamed
  BY <1>1 DEF Transport, Named, Unnamed
<1> QED
  BY <1>2, <1>3 DEF Listed, TypesOf, inboundNames, outboundNames, transportNames

\* So a part of a listed entry is listed.
LEMMA PartListed ==
  ASSUME NEW f, NEW o, Listed(f, o), NEW n, Part(n, o)
  PROVE  Listed(f, n)
BY ListedFrom DEF Part

\* Neither the type nor the transport, nor a path below them.
Elsewhere(p) ==
    IsPath(p) /\ ~IsPrefix(<<"type">>, p) /\ ~IsPrefix(transportType, p)

\* The type is at a path from the key "type".
LEMMA TypePath == IsPath(<<"type">>) /\ Len(<<"type">>) # 0 /\ <<"type">>[1] = "type"
BY DEF IsPath

\* A path from another key is elsewhere.
LEMMA ElsewhereKeys ==
  ASSUME NEW p, PathFrom(p, ProxyKeys)
  PROVE  Elsewhere(p) /\ PathFrom(p, {"type"})
<1>1. PathFrom(p, {"type"})
  BY DEF PathFrom, ProxyKeys
<1> QED
  BY <1>1, TypePath, FirstKey, TransportPath DEF PathFrom, ProxyKeys, Elsewhere

\* Setting a known type, a known transport or a path elsewhere keeps it listed.
LEMMA SetListed ==
  ASSUME NEW f, NEW o, Listed(f, o), NEW q, Part(q, o), NEW p, NEW v,
         \/ p = <<"type">> /\ v \in TypesOf(f)
         \/ p = transportType /\ v \in transportTypes5 \cup {"undefined"}
         \/ Elsewhere(p)
  PROVE  IsObject(setPath(q, p, v)) /\ Listed(f, setPath(q, p, v))
<1>1. /\ IsPath(<<"type">>) /\ IsPath(transportType)
      /\ ~IsPrefix(<<"type">>, transportType) /\ ~IsPrefix(transportType, <<"type">>)
  BY DEF transportType, IsPath, IsPrefix
<1>2. IsPath(p) /\ IsObject(q)
  BY <1>1 DEF Elsewhere, Part
<1> DEFINE n == setPath(q, p, v)
           t == <<"type">>
<1>3. /\ IsObject(n) /\ getPath(n, p) = v
      /\ \A r : ~IsPrefix(r, p) => getPath(n, r) \in {getPath(q, r), "undefined"}
  BY <1>2, SetPathObject, SetPathValue
<1> HIDE DEF n, t
<1>4. getPath(n, t) \in {getPath(o, t), "undefined"} \cup TypesOf(f)
  BY <1>1, <1>3 DEF t, Part, Elsewhere
<1>5. getPath(n, transportType) \in
        {getPath(o, transportType), "undefined"} \cup transportTypes5
  BY <1>1, <1>3 DEF t, Part, Elsewhere
<1>6. Listed(f, n)
  BY <1>4, <1>5, ListedFrom DEF t
<1> QED
  BY <1>3, <1>6 DEF n

\* The fields of an inbound or an outbound in its dialog.
LEMMA ProxyTabs ==
  ASSUME NEW f \in ProxyFormNames, NEW o, Listed(f, o)
  PROVE  /\ ProxyTable(Tabs(f, o))
         /\ f = "inbound" =>
              ProxyTable(managedInboundFields[ProxyType(o)][Transport(o)])
         /\ f = "outbound" =>
              ProxyTable(managedOutboundFields[ProxyType(o)][Transport(o)])
<1>1. CASE f = "inbound"
  <2>1. /\ Tabs(f, o) = InboundTabs[ProxyType(o)][Transport(o)]
        /\ ProxyType(o) \in inboundNames /\ Transport(o) \in transportNames
    BY <1>1 DEF Tabs, Listed
  <2> QED
    BY <1>1, <2>1, InboundTable
<1>2. CASE f = "outbound"
  <2>1. /\ Tabs(f, o) = OutboundTabs[ProxyType(o)][Transport(o)]
        /\ ProxyType(o) \in outboundNames /\ Transport(o) \in transportNames
    BY <1>2 DEF Tabs, Listed
  <2> QED
    BY <1>2, <2>1, OutboundTable
<1> QED
  BY <1>1, <1>2 DEF ProxyFormNames

----------------------------------------------------------------------------
(* An entry that its form can go on with. *)

Good(f, o) == IsObject(o) /\ (f \in ProxyFormNames => Listed(f, o))

\* A part of a good entry is good.
LEMMA GoodPart ==
  ASSUME NEW f, NEW o, Good(f, o), NEW n, Part(n, o)
  PROVE  Good(f, n)
BY PartListed DEF Good, Part

\* So is a part with a value that the form may set.
LEMMA GoodSet ==
  ASSUME NEW f, NEW o, Good(f, o), NEW q, Part(q, o), NEW p, IsPath(p), NEW v,
         f \in ProxyFormNames =>
           \/ p = <<"type">> /\ v \in TypesOf(f)
           \/ p = transportType /\ v \in transportTypes5 \cup {"undefined"}
           \/ Elsewhere(p)
  PROVE  Good(f, setPath(q, p, v))
<1>1. IsObject(q)
  BY DEF Part
<1>2. IsObject(setPath(q, p, v))
  BY <1>1, SetPathObject
<1>3. f \in ProxyFormNames => Listed(f, setPath(q, p, v))
  BY SetListed DEF Good
<1> QED
  BY <1>2, <1>3 DEF Good

\* The fields of a dialog are at paths, and those of a proxy are neither its
\* type nor anything at its transport's type but the selection of that.
LEMMA TabsPath ==
  ASSUME NEW f \in TypedForms \cup GlobalForms, NEW o,
         f \in ProxyFormNames => Listed(f, o), NEW fld \in Tabs(f, o)
  PROVE  /\ IsPath(fld.path)
         /\ f \in ProxyFormNames => ProxyTable({fld})
<1>1. \A S : Table(S, ChoiceKeys) => \A g \in S : IsPath(g.path)
  BY DEF Table, FieldFrom, PathFrom
<1>2. CASE f \in ProxyFormNames
  BY <1>2, ProxyTabs DEF ProxyTable, PathFrom
<1>3. CASE f = "route_rule"
  <2>1. Tabs(f, o) = managedRouteRuleFields(RuleType(o), Action(o))
    BY <1>3 DEF Tabs, RouteRuleTabs
  <2> QED
    BY <1>1, <1>3, <2>1, RouteTables DEF ProxyFormNames
<1>4. CASE f = "rule_set"
  <2>1. Tabs(f, o) = RuleSetTabs(o)
    BY <1>4 DEF Tabs
  <2> QED
    BY <1>1, <1>4, <2>1, RuleSetTable DEF ProxyFormNames
<1>5. CASE f = "dns_rule"
  <2>1. Tabs(f, o) = DNSRuleTabs(o)
    BY <1>5 DEF Tabs
  <2> QED
    BY <1>1, <1>5, <2>1, DNSTables DEF ProxyFormNames
<1>6. CASE f = "dns_server"
  <2>1. Tabs(f, o) = TargetOf(dnsServerFields, inferDNSServerType(o))
    BY <1>6 DEF Tabs, DNSServerTabs
  <2> QED
    BY <1>1, <1>6, <2>1, DNSTables DEF ProxyFormNames
<1>7. CASE f = "endpoint"
  <2>1. Tabs(f, o) = Fields("text", Top({"tag"})) \cup endpointFields
    BY <1>7 DEF Tabs, EndpointTabs
  <2>2. fld \in endpointFields => IsPath(fld.path)
    BY EndpointTable DEF Table, FieldFrom, PathFrom
  <2>3. fld \in Fields("text", Top({"tag"})) => IsPath(fld.path)
    BY ChoiceTop DEF FieldFrom, PathFrom
  <2> QED
    BY <1>7, <2>1, <2>2, <2>3 DEF ProxyFormNames
<1>8. CASE f \in GlobalForms
  <2>1. Tabs(f, o) \in {routeGlobalFields, dnsGlobalFields, legacyFakeIPFields,
                        experimentalFields}
    BY <1>8 DEF Tabs, GlobalForms
  <2>2. f \notin ProxyFormNames
    BY <1>8 DEF GlobalForms, ProxyFormNames
  <2> QED
    BY <1>1, <2>1, <2>2, RouteTables, DNSTables, ExperimentalTable
<1> QED
  BY <1>2, <1>3, <1>4, <1>5, <1>6, <1>7, <1>8 DEF TypedForms, ProxyFormNames

\* The selection of the transport writes a transport, or nothing.
LEMMA TransportInputs ==
  ASSUME NEW f \in ProxyFormNames, NEW fld, fld.path = transportType,
         fld.kind = "select", NEW c, NEW v \in Inputs(f, fld, c)
  PROVE  v \in transportTypes5 \cup {"undefined"}
<1>1. Inputs(f, fld, c) = proxyInputs(fld)
  BY DEF Inputs, ProxyFormNames, DNSFormNames
<1>2. proxyInputs(fld) = SelectInputs(fld)
  BY DEF proxyInputs
<1>3. /\ transportType # <<"obfs", "type">>
      /\ transportType # <<"tls", "client_authentication">>
  <2>1. transportType[1] = "transport" /\ <<"obfs", "type">>[1] = "obfs"
        /\ <<"tls", "client_authentication">>[1] = "tls"
    BY DEF transportType
  <2> QED
    BY <2>1
<1>4. SelectInputs(fld) = transportTypes5 \cup {"undefined"}
  BY <1>3 DEF SelectInputs
<1> QED
  BY <1>1, <1>2, <1>4

----------------------------------------------------------------------------
(* Every operation of a form leaves a good entry. *)

\* The entry that an edit makes, before it is pruned.
Entered(f, o, p, v) ==
    LET chosen == IF v = "undefined" THEN "" ELSE v
    IN  IF p = transportType /\ f = "inbound" THEN changeTransportType(o, chosen)
        ELSE IF p = transportType /\ f = "outbound"
        THEN changeOutboundTransportType(o, chosen)
        ELSE setPath(o, p, v)

\* An edit enters a value and prunes.
LEMMA EditIsEntered ==
  ASSUME NEW f, NEW o, NEW p, NEW v
  PROVE  Edit(f, o, p, v) = Apply(f, Entered(f, o, p, v))
<1>1. CASE p = transportType /\ f = "inbound"
  BY <1>1 DEF Edit, Entered
<1>2. CASE p = transportType /\ f = "outbound"
  BY <1>2 DEF Edit, Entered
<1>3. CASE ~(p = transportType /\ f \in {"inbound", "outbound"})
  BY <1>3 DEF Edit, Entered
<1> QED
  BY <1>1, <1>2, <1>3

\* What is entered keeps an entry good.
LEMMA EnteredGood ==
  ASSUME NEW f \in TypedForms \cup GlobalForms, NEW o, Good(f, o),
         NEW fld \in Tabs(f, o), NEW c, NEW v \in Inputs(f, fld, c)
  PROVE  Good(f, Entered(f, o, fld.path, v))
<1> DEFINE p == fld.path
           chosen == IF v = "undefined" THEN "" ELSE v
           w == IF chosen = "" THEN "undefined" ELSE chosen
<1>1. IsPath(p) /\ (f \in ProxyFormNames => ProxyTable({fld}))
  BY TabsPath DEF Good
<1>2. CASE p = transportType /\ f \in ProxyFormNames
  <2>1. IsPrefix(transportType, transportType)
    BY DEF IsPrefix, transportType
  <2>2. v \in transportTypes5 \cup {"undefined"}
    BY <1>1, <1>2, <2>1, TransportInputs DEF ProxyTable
  <2>3. w \in transportTypes5 \cup {"undefined"}
    BY <2>2
  <2>4. \E paths : Entered(f, o, p, v) = setPath(Without(o, paths), transportType, w)
    BY <1>2 DEF Entered, changeTransportType, changeOutboundTransportType,
                ProxyFormNames
  <2> HIDE DEF w
  <2>5. \A paths : Good(f, setPath(Without(o, paths), transportType, w))
    BY <1>2, <2>3, Parts, GoodSet, TransportPath DEF Good
  <2> QED
    BY <2>4, <2>5
<1>3. CASE ~(p = transportType /\ f \in ProxyFormNames)
  <2>1. Entered(f, o, p, v) = setPath(o, p, v)
    BY <1>3 DEF Entered, ProxyFormNames
  <2>2. f \in ProxyFormNames => Elsewhere(p)
    <3>1. f \in ProxyFormNames => PathFrom(p, {"type"}) /\ ~IsPrefix(transportType, p)
      BY <1>1, <1>3 DEF ProxyTable
    <3> QED
      BY <3>1, TypePath, FirstKey DEF Elsewhere, PathFrom
  <2> QED
    BY <1>1, <2>1, <2>2, Parts, GoodSet DEF Good
<1> QED
  BY <1>2, <1>3

\* So does the edit.
LEMMA EditGood ==
  ASSUME NEW f \in TypedForms \cup GlobalForms, NEW o, Good(f, o),
         NEW fld \in Tabs(f, o), NEW c, NEW v \in Inputs(f, fld, c)
  PROVE  Good(f, Edit(f, o, fld.path, v))
<1> DEFINE next == Entered(f, o, fld.path, v)
<1>1. Good(f, next)
  BY EnteredGood
<1>2. Edit(f, o, fld.path, v) = Apply(f, next)
  BY EditIsEntered
<1> HIDE DEF next
<1>3. Part(Apply(f, next), next)
  BY <1>1, ApplyPart DEF Good
<1> QED
  BY <1>1, <1>2, <1>3, GoodPart

\* The fields that are written without pruning are at keys of their own.
LEMMA BaseKeys ==
  ASSUME NEW f, NEW o, NEW fld \in BaseFields(f, o)
  PROVE  PathFrom(fld.path, ProxyKeys)
<1>1. \A kind, n : n \notin ProxyKeys =>
        \A g \in Fields(kind, Top({n})) : PathFrom(g.path, ProxyKeys)
  BY ProxyTop DEF FieldFrom, ProxyKeys
<1>2. {"tag", "server", "server_port", "default"} \cap ProxyKeys = {}
  BY DEF ProxyKeys
<1>3. \/ fld \in Fields("text", Top({"tag"}))
      \/ fld \in Fields("text", Top({"server"}))
      \/ fld \in Fields("number", Top({"server_port"}))
      \/ fld \in Fields("ref", Top({"default"}))
  <2>1. CASE f \in {"inbound", "dns_server"}
    BY <2>1 DEF BaseFields
  <2>2. CASE f = "outbound"
    BY <2>2 DEF BaseFields
  <2>3. CASE f \notin {"inbound", "dns_server", "outbound"}
    BY <2>3 DEF BaseFields
  <2> QED
    BY <2>1, <2>2, <2>3
<1> QED
  BY <1>1, <1>2, <1>3

\* Setting a key that chooses no table keeps an entry good.
LEMMA KeyGood ==
  ASSUME NEW f, NEW o, Good(f, o), NEW p, PathFrom(p, ProxyKeys), NEW v
  PROVE  Good(f, setPath(o, p, v))
BY Parts, GoodSet, ElsewhereKeys DEF Good, PathFrom

\* The group editor writes two such keys.
LEMMA MembersGood ==
  ASSUME NEW f, NEW o, Good(f, o), NEW members, NEW holds
  PROVE  Good(f, setMembers(o, members, holds))
<1>1. PathFrom(<<"outbounds">>, ProxyKeys) /\ PathFrom(<<"default">>, ProxyKeys)
  BY ShortPaths DEF ProxyKeys
<1>2. Good(f, setPath(o, <<"outbounds">>, members))
  BY <1>1, KeyGood
<1>3. Good(f, setPath(setPath(o, <<"outbounds">>, members), <<"default">>, "undefined"))
  BY <1>1, <1>2, KeyGood
<1> QED
  BY <1>2, <1>3 DEF setMembers

\* The draft of a new endpoint is an object.
LEMMA DraftObject ==
  ASSUME NEW t, t # "undefined"
  PROVE  IsObject(createEndpointDraft(t))
<1> DEFINE D == {<<"type">>, <<"tag">>}
           E == {<<"type">>, <<"tag">>, <<"address">>, <<"private_key">>, <<"peers">>}
           base == createEndpointDraft(t)
<1>1. \A n : IsPath(<<n>>) /\ Len(<<n>>) = 1
  BY DEF IsPath
<1>2. \A m, n : ~IsStrictPrefix(<<m>>, <<n>>)
  <2>1. SUFFICES ASSUME NEW m, NEW n, IsStrictPrefix(<<m>>, <<n>>) PROVE FALSE
    OBVIOUS
  <2>2. IsPath(<<m>>) /\ Len(<<m>>) # 0 /\ IsPath(<<n>>) /\ IsPrefix(<<m>>, <<n>>)
        /\ <<m>> # <<n>>
    BY <1>1, <2>1 DEF IsStrictPrefix
  <2>3. <<n>>[1] = <<m>>[1]
    BY <2>2, FirstKey
  <2> QED
    BY <2>2, <2>3
<1>3. IsFiniteSet(D) /\ IsFiniteSet(E)
  <2>1. /\ E = ((({<<"type">>} \cup {<<"tag">>}) \cup {<<"address">>})
                 \cup {<<"private_key">>}) \cup {<<"peers">>}
        /\ D = {<<"type">>} \cup {<<"tag">>}
    OBVIOUS
  <2>2. \A n : IsFiniteSet({<<n>>})
    BY FS_Singleton
  <2> HIDE DEF D, E
  <2> QED
    BY <2>1, <2>2, FS_Union
<1>4. CASE t = "tailscale"
  <2>1. base = [p \in D |-> IF p = <<"tag">> THEN "" ELSE t]
    BY <1>4 DEF createEndpointDraft
  <2> HIDE DEF base
  <2>2. \A d \in D : base[d] # "undefined" /\ IsPath(d)
    BY <1>1, <2>1
  <2>3. \A d, e \in D : ~IsStrictPrefix(d, e)
    BY <1>2
  <2> HIDE DEF D
  <2> QED
    BY <1>3, <2>1, <2>2, <2>3 DEF IsObject, base
<1>5. CASE t # "tailscale"
  <2> DEFINE w(d) == CASE d = <<"type">> -> t
                       [] d \in Top({"tag", "private_key"}) -> ""
                       [] OTHER -> "[]"
  <2>1. Top({"type", "tag", "address", "private_key", "peers"}) = E
    BY DEF Top
  <2>2. base = [p \in E |-> w(p)]
    BY <1>5, <2>1 DEF createEndpointDraft
  <2>3. \A d : w(d) \in {t, "", "[]"}
    OBVIOUS
  <2> HIDE DEF base, w
  <2>4. \A d \in E : base[d] # "undefined"
    BY <2>2, <2>3
  <2>5. \A d \in E : IsPath(d)
    BY <1>1
  <2>6. \A d, e \in E : ~IsStrictPrefix(d, e)
    BY <1>2
  <2>7. base = [p \in E |-> base[p]] /\ DOMAIN base = E
    BY <2>2
  <2> HIDE DEF E
  <2> QED
    BY <1>3, <2>4, <2>5, <2>6, <2>7 DEF IsObject, base
<1> QED
  BY <1>4, <1>5

\* An endpoint of another type is a new draft.
LEMMA EndpointRetyped ==
  ASSUME NEW o, NEW type
  PROVE  IsObject(changeEndpointType(o, type))
<1> DEFINE base == createEndpointDraft(IF type = "tailscale" THEN type ELSE "wireguard")
<1>1. IsObject(base)
  BY DraftObject
<1> HIDE DEF base
<1>2. IsPath(<<"tag">>)
  BY DEF IsPath
<1>3. IsObject(setPath(base, <<"tag">>, "string"))
  BY <1>1, <1>2, SetPathObject
<1>4. changeEndpointType(o, type) \in
        {prepareEndpointObject(base),
         prepareEndpointObject(setPath(base, <<"tag">>, "string"))}
  BY DEF changeEndpointType, base
<1> QED
  BY <1>1, <1>3, <1>4, PruneSettles DEF prepareEndpointObject

\* What a type or action change removes by the cleanup registry.
LEMMA CleanupPart ==
  ASSUME NEW o, IsObject(o), NEW table, NEW source, NEW target, NEW share
  PROVE  Part(transitionCleanupFields(o, table, source, target, share), o)
<1> DEFINE prepared == prepareDomainResolverRoot(o, table, target)
<1>1. Part(prepared, o)
  BY Parts DEF prepareDomainResolverRoot
<1>2. \E paths : transitionCleanupFields(o, table, source, target, share) =
                   Without(prepared, paths)
  BY DEF transitionCleanupFields
<1> HIDE DEF prepared
<1>3. \A paths : Part(Without(prepared, paths), prepared)
  BY <1>1, Parts DEF Part
<1> QED
  BY <1>1, <1>2, <1>3, PartOfPart

\* Every other type change leaves the entry as it was, or sets the type in a
\* part of it.
LEMMA RetypedParts ==
  ASSUME NEW f \in TypedForms \ {"endpoint"}, NEW o, IsObject(o),
         NEW type \in TypeOptions(f)
  PROVE  \/ Retyped(f, o, type) = o
         \/ \E q : Part(q, o) /\ \E v : /\ Retyped(f, o, type) = setPath(q, <<"type">>, v)
                                        /\ f \in ProxyFormNames => v = type
<1>1. \A known, table, source, target :
        Part(transitionFields(o, known, table, source, target), o)
  BY Parts DEF transitionFields
<1>2. \A table, source, target, share :
        Part(transitionCleanupFields(o, table, source, target, share), o)
  BY CleanupPart
<1>3. CASE f = "route_rule"
  <2>1. Retyped(f, o, type) = changeRouteRuleType(o, type)
    BY <1>3 DEF Retyped
  <2> QED
    BY <1>1, <1>3, <2>1 DEF changeRouteRuleType, ProxyFormNames
<1>4. CASE f = "rule_set"
  <2>1. Retyped(f, o, type) = changeRuleSetType(o, type)
    BY <1>4 DEF Retyped
  <2> QED
    BY <1>1, <1>4, <2>1 DEF changeRuleSetType, ProxyFormNames
<1>5. CASE f = "dns_rule"
  <2>1. Retyped(f, o, type) = changeDNSRuleType(o, type)
    BY <1>5 DEF Retyped
  <2> QED
    BY <1>2, <1>5, <2>1 DEF changeDNSRuleType, ProxyFormNames
<1>6. CASE f = "dns_server"
  <2>1. Retyped(f, o, type) = changeDNSServerType(o, type)
    BY <1>6 DEF Retyped
  <2> QED
    BY <1>2, <1>6, <2>1 DEF changeDNSServerType, ProxyFormNames
<1>7. CASE f = "inbound"
  <2>1. Retyped(f, o, type) = changeInboundType(o, type)
    BY <1>7 DEF Retyped
  <2>2. \/ changeInboundType(o, type) = o
        \/ \E paths : changeInboundType(o, type) =
                        setPath(Without(o, paths), <<"type">>, type)
    BY DEF changeInboundType
  <2> QED
    BY <2>1, <2>2, Parts
<1>8. CASE f = "outbound"
  <2>1. Retyped(f, o, type) = changeOutboundType(o, type)
    BY <1>8 DEF Retyped
  <2>2. \/ changeOutboundType(o, type) = o
        \/ \E paths : changeOutboundType(o, type) =
                        setPath(Without(o, paths), <<"type">>, type)
    BY DEF changeOutboundType
  <2> QED
    BY <2>1, <2>2, Parts
<1> QED
  BY <1>3, <1>4, <1>5, <1>6, <1>7, <1>8 DEF TypedForms

\* A type change keeps an entry good.
LEMMA RetypedGood ==
  ASSUME NEW f \in TypedForms, NEW o, Good(f, o), NEW type \in TypeOptions(f)
  PROVE  Good(f, Retyped(f, o, type))
<1>1. CASE f = "endpoint"
  <2>1. Retyped(f, o, type) = changeEndpointType(o, type)
    BY <1>1 DEF Retyped
  <2> QED
    BY <1>1, <2>1, EndpointRetyped DEF Good, ProxyFormNames
<1>2. CASE f # "endpoint"
  <2>1. f \in ProxyFormNames => type \in TypesOf(f)
    <3>1. f = "inbound" => TypeOptions(f) = inboundTypes
      BY DEF TypeOptions
    <3>2. f = "outbound" => TypeOptions(f) = outboundTypes
      BY DEF TypeOptions
    <3> QED
      BY <3>1, <3>2 DEF TypesOf, ProxyFormNames
  <2>2. f \in TypedForms \ {"endpoint"} /\ IsObject(o)
    BY <1>2 DEF Good
  <2> QED
    BY <2>1, <2>2, RetypedParts, GoodSet, TypePath
<1> QED
  BY <1>1, <1>2

\* An action change keeps a rule good.
LEMMA ActionGood ==
  ASSUME NEW f \in {"route_rule", "dns_rule"}, NEW o, Good(f, o), NEW action
  PROVE  Good(f, changeRouteAction(o, action)) /\ Good(f, changeDNSAction(o, action))
<1>1. IsObject(o) /\ f \notin ProxyFormNames /\ IsPath(<<"action">>)
  BY DEF Good, ProxyFormNames, IsPath
<1>2. \A q, v : Part(q, o) => Good(f, setPath(q, <<"action">>, v))
  BY <1>1, GoodSet
<1>3. Good(f, changeRouteAction(o, action))
  <2>1. \A known, table, source, target :
          Part(transitionFields(o, known, table, source, target), o)
    BY <1>1, Parts DEF transitionFields
  <2> QED
    BY <1>2, <2>1 DEF changeRouteAction
<1>4. Good(f, changeDNSAction(o, action))
  <2>1. \A table, source, target, share :
          Part(transitionCleanupFields(o, table, source, target, share), o)
    BY <1>1, CleanupPart
  <2> QED
    BY <1>2, <2>1 DEF changeDNSAction
<1> QED
  BY <1>3, <1>4

----------------------------------------------------------------------------
(* The entry through all edits. *)

\* TypeOK with what keeps it: the entry of a proxy stays one that its tables
\* are kept for, so that the form knows its fields.
FormInv ==
    /\ TypeOK
    /\ form \in ProxyFormNames => Listed(form, obj)

\* The invariant in terms of a good entry.
LEMMA InvGood ==
  FormInv <=> /\ form \in Forms /\ last \in {"open", "field", "saved"}
              /\ Good(form, obj)
BY DEF FormInv, TypeOK, Good

\* What the visual tabs show is good.
LEMMA VisualGood ==
  ASSUME NEW f, NEW o, Good(f, o)
  PROVE  Good(f, Visual(f, o))
BY Parts, GoodPart DEF Visual, prepareEndpointObject, Good

\* Each action leaves the entry good.
LEMMA EditFieldGood ==
  ASSUME FormInv, NEW fld \in Tabs(form, Visual(form, obj)),
         NEW v \in Inputs(form, fld, getPath(obj, fld.path)), EditField(fld, v)
  PROVE  Good(form, obj')
<1>1. form \in TypedForms \cup GlobalForms /\ Good(form, Visual(form, obj))
  BY EntriesAssumption, InvGood, VisualGood
<1>2. obj' = Edit(form, Visual(form, obj), fld.path, v)
  BY DEF EditField
<1> QED
  BY <1>1, <1>2, EditGood

\* An edit without pruning,
LEMMA EditBaseGood ==
  ASSUME FormInv, NEW fld \in BaseFields(form, obj), NEW v, EditBase(fld, v)
  PROVE  Good(form, obj')
<1>1. obj' = setPath(obj, fld.path, v)
  BY DEF EditBase
<1> QED
  BY <1>1, InvGood, BaseKeys, KeyGood

\* another type,
LEMMA ChangeTypeGood ==
  ASSUME FormInv, NEW type \in TypeOptions(form), ChangeType(type)
  PROVE  Good(form, obj')
<1>1. form \in TypedForms
  <2>1. SUFFICES ASSUME form \notin TypedForms PROVE TypeOptions(form) = {}
    OBVIOUS
  <2> QED
    BY <2>1 DEF TypedForms, TypeOptions
<1>2. obj' = Retyped(form, Visual(form, obj), type)
  BY DEF ChangeType
<1> QED
  BY <1>1, <1>2, InvGood, VisualGood, RetypedGood

\* another action,
LEMMA ChangeActionGood ==
  ASSUME FormInv, NEW action \in ActionOptions(form), ChangeAction(action)
  PROVE  Good(form, obj')
<1>1. form \in {"route_rule", "dns_rule"}
  <2>1. SUFFICES ASSUME form \notin {"route_rule", "dns_rule"}
                 PROVE  ActionOptions(form) = {}
    OBVIOUS
  <2> QED
    BY <2>1 DEF ActionOptions
<1>2. obj' \in {changeRouteAction(obj, action), changeDNSAction(obj, action)}
  BY DEF ChangeAction
<1> QED
  BY <1>1, <1>2, InvGood, ActionGood

\* and Save.
LEMMA SaveGood ==
  ASSUME FormInv, Save
  PROVE  Good(form, obj')
<1>1. obj' = persist(form, obj)
  BY DEF Save
<1>2. persist(form, obj) \in {obj, prepareEndpointObject(obj),
                              pruneInvisibleFields(obj, experimentalFields)}
  BY DEF persist
<1>3. IsObject(obj) /\ Good(form, obj)
  BY InvGood DEF Good
<1> QED
  BY <1>1, <1>2, <1>3, Parts, GoodPart DEF prepareEndpointObject

\* The invariant holds at first, by what the forms are opened with.
LEMMA InitInv == Init => FormInv
BY EntriesAssumption DEF Init, FormInv, TypeOK

\* Every step keeps it.
LEMMA StepInv == FormInv /\ [Next]_vars => FormInv'
<1> SUFFICES ASSUME FormInv, [Next]_vars PROVE FormInv'
  OBVIOUS
<1>1. form' = form /\ last' \in {"open", "field", "saved"}
  BY InvGood DEF Next, vars, EditField, EditBase, EditMembers, ChangeType,
         ChangeAction, updateJSON, Save, Open
<1>2. Good(form, obj')
  <2>1. CASE UNCHANGED vars
    BY <2>1, InvGood DEF vars
  <2>2. CASE \E fld \in {g \in Tabs(form, Visual(form, obj)) : Room(obj, g)} :
               \E v \in Inputs(form, fld, getPath(obj, fld.path)) : EditField(fld, v)
    BY <2>2, EditFieldGood
  <2>3. CASE \E fld \in {g \in BaseFields(form, obj) : Room(obj, g)} :
               \E v \in BaseInputs(form, fld) : EditBase(fld, v)
    BY <2>3, EditBaseGood
  <2>4. CASE \E members \in ListInputs, holdsDefault \in BOOLEAN :
               EditMembers(members, holdsDefault)
    BY <2>4, InvGood, MembersGood DEF EditMembers
  <2>5. CASE \E type \in TypeOptions(form) \cap TypeBound(form) : ChangeType(type)
    BY <2>5, ChangeTypeGood
  <2>6. CASE \E action \in ActionOptions(form) : ChangeAction(action)
    BY <2>6, ChangeActionGood
  <2>7. CASE \E p \in DOMAIN obj \ Discriminators : updateJSON(p)
    <3>1. IsObject(obj) /\ Good(form, obj)
      BY InvGood DEF Good
    <3> QED
      BY <2>7, <3>1, Parts, GoodPart DEF updateJSON
  <2>8. CASE Save
    BY <2>8, SaveGood
  <2>9. CASE Open
    BY <2>9, InvGood DEF Open
  <2> QED
    BY <2>1, <2>2, <2>3, <2>4, <2>5, <2>6, <2>7, <2>8, <2>9 DEF Next
<1> QED
  BY <1>1, <1>2, InvGood DEF FormInv, TypeOK, Good

\* Whatever the forms are opened with and however they are edited, the entry
\* stays an object (setPath of policy-form-model.ts, the type and action
\* changes of the form models, prunes and JSON edits).
THEOREM EntryTyped == Spec => []TypeOK
<1>1. FormInv => TypeOK
  BY DEF FormInv
<1> QED
  BY <1>1, InitInv, StepInv, PTL DEF Spec

----------------------------------------------------------------------------
(* What Save leaves. *)

\* Save leaves an entry that can be saved again and hides nothing.
LEMMA SaveReady ==
  ASSUME FormInv, Save
  PROVE  SavedReady'
<1>1. /\ CanSave(form, obj) /\ obj' = persist(form, obj) /\ form' = form
  BY DEF Save
<1>2. CASE form = "endpoint"
  <2> DEFINE next == prepareEndpointObject(obj)
  <2>1. obj' = next
    BY <1>1, <1>2 DEF persist
  <2>2. IsObject(obj)
    BY DEF FormInv, TypeOK
  <2>3. HiddenButSet(next, endpointFields) = {}
    BY <2>2, PruneSettles DEF prepareEndpointObject
  <2> HIDE DEF next
  <2>4. HiddenButSet(next, Tabs("endpoint", next)) = {}
    <3>1. \A g \in Fields("text", Top({"tag"})) : isFieldVisible(next, g)
      BY DEF Fields, isFieldVisible
    <3>2. Tabs("endpoint", next) = Fields("text", Top({"tag"})) \cup endpointFields
      BY DEF Tabs, EndpointTabs
    <3> QED
      BY <2>3, <3>1, <3>2 DEF HiddenButSet
  <2>5. isEndpointReady(obj) \/ isEndpointReady(next)
    BY <1>1, <1>2 DEF CanSave, next
  <2>6. Type(next) \in {"wireguard", "tailscale"} => isEndpointReady(next)
    BY <2>2, <2>5, PreparedReady DEF Type, next
  <2>7. Type(next) \in {"wireguard", "tailscale"} => CanSave("endpoint", next)
    BY <2>6 DEF CanSave
  <2> QED
    BY <1>1, <1>2, <2>1, <2>4, <2>7 DEF SavedReady, Settled, TypeOptions
<1>3. CASE form = "experimental"
  <2> DEFINE next == pruneInvisibleFields(obj, experimentalFields)
  <2>1. obj' = next /\ IsObject(obj)
    BY <1>1, <1>3 DEF persist, FormInv, TypeOK
  <2>2. HiddenButSet(next, experimentalFields) = {}
    BY <2>1, PruneSettles
  <2> HIDE DEF next
  <2>3. CanSave("experimental", next) /\ Settled("experimental", next)
    BY <2>2 DEF CanSave, Settled, Tabs, ProxyFormNames
  <2> QED
    BY <1>1, <1>3, <2>1, <2>3 DEF SavedReady
<1>4. CASE form \notin {"endpoint", "experimental"}
  <2>1. obj' = obj
    BY <1>1, <1>4 DEF persist
  <2> QED
    BY <1>1, <1>4, <2>1 DEF SavedReady
<1> QED
  BY <1>2, <1>3, <1>4

\* What was saved can be saved again and has no hidden field set, in every
\* form, from any object: an endpoint that was ready before Save pruned it is
\* ready after (prepareEndpointObject, isEndpointReady).
THEOREM SavedStaysReady == Spec => []SavedReady
<1>1. Init => SavedReady
  BY DEF Init, SavedReady
<1>2. FormInv /\ SavedReady /\ [Next]_vars => SavedReady'
  <2> SUFFICES ASSUME FormInv, SavedReady, [Next]_vars PROVE SavedReady'
    OBVIOUS
  <2>1. CASE Save
    BY <2>1, SaveReady
  <2>2. CASE UNCHANGED vars
    BY <2>2 DEF vars, SavedReady
  <2>3. CASE Next /\ ~Save
    <3>1. last' # "saved"
      BY <2>3 DEF Next, EditField, EditBase, EditMembers, ChangeType,
                  ChangeAction, updateJSON, Open
    <3> QED
      BY <3>1 DEF SavedReady
  <2> QED
    BY <2>1, <2>2, <2>3
<1> QED
  BY <1>1, <1>2, InitInv, StepInv, PTL DEF Spec

----------------------------------------------------------------------------
(* The secrets of an outbound. *)

SameType(n, o) == getPath(n, <<"type">>) = getPath(o, <<"type">>)

\* The type of an entry of the proxies is a leaf, if it has one.
LEMMA TypeLeaf ==
  ASSUME NEW o, Good("outbound", o)
  PROVE  getPath(o, <<"type">>) = "undefined" \/ <<"type">> \in DOMAIN o
<1>1. ProxyType(o) \in outboundNames
  BY DEF Good, ProxyFormNames, Listed
<1>2. "object" \notin outboundNames
  BY DEF outboundNames, outboundTypes, dialerTypes, serverTypes, groupTypes, Unnamed
<1>3. getPath(o, <<"type">>) # "object"
  BY <1>1, <1>2 DEF ProxyType, Named
<1> QED
  BY <1>3 DEF getPath

\* A part that has the leaf of the type has the type.
LEMMA SameTypePart ==
  ASSUME NEW o, Good("outbound", o), NEW q, Part(q, o),
         <<"type">> \in DOMAIN o => <<"type">> \in DOMAIN q /\ q[<<"type">>] = o[<<"type">>]
  PROVE  SameType(q, o)
<1>1. CASE <<"type">> \in DOMAIN o
  BY <1>1 DEF SameType, getPath
<1>2. CASE getPath(o, <<"type">>) = "undefined"
  BY <1>2 DEF Part, SameType
<1> QED
  BY <1>1, <1>2, TypeLeaf

\* Pruning keeps the type: no field of the tables is at it, above or below.
LEMMA TypeAfterPrune ==
  ASSUME NEW o, Good("outbound", o)
  PROVE  SameType(applyOutboundFieldChange(o), o)
<1> DEFINE fields == managedOutboundFields[ProxyType(o)][Transport(o)]
           next == pruneInvisibleFields(o, fields)
           k == <<"type">>
<1>1. IsObject(o) /\ Listed("outbound", o)
  BY DEF Good, ProxyFormNames
<1>2. ProxyTable(fields)
  BY <1>1, ProxyTabs DEF ProxyFormNames
<1>3. applyOutboundFieldChange(o) = next
  BY DEF applyOutboundFieldChange
<1> HIDE DEF fields
<1>4. ASSUME k \in DOMAIN o PROVE k \in DOMAIN next
  <2> DEFINE K == {k}
  <2>1. \A L : \A f \in Hides(o, fields, L), d \in K :
          ~IsPrefix(f.path, d) /\ ~IsStrictPrefix(d, f.path)
    BY <1>2, OtherKey DEF Hides, HiddenButSet, ProxyTable, PathFrom
  <2>2. K \in SUBSET DOMAIN o
    BY <1>4
  <2> HIDE DEF K, k
  <2>3. K \subseteq DOMAIN next
    BY <1>1, <2>1, <2>2, PruneKeeps
  <2> QED
    BY <2>3 DEF K
<1>5. Part(next, o) /\ \A d \in DOMAIN next : next[d] = o[d]
  BY <1>1, Parts, PruneSettles
<1> HIDE DEF next
<1>6. SameType(next, o)
  BY <1>4, <1>5, SameTypePart
<1> QED
  BY <1>3, <1>6

\* Setting a path from another key keeps the type.
LEMMA TypeAfterSet ==
  ASSUME NEW o, IsObject(o), NEW p, PathFrom(p, {"type"}), NEW v
  PROVE  SameType(setPath(o, p, v), o)
BY SetPathValue DEF SameType, PathFrom

\* The fields of the transports are not at the type.
LEMMA TransportPaths == \A p \in knownTransportPaths : PathFrom(p, {"type"})
<1>1. DOMAIN transportByType = transportTypes5
  BY DEF transportByType
<1>2. \A t \in transportTypes5 : \A f \in transportByType[t] : PathFrom(f.path, {"type"})
  BY <1>1, TransportTable DEF transportTypeFields, TargetOf, ProxyTable
<1> QED
  BY <1>1, <1>2 DEF knownTransportPaths, PathsOf, AllOf

\* A field edit keeps the type.
LEMMA TypeAfterEdit ==
  ASSUME NEW o, Good("outbound", o), NEW fld \in Tabs("outbound", o), NEW c,
         NEW v \in Inputs("outbound", fld, c)
  PROVE  SameType(Edit("outbound", o, fld.path, v), o)
<1> DEFINE p == fld.path
           chosen == IF v = "undefined" THEN "" ELSE v
           wrong == Incompatible(o, knownTransportPaths,
                                 TargetOf(transportByType, chosen))
           w == IF chosen = "" THEN "undefined" ELSE chosen
           next == Entered("outbound", o, p, v)
<1>1. IsObject(o) /\ Listed("outbound", o)
  BY DEF Good, ProxyFormNames
<1>2. PathFrom(p, {"type"})
  BY <1>1, ProxyTabs DEF ProxyTable, ProxyFormNames
<1>3. Good("outbound", next)
  BY EnteredGood DEF TypedForms
<1>4. next = IF p = transportType THEN setPath(Without(o, wrong), transportType, w)
             ELSE setPath(o, p, v)
  BY DEF Entered, changeOutboundTransportType
<1>5. Edit("outbound", o, p, v) = applyOutboundFieldChange(next)
  <2>1. \A n : Apply("outbound", n) = applyOutboundFieldChange(n)
    BY DEF Apply
  <2> HIDE DEF next
  <2> QED
    BY <2>1, EditIsEntered DEF next
<1> HIDE DEF next
<1>6. \A q \in wrong : PathFrom(q, {"type"})
  BY TransportPaths DEF Incompatible
<1> HIDE DEF wrong, w
<1>7. PathFrom(transportType, {"type"})
  BY TransportPath DEF PathFrom
<1>8. IsObject(Without(o, wrong)) /\ SameType(Without(o, wrong), o)
  BY <1>1, <1>6, WithoutObject, WithoutKey DEF SameType
<1>9. /\ SameType(setPath(Without(o, wrong), transportType, w), Without(o, wrong))
      /\ SameType(setPath(o, p, v), o)
  BY <1>1, <1>2, <1>7, <1>8, TypeAfterSet
<1>10. SameType(next, o)
  BY <1>4, <1>8, <1>9 DEF SameType
<1> QED
  BY <1>3, <1>5, <1>10, TypeAfterPrune DEF SameType

\* The secrets are at neither a type nor a transport.
LEMMA SecretPaths ==
  ASSUME NEW p \in credentialPaths \cup tlsCredentialPaths
  PROVE  PathFrom(p, ProxyKeys)
<1>1. p \in credentialPaths => PathFrom(p, ProxyKeys)
  BY ShortPaths DEF credentialPaths, Top, ProxyKeys
<1>2. p \in tlsCredentialPaths => PathFrom(p, ProxyKeys)
  <2>1. TLS = <<"tls">>
    BY DEF TLS
  <2> QED
    BY <2>1, LongerPath, TLSPaths DEF tlsCredentialPaths, Sub
<1> QED
  BY <1>1, <1>2

\* Another type drops the secrets; the same type changes nothing.
LEMMA SecretsGone ==
  ASSUME NEW o, Good("outbound", o), NEW type,
         NEW p \in credentialPaths \cup tlsCredentialPaths
  PROVE  \/ changeOutboundType(o, type) = o
         \/ getPath(changeOutboundType(o, type), p) = "undefined"
<1> DEFINE gone == Unused(type) \cup credentialPaths \cup tlsCredentialPaths \cup
                     Incompatible(o, knownProtocolPaths, outboundTypeFields(type))
           q == Without(o, gone)
<1>1. PathFrom(p, ProxyKeys)
  BY SecretPaths
<1>2. IsPath(p) /\ ~IsPrefix(p, <<"type">>)
  BY <1>1, OtherKey DEF PathFrom, ProxyKeys
<1>3. getPath(q, p) = "undefined"
  BY <1>2, WithoutGone
<1>4. IsObject(q)
  BY WithoutObject DEF Good
<1>5. changeOutboundType(o, type) \in {o, setPath(q, <<"type">>, type)}
  BY DEF changeOutboundType
<1> HIDE DEF q
<1>6. getPath(setPath(q, <<"type">>, type), p) \in {getPath(q, p), "undefined"}
  BY <1>2, <1>4, TypePath, SetPathValue
<1> QED
  BY <1>3, <1>5, <1>6

\* The steps that change no type.
LEMMA TypeKept ==
  ASSUME FormInv, form = "outbound", [Next]_vars,
         \A type \in TypeOptions(form) : ~ChangeType(type)
  PROVE  SameType(obj', obj)
<1>1. Good("outbound", obj) /\ IsObject(obj)
  BY InvGood DEF Good
<1>2. Visual(form, obj) = obj
  BY DEF Visual
<1>3. CASE \E fld \in {g \in Tabs(form, Visual(form, obj)) : Room(obj, g)} :
             \E v \in Inputs(form, fld, getPath(obj, fld.path)) : EditField(fld, v)
  BY <1>1, <1>2, <1>3, TypeAfterEdit DEF EditField
<1>4. CASE \E fld \in {g \in BaseFields(form, obj) : Room(obj, g)} :
             \E v \in BaseInputs(form, fld) : EditBase(fld, v)
  <2>1. PICK fld \in BaseFields(form, obj) : \E v : obj' = setPath(obj, fld.path, v)
    BY <1>4 DEF EditBase
  <2>2. PathFrom(fld.path, {"type"})
    BY BaseKeys DEF PathFrom, ProxyKeys
  <2> QED
    BY <1>1, <2>1, <2>2, TypeAfterSet
<1>5. CASE \E members \in ListInputs, holdsDefault \in BOOLEAN :
             EditMembers(members, holdsDefault)
  <2>1. PICK members, holds : obj' = setMembers(obj, members, holds)
    BY <1>5 DEF EditMembers
  <2> DEFINE next == setPath(obj, <<"outbounds">>, members)
             cleared == setPath(next, <<"default">>, "undefined")
  <2>2. PathFrom(<<"outbounds">>, {"type"}) /\ PathFrom(<<"default">>, {"type"})
    BY ShortPaths
  <2>3. SameType(next, obj) /\ IsObject(next)
    BY <1>1, <2>2, TypeAfterSet, SetPathObject DEF PathFrom
  <2>4. obj' \in {next, cleared}
    BY <2>1 DEF setMembers
  <2> HIDE DEF next
  <2>5. SameType(cleared, next)
    BY <2>2, <2>3, TypeAfterSet
  <2> QED
    BY <2>3, <2>4, <2>5 DEF SameType
<1>6. CASE \E p \in DOMAIN obj \ Discriminators : updateJSON(p)
  <2>1. PICK p \in DOMAIN obj : p # <<"type">> /\ obj' = Without(obj, {p})
    BY <1>6 DEF updateJSON, Discriminators, Top
  <2> DEFINE k == <<"type">>
  <2>2. Part(obj', obj)
    BY <1>1, <2>1, Parts
  <2>3. ASSUME k \in DOMAIN obj PROVE k \in DOMAIN obj' /\ obj'[k] = obj[k]
    <3>1. ~IsStrictPrefix(p, k) /\ ~IsStrictPrefix(k, p) /\ p # k
      BY <1>1, <2>1, <2>3 DEF IsObject
    <3> HIDE DEF k
    <3> QED
      BY <2>1, <2>3, <3>1 DEF Without, Restrict, IsStrictPrefix
  <2> QED
    BY <1>1, <2>2, <2>3, SameTypePart
<1>7. CASE Save \/ Open \/ UNCHANGED vars
  <2>1. persist(form, obj) = obj
    BY DEF persist
  <2> QED
    BY <1>7, <2>1 DEF Save, Open, vars, SameType
<1>8. ActionOptions(form) = {}
  BY DEF ActionOptions
<1> QED
  BY <1>3, <1>4, <1>5, <1>6, <1>7, <1>8 DEF Next

\* An outbound that changes its type takes no secret along, from whatever
\* object and after whatever edits: no text of any auth section and none of
\* the client's side of TLS stays (changeOutboundType).
THEOREM NoSecretInherited == Spec => SecretsDropped
<1>1. ASSUME FormInv, [Next]_vars, form = "outbound",
             getPath(obj', <<"type">>) # getPath(obj, <<"type">>)
      PROVE  /\ \A f \in AllOf(authFields) :
                  f.kind \in {"text", "textarea"} => getPath(obj', f.path) = "undefined"
             /\ \A p \in Sub(TLS, {"client_certificate", "client_key"}) :
                  getPath(obj', p) = "undefined"
  <2>1. PICK type \in TypeOptions(form) : ChangeType(type)
    BY <1>1, TypeKept DEF SameType
  <2>2. obj' = changeOutboundType(obj, type)
    <3>1. Visual("outbound", obj) = obj
      BY DEF Visual
    <3>2. Retyped("outbound", obj, type) = changeOutboundType(obj, type)
      BY DEF Retyped
    <3> QED
      BY <1>1, <2>1, <3>1, <3>2 DEF ChangeType
  <2>3. \A p \in credentialPaths \cup tlsCredentialPaths : getPath(obj', p) = "undefined"
    BY <1>1, <2>2, InvGood, SecretsGone
  <2> QED
    BY <2>3, SecretsListed
<1>2. FormInv /\ [Next]_vars
      => [(form = "outbound" /\ getPath(obj', <<"type">>) # getPath(obj, <<"type">>)) =>
            /\ \A f \in AllOf(authFields) :
                 f.kind \in {"text", "textarea"} => getPath(obj', f.path) = "undefined"
            /\ \A p \in Sub(TLS, {"client_certificate", "client_key"}) :
                 getPath(obj', p) = "undefined"]_vars
  BY <1>1
<1> QED
  BY <1>2, InitInv, StepInv, PTL DEF Spec, SecretsDropped

----------------------------------------------------------------------------
(* What an entry holds, and what its choices leave it. *)

\* A path is a prefix of itself.
LEMMA SelfPrefix ==
  ASSUME NEW p, IsPath(p)
  PROVE  IsPrefix(p, p) /\ p \in Prefixes(p)
<1> DEFINE K == {p[i] : i \in 1 .. Len(p)}
<1>1. p \in Seq(K) /\ Len(p) \in Nat
  BY PathIsSeq DEF IsPath
<1> HIDE DEF K
<1>2. SubSeq(p, 1, Len(p)) = p
  BY <1>1, SubSeqProperties, SeqEqual
<1>3. IsPrefix(p, p)
  BY <1>1, <1>2 DEF IsPrefix
<1>4. Len(p) \in 0 .. Len(p) /\ p = SubSeq(p, 1, Len(p))
  BY <1>1, <1>2
<1>5. p \in Prefixes(p)
  BY <1>4 DEF Prefixes
<1> QED
  BY <1>3, <1>5

\* The leaves that are left, and those that are there after a path is set.
LEMMA LeavesLeft ==
  ASSUME NEW o, IsObject(o)
  PROVE  /\ \A paths : \A d \in DOMAIN Without(o, paths) :
              /\ d \in DOMAIN o /\ IsPath(d) /\ d \in PathsIn(Without(o, paths))
              /\ \A p \in paths : ~IsPrefix(p, d) /\ p # d
         /\ \A p, v : \A d \in DOMAIN setPath(o, p, v) : d \in DOMAIN o \/ d = p
         /\ \A fields : DOMAIN pruneInvisibleFields(o, fields) \subseteq DOMAIN o
<1>1. ASSUME NEW paths, NEW d \in DOMAIN Without(o, paths)
      PROVE  /\ d \in DOMAIN o /\ IsPath(d) /\ d \in PathsIn(Without(o, paths))
             /\ \A p \in paths : ~IsPrefix(p, d) /\ p # d
  <2>1. d \in DOMAIN o /\ \A p \in paths : ~IsPrefix(p, d)
    BY DEF Without, Restrict
  <2>2. IsPath(d)
    BY <2>1 DEF IsObject
  <2> QED
    BY <2>1, <2>2, SelfPrefix DEF PathsIn
<1>2. \A p, v : \A d \in DOMAIN setPath(o, p, v) : d \in DOMAIN o \/ d = p
  BY <1>1 DEF setPath
<1> QED
  BY <1>1, <1>2, PruneSettles

----------------------------------------------------------------------------
(* The paths that an entry may hold, and the keys that decide on them. *)

OwnPaths(f, o) == PathsOf(OwnFields(f, o))

\* The leaves that CleanKept speaks of.
Minded(f, o) ==
    {p \in DOMAIN o \ Discriminators :
       p \in KnownPaths[f] /\ ~(f = "route_rule" /\ p \in Ambiguous)}

\* An entry is clean when it holds nothing that it may not.
LEMMA CleanIs ==
  \A f, o : Clean(f, o) <=> Minded(f, o) \subseteq OwnPaths(f, o)
BY DEF Clean, Minded, OwnPaths, PathsOf

\* The keys that choose the tables of a form.
Choice(f) ==
    CASE f \in {"route_rule", "dns_rule"} -> {<<"type">>, <<"action">>}
      [] f \in ProxyFormNames -> {<<"type">>, transportType}
      [] OTHER -> {<<"type">>}

\* The choice is the one it was; what is no text at all can go.
SameChoice(f, n, o) ==
    \A k \in Choice(f) :
      \/ getPath(n, k) = getPath(o, k)
      \/ getPath(o, k) = "object" /\ getPath(n, k) = "undefined"

\* The forms without types of their own know one set of fields.
PlainForms == {"endpoint"} \cup GlobalForms

\* Therefore an entry of such a form is always clean.
LEMMA PlainClean ==
  ASSUME NEW f \in PlainForms, f \in Forms, NEW o
  PROVE  Clean(f, o)
<1>1. /\ OwnFields(f, o) = Tabs(f, o) /\ KnownFields(f) = Tabs(f, <<>>)
      /\ Tabs(f, o) = Tabs(f, <<>>)
  <2>1. f \notin {"route_rule", "rule_set", "dns_rule", "dns_server", "inbound",
                  "outbound"}
    BY DEF PlainForms, GlobalForms
  <2>2. OwnFields(f, o) = Tabs(f, o)
    BY <2>1 DEF OwnFields
  <2>3. KnownFields(f) = Tabs(f, <<>>)
    BY <2>1 DEF KnownFields
  <2>4. Tabs(f, o) = Tabs(f, <<>>)
    BY <2>1 DEF Tabs, PlainForms, GlobalForms
  <2> QED
    BY <2>2, <2>3, <2>4
<1>2. KnownPaths[f] = PathsOf(KnownFields(f))
  BY DEF KnownPaths
<1> QED
  BY <1>1, <1>2, CleanIs DEF Minded, OwnPaths

\* What each of the others may hold.
LEMMA OwnIs ==
  \A o :
    /\ OwnFields("route_rule", o) = managedRouteRuleFields(RuleType(o), Action(o))
    /\ OwnFields("rule_set", o) =
         TargetOf(ruleSetFields, Named(o, <<"type">>, "inline")) \cup RuleSetTabs(o)
    /\ OwnFields("dns_rule", o) =
         TargetOf(dnsRuleCleanupFields, RuleType(o)) \cup DNSRuleTabs(o)
    /\ OwnFields("dns_server", o) =
         TargetOf(dnsServerCleanupFields, inferDNSServerType(o))
           \cup Fields("text", Top({"tag"}))
    /\ OwnFields("inbound", o) =
         InboundTabs[ProxyType(o)][Transport(o)] \cup Fields("text", Top({"tag"}))
    /\ OwnFields("outbound", o) =
         managedOutboundFields[ProxyType(o)][Transport(o)] \cup BaseFields("outbound", o)
<1> TAKE o
<1>1. OwnFields("route_rule", o) = managedRouteRuleFields(RuleType(o), Action(o))
  BY DEF OwnFields, Tabs, RouteRuleTabs
<1>2. OwnFields("rule_set", o) =
         TargetOf(ruleSetFields, Named(o, <<"type">>, "inline")) \cup RuleSetTabs(o)
  BY DEF OwnFields
<1>3. OwnFields("dns_rule", o) =
         TargetOf(dnsRuleCleanupFields, RuleType(o)) \cup DNSRuleTabs(o)
  BY DEF OwnFields
<1>4. OwnFields("dns_server", o) =
         TargetOf(dnsServerCleanupFields, inferDNSServerType(o))
           \cup Fields("text", Top({"tag"}))
  BY DEF OwnFields, BaseFields
<1>5. OwnFields("inbound", o) =
         InboundTabs[ProxyType(o)][Transport(o)] \cup Fields("text", Top({"tag"}))
  <2>1. Tabs("inbound", o) = InboundTabs[ProxyType(o)][Transport(o)]
    BY DEF Tabs
  <2>2. BaseFields("inbound", o) = Fields("text", Top({"tag"}))
    BY DEF BaseFields
  <2> QED
    BY <2>1, <2>2 DEF OwnFields
<1>6. OwnFields("outbound", o) =
         managedOutboundFields[ProxyType(o)][Transport(o)] \cup BaseFields("outbound", o)
  BY DEF OwnFields
<1> QED
  BY <1>1, <1>2, <1>3, <1>4, <1>5, <1>6

\* The paths of fields, alone and together.
LEMMA PathsAre ==
  /\ \A kind, P : PathsOf(Fields(kind, P)) = P
  /\ \A A, B : PathsOf(A \cup B) = PathsOf(A) \cup PathsOf(B)
  /\ \A A, B : A \subseteq B => PathsOf(A) \subseteq PathsOf(B)
  /\ PathsOf({}) = {}
<1>1. ASSUME NEW kind, NEW P PROVE PathsOf(Fields(kind, P)) = P
  <2>1. ASSUME NEW p \in P PROVE p \in PathsOf(Fields(kind, P))
    <3>1. [path |-> p, kind |-> kind, when |-> {}] \in Fields(kind, P)
      BY DEF Fields
    <3> QED
      BY <3>1 DEF PathsOf
  <2>2. PathsOf(Fields(kind, P)) \subseteq P
    BY InFields DEF PathsOf
  <2> QED
    BY <2>1, <2>2
<1>2. /\ \A A, B : PathsOf(A \cup B) = PathsOf(A) \cup PathsOf(B)
      /\ \A A, B : A \subseteq B => PathsOf(A) \subseteq PathsOf(B)
      /\ PathsOf({}) = {}
  BY DEF PathsOf
<1> QED
  BY <1>1, <1>2

\* An outbound may hold the fields of its type, a tag, and a server if it has one.
LEMMA OutboundOwn ==
  ASSUME NEW o, Listed("outbound", o)
  PROVE  OwnPaths("outbound", o) =
           PathsOf(managedOutboundFields[ProxyType(o)][Transport(o)]) \cup Top({"tag"})
             \cup (IF ProxyType(o) \in serverTypes THEN Top({"server", "server_port"})
                   ELSE {})
<1> DEFINE T == ProxyType(o)
           S == managedOutboundFields[T][Transport(o)]
           base == BaseFields("outbound", o)
<1>1. T \in outboundNames /\ Transport(o) \in transportNames
  BY DEF Listed
<1>2. S = outboundFields(T, Transport(o))
  BY <1>1 DEF managedOutboundFields
<1>3. T = "selector" => <<"default">> \in PathsOf(S)
  <2>1. Fields("text", Top({"default"})) \subseteq groupMap["selector"]
    BY DEF groupMap
  <2>2. [path |-> <<"default">>, kind |-> "text", when |-> {}] \in
          Fields("text", Top({"default"}))
    BY DEF Fields, Top
  <2>3. "selector" \in DOMAIN groupMap
    BY DEF groupMap
  <2>4. groupMap["selector"] \subseteq outboundTypeFields("selector")
    BY <2>3 DEF outboundTypeFields, TargetOf
  <2>5. T = "selector" => outboundTypeFields("selector") \subseteq S
    BY <1>2 DEF outboundFields
  <2> QED
    BY <2>1, <2>2, <2>4, <2>5 DEF PathsOf
<1>4. \A kind, N : PathsOf(Fields(kind, Top(N))) = Top(N)
  BY PathsAre
<1>5. Top({"server", "server_port"}) = Top({"server"}) \cup Top({"server_port"})
  BY DEF Top
<1>6. \A A, B : PathsOf(A \cup B) = PathsOf(A) \cup PathsOf(B)
  BY PathsAre
<1>7. PathsOf({}) = {}
  BY PathsAre
<1>8. OwnPaths("outbound", o) = PathsOf(S) \cup PathsOf(base)
  BY <1>6, OwnIs DEF OwnPaths
<1> DEFINE server == IF T \in serverTypes
                     THEN Fields("text", Top({"server"})) \cup
                          Fields("number", Top({"server_port"}))
                     ELSE {}
           default == IF T = "selector" /\ getPath(o, <<"outbounds">>) = "strings"
                      THEN Fields("ref", Top({"default"})) ELSE {}
<1>9. base = Fields("text", Top({"tag"})) \cup server \cup default
  BY DEF BaseFields
<1>10. PathsOf(server) = IF T \in serverTypes THEN Top({"server", "server_port"}) ELSE {}
  <2>1. CASE T \in serverTypes
    <3>1. server = Fields("text", Top({"server"})) \cup
                   Fields("number", Top({"server_port"}))
      BY <2>1
    <3>2. PathsOf(server) = Top({"server", "server_port"})
      <4> HIDE DEF server, T
      <4>1. PathsOf(server) = PathsOf(Fields("text", Top({"server"}))) \cup
                              PathsOf(Fields("number", Top({"server_port"})))
        BY <1>6, <3>1
      <4> QED
        BY <1>4, <1>5, <4>1
    <3> QED
      BY <2>1, <3>2
  <2>2. CASE T \notin serverTypes
    <3>1. server = {}
      BY <2>2
    <3> HIDE DEF server, T
    <3> QED
      BY <1>7, <2>2, <3>1
  <2> QED
    BY <2>1, <2>2
<1>11. PathsOf(default) \subseteq PathsOf(S)
  <2>1. Top({"default"}) = {<<"default">>}
    BY DEF Top
  <2>2. CASE T = "selector" /\ getPath(o, <<"outbounds">>) = "strings"
    <3>1. default = Fields("ref", Top({"default"}))
      BY <2>2
    <3> HIDE DEF default, S
    <3> QED
      BY <1>3, <1>4, <2>1, <2>2, <3>1
  <2>3. CASE ~(T = "selector" /\ getPath(o, <<"outbounds">>) = "strings")
    <3>1. default = {}
      BY <2>3
    <3> HIDE DEF default, S
    <3> QED
      BY <1>7, <3>1
  <2> QED
    BY <2>2, <2>3
<1> HIDE DEF server, default, base, S
<1>12. PathsOf(base) = Top({"tag"}) \cup PathsOf(server) \cup PathsOf(default)
  <2>1. PathsOf(base) = PathsOf(Fields("text", Top({"tag"})) \cup server)
                          \cup PathsOf(default)
    BY <1>6, <1>9
  <2>2. PathsOf(Fields("text", Top({"tag"})) \cup server) = Top({"tag"}) \cup PathsOf(server)
    BY <1>4, <1>6
  <2> QED
    BY <2>1, <2>2
<1> QED
  BY <1>8, <1>10, <1>11, <1>12 DEF S

\* What an entry may hold is decided by its choice.
LEMMA OwnStays ==
  ASSUME NEW f \in TypedForms \cup GlobalForms, f \notin PlainForms,
         NEW o, Good(f, o), NEW n, SameChoice(f, n, o)
  PROVE  OwnPaths(f, o) \subseteq OwnPaths(f, n)
<1>1. \A A, B : A \subseteq B => PathsOf(A) \subseteq PathsOf(B)
  BY PathsAre
<1>2. /\ \A t : TargetOf(routeActionFields, t) = IF t \in routeActions
                  THEN routeActionFields[t] ELSE {}
      /\ \A t : TargetOf(dnsActionFields, t) = IF t \in dnsActions
                  THEN dnsActionFields[t] ELSE {}
      /\ TargetOf(ruleSetFields, "object") = {}
      /\ TargetOf(dnsRuleCleanupFields, "object") = {}
      /\ "object" \notin routeActions /\ "object" \notin dnsActions
  BY DEF TargetOf, routeActionFields, dnsActionFields, ruleSetFields,
         dnsRuleCleanupFields, routeActions, dnsActions
<1>3. CASE f = "route_rule"
  <2>1. Choice(f) = {<<"type">>, <<"action">>}
    BY <1>3 DEF Choice, ProxyFormNames
  <2>2. RuleType(n) = RuleType(o) \/ (RuleType(o) = "object" /\ RuleType(n) = "default")
    BY <2>1 DEF SameChoice, RuleType, Named
  <2>3. Action(n) = Action(o) \/ (Action(o) = "object" /\ Action(n) = "route")
    BY <2>1 DEF SameChoice, Action, Named
  <2>4. managedRouteRuleFields(RuleType(o), Action(o)) \subseteq
          managedRouteRuleFields(RuleType(n), Action(n))
    BY <1>2, <2>2, <2>3 DEF managedRouteRuleFields
  <2> QED
    BY <1>1, <1>3, <2>4, OwnIs DEF OwnPaths
<1>4. CASE f = "rule_set"
  <2> DEFINE t(e) == Named(e, <<"type">>, "inline")
  <2>1. Choice(f) = {<<"type">>}
    BY <1>4 DEF Choice, ProxyFormNames
  <2>2. t(n) = t(o) \/ (t(o) = "object" /\ t(n) = "inline")
    BY <2>1 DEF SameChoice, Named
  <2>3. RuleSetTabs(o) \subseteq RuleSetTabs(n)
    BY <2>2 DEF RuleSetTabs
  <2>4. TargetOf(ruleSetFields, t(o)) \subseteq TargetOf(ruleSetFields, t(n))
    BY <1>2, <2>2
  <2>5. OwnFields(f, o) \subseteq OwnFields(f, n)
    BY <1>4, <2>3, <2>4, OwnIs
  <2> QED
    BY <1>1, <2>5 DEF OwnPaths
<1>5. CASE f = "dns_rule"
  <2>1. Choice(f) = {<<"type">>, <<"action">>}
    BY <1>5 DEF Choice, ProxyFormNames
  <2>2. RuleType(n) = RuleType(o) \/ (RuleType(o) = "object" /\ RuleType(n) = "default")
    BY <2>1 DEF SameChoice, RuleType, Named
  <2>3. Action(n) = Action(o) \/ (Action(o) = "object" /\ Action(n) = "route")
    BY <2>1 DEF SameChoice, Action, Named
  <2>4. Type(n) = "logical" <=> Type(o) = "logical"
    BY <2>1 DEF SameChoice, Type
  <2>5. DNSRuleTabs(o) \subseteq DNSRuleTabs(n)
    BY <1>2, <2>3, <2>4 DEF DNSRuleTabs
  <2>6. TargetOf(dnsRuleCleanupFields, RuleType(o)) \subseteq
          TargetOf(dnsRuleCleanupFields, RuleType(n))
    BY <1>2, <2>2
  <2>7. OwnFields(f, o) \subseteq OwnFields(f, n)
    BY <1>5, <2>5, <2>6, OwnIs
  <2> QED
    BY <1>1, <2>7 DEF OwnPaths
<1>6. CASE f = "dns_server"
  <2>1. Choice(f) = {<<"type">>}
    BY <1>6 DEF Choice, ProxyFormNames
  <2>2. inferDNSServerType(n) = inferDNSServerType(o)
    BY <2>1 DEF SameChoice, inferDNSServerType
  <2>3. OwnFields(f, o) = OwnFields(f, n)
    BY <1>6, <2>2, OwnIs
  <2> QED
    BY <2>3 DEF OwnPaths
<1>7. CASE f \in ProxyFormNames
  <2>1. Choice(f) = {<<"type">>, transportType}
    BY <1>7 DEF Choice, ProxyFormNames
  <2>2. Listed(f, o)
    BY <1>7 DEF Good
  <2>3. getPath(o, <<"type">>) # "object" /\ getPath(o, transportType) # "object"
    <3>1. "object" \notin inboundNames /\ "object" \notin outboundNames
          /\ "object" \notin transportNames
      BY DEF inboundNames, inboundTypes, outboundNames, outboundTypes, dialerTypes,
             serverTypes, groupTypes, transportNames, transportTypes5, Unnamed
    <3> QED
      BY <2>2, <3>1 DEF Listed, ProxyType, Transport, Named
  <2>4. ProxyType(n) = ProxyType(o) /\ Transport(n) = Transport(o)
    BY <2>1, <2>3 DEF SameChoice, ProxyType, Transport, Named
  <2>5. CASE f = "inbound"
    <3>1. OwnFields(f, o) = OwnFields(f, n)
      BY <2>4, <2>5, OwnIs
    <3> QED
      BY <3>1 DEF OwnPaths
  <2>6. CASE f = "outbound"
    <3>1. Listed(f, n)
      BY <2>2, <2>4 DEF Listed
    <3> QED
      BY <2>2, <2>4, <2>6, <3>1, OutboundOwn
  <2> QED
    BY <1>7, <2>5, <2>6 DEF ProxyFormNames
<1> QED
  BY <1>3, <1>4, <1>5, <1>6, <1>7 DEF TypedForms, PlainForms, ProxyFormNames

\* An entry stays clean when its choice stays and what is new belongs to it.
LEMMA CleanStays ==
  ASSUME NEW f \in Forms, NEW o, Good(f, o), NEW n, SameChoice(f, n, o), Clean(f, o),
         \A p \in DOMAIN n \ Discriminators : p \in DOMAIN o \/ p \in OwnPaths(f, o)
  PROVE  Clean(f, n)
<1>1. CASE f \in PlainForms
  BY <1>1, PlainClean
<1>2. CASE f \notin PlainForms
  <2>1. OwnPaths(f, o) \subseteq OwnPaths(f, n)
    BY <1>2, EntriesAssumption, OwnStays
  <2> QED
    BY <2>1, CleanIs DEF Minded
<1> QED
  BY <1>1, <1>2

----------------------------------------------------------------------------
(* Type and action changes of the rules and the rule sets. *)

\* The key k is set to v; of the known fields those of the target are left, of
\* others what there was; and another key of a choice is as before.
Turned(n, o, known, target, k, v) ==
    /\ \A d \in DOMAIN n :
         d = <<k>> \/ (d \in DOMAIN o /\ (d \in known => d \in PathsOf(target)))
    /\ getPath(n, <<k>>) = v
    /\ \A x \in ChoiceKeys \ {k} : (\A p \in known : PathFrom(p, {x})) =>
         getPath(n, <<x>>) = getPath(o, <<x>>)

\* What such a change leaves.
LEMMA TransitionLeft ==
  ASSUME NEW o, IsObject(o), NEW known, NEW table, NEW source, NEW target, NEW k, NEW v,
         NEW n, n = setPath(transitionFields(o, known, table, source, target), <<k>>, v)
  PROVE  Turned(n, o, known, TargetOf(table, target), k, v)
<1> DEFINE compatible == compatibleFields(table, source, target)
           gone == {p \in known : ~ \E f \in compatible :
                                      f.path = p /\ matchesField(getPath(o, p), f.kind)}
           q == Without(o, gone)
<1>1. transitionFields(o, known, table, source, target) = q
  BY DEF transitionFields
<1>2. \A f \in compatible : f \in TargetOf(table, target)
  BY DEF compatibleFields
<1>3. \A d \in known : d \notin gone => d \in PathsOf(TargetOf(table, target))
  BY <1>2 DEF PathsOf
<1>4. IsObject(q) /\ \A d \in DOMAIN q : d \in DOMAIN o /\ d \notin gone
  BY LeavesLeft, WithoutObject
<1>5. \A x : (\A p \in known : PathFrom(p, {x})) => getPath(q, <<x>>) = getPath(o, <<x>>)
  BY WithoutKey
<1> HIDE DEF gone, compatible, q
<1>10. n = setPath(q, <<k>>, v)
  BY <1>1
<1>6. \A d \in DOMAIN n : d \in DOMAIN q \/ d = <<k>>
  BY <1>4, <1>10, LeavesLeft
<1>7. PathFrom(<<k>>, {}) /\ \A x : x # k => PathFrom(<<k>>, {x})
  BY ShortPaths
<1>8. /\ getPath(n, <<k>>) = v
      /\ \A x : x # k => getPath(n, <<x>>) = getPath(q, <<x>>)
  <2> DEFINE p == <<k>>
  <2>1. IsPath(p) /\ \A x : x # k => PathFrom(p, {x})
    BY <1>7 DEF PathFrom
  <2>2. n = setPath(q, p, v)
    BY <1>10
  <2> HIDE DEF p
  <2>3. /\ getPath(setPath(q, p, v), p) = v
        /\ \A x : PathFrom(p, {x}) =>
             getPath(setPath(q, p, v), <<x>>) = getPath(q, <<x>>)
    <3>1. IsObject(q) /\ IsPath(p)
      BY <1>4, <2>1
    <3> QED
      BY <3>1, SetPathValue
  <2> QED
    BY <2>1, <2>2, <2>3 DEF p
<1>11. ASSUME NEW d \in DOMAIN n, d # <<k>>
       PROVE  d \in DOMAIN o /\ (d \in known => d \in PathsOf(TargetOf(table, target)))
  BY <1>3, <1>4, <1>6, <1>11
<1>12. ASSUME NEW x, x # k, \A p \in known : PathFrom(p, {x})
       PROVE  getPath(n, <<x>>) = getPath(o, <<x>>)
  BY <1>5, <1>8, <1>12
<1> QED
  BY <1>8, <1>11, <1>12 DEF Turned

\* No field of a rule or a rule set is at a key that chooses the fields.
LEMMA KnownFree ==
  \A p \in knownRuleFields \cup PathsOf(AllOf(routeActionFields)) \cup knownRuleSetFields :
    PathFrom(p, ChoiceKeys)
<1>1. \A f \in AllOf(ruleTypeFields) : FieldFrom(f, ChoiceKeys)
  <2>1. AllOf(ruleTypeFields) \subseteq routeMatchFields \cup logicalRuleFields
    BY DEF AllOf, ruleTypeFields
  <2>2. /\ logicalRuleFields \subseteq managedRouteRuleFields("logical", "route")
        /\ routeMatchFields \subseteq managedRouteRuleFields("default", "route")
    BY DEF managedRouteRuleFields
  <2> QED
    BY <2>1, <2>2, RouteTables DEF Table
<1>2. \A f \in AllOf(routeActionFields) : FieldFrom(f, ChoiceKeys)
  <2>1. \A f \in AllOf(routeActionFields) : \E a : f \in TargetOf(routeActionFields, a)
    BY DEF AllOf, TargetOf
  <2>2. \A a : TargetOf(routeActionFields, a) \subseteq managedRouteRuleFields("default", a)
    BY DEF managedRouteRuleFields
  <2> QED
    BY <2>1, <2>2, RouteTables DEF Table
<1>3. \A f \in AllOf(ruleSetFields) : FieldFrom(f, ChoiceKeys)
  <2> DEFINE S == Fields("json-array", Top({"rules"})) \cup
                  Fields("text", Top({"format", "path"})) \cup
                  Fields("text", Top({"format", "url", "update_interval"})) \cup
                  Fields("ref", Top({"download_detour"}))
  <2>1. AllOf(ruleSetFields) \subseteq S
    BY DEF AllOf, ruleSetFields
  <2>2. Table(S, ChoiceKeys)
    BY ChoiceTop DEF Table
  <2> HIDE DEF S
  <2> QED
    BY <2>1, <2>2 DEF Table
<1> QED
  BY <1>1, <1>2, <1>3
     DEF knownRuleFields, knownRuleSetFields, PathsOf, FieldFrom

\* A field that chooses no table is at neither the type nor the action.
LEMMA KeysFree ==
  \A p : PathFrom(p, ChoiceKeys) => PathFrom(p, {"type"}) /\ PathFrom(p, {"action"})
BY DEF PathFrom, ChoiceKeys

\* A route rule of another type.
LEMMA RouteTypeClean ==
  ASSUME NEW o, IsObject(o), Clean("route_rule", o), NEW type \in {"default", "logical"}
  PROVE  Clean("route_rule", changeRouteRuleType(o, type))
<1> DEFINE current == RuleType(o)
           v == IF type = "default" THEN "undefined" ELSE type
           n == setPath(transitionFields(o, knownRuleFields, ruleTypeFields, current, type),
                        <<"type">>, v)
<1>1. changeRouteRuleType(o, type) = IF current = type THEN o ELSE n
  BY DEF changeRouteRuleType, RuleType
<1>2. /\ \A d \in DOMAIN n : d = <<"type">> \/
           (/\ d \in DOMAIN o
            /\ d \in knownRuleFields => d \in PathsOf(TargetOf(ruleTypeFields, type)))
      /\ getPath(n, <<"type">>) = v
      /\ getPath(n, <<"action">>) = getPath(o, <<"action">>)
  <2>1. \A p \in knownRuleFields : PathFrom(p, {"action"})
    BY KnownFree, KeysFree
  <2> HIDE DEF v, current
  <2>2. n = setPath(transitionFields(o, knownRuleFields, ruleTypeFields, current, type),
                    <<"type">>, v)
    OBVIOUS
  <2> HIDE DEF n
  <2>3. Turned(n, o, knownRuleFields, TargetOf(ruleTypeFields, type), "type", v)
    BY <2>2, TransitionLeft
  <2> QED
    BY <2>1, <2>3 DEF Turned, ChoiceKeys
<1> HIDE DEF n
<1>3. RuleType(n) = type /\ Action(n) = Action(o)
  BY <1>2 DEF RuleType, Action, Named
<1>4. /\ TargetOf(ruleTypeFields, type) \subseteq managedRouteRuleFields(type, Action(o))
      /\ TargetOf(routeActionFields, Action(o)) \subseteq
           managedRouteRuleFields(type, Action(o))
      /\ managedRouteRuleFields(RuleType(o), Action(o)) \subseteq
           AllOf(ruleTypeFields) \cup TargetOf(routeActionFields, Action(o))
  BY DEF TargetOf, ruleTypeFields, managedRouteRuleFields, AllOf
<1>5. ASSUME NEW d \in Minded("route_rule", n)
      PROVE  d \in OwnPaths("route_rule", n)
  <2>1. d # <<"type">>
    BY <1>5 DEF Minded, Discriminators, Top
  <2>2. d \in OwnPaths("route_rule", o)
    BY <1>2, <1>5, <2>1, CleanIs DEF Minded
  <2>3. d \in PathsOf(managedRouteRuleFields(RuleType(o), Action(o)))
    BY <2>2, OwnIs DEF OwnPaths
  <2>4. \/ d \in knownRuleFields
        \/ d \in PathsOf(TargetOf(routeActionFields, Action(o)))
    BY <1>4, <2>3 DEF PathsOf, knownRuleFields
  <2>5. d \in PathsOf(managedRouteRuleFields(type, Action(o)))
    BY <1>2, <1>4, <1>5, <2>1, <2>4 DEF PathsOf, Minded
  <2> QED
    BY <1>3, <2>5, OwnIs DEF OwnPaths
<1> QED
  BY <1>1, <1>5, CleanIs

\* A route rule with another action.
LEMMA RouteActionClean ==
  ASSUME NEW o, IsObject(o), Clean("route_rule", o), NEW action \in routeActions
  PROVE  Clean("route_rule", changeRouteAction(o, action))
<1> DEFINE current == Named(o, <<"action">>, "route")
           n == setPath(transitionFields(o, knownActionFields, routeActionFields,
                                         current, action), <<"action">>, action)
<1>1. changeRouteAction(o, action) = IF getPath(o, <<"action">>) = action THEN o ELSE n
  BY DEF changeRouteAction
<1>2. /\ \A d \in DOMAIN n : d = <<"action">> \/
           (/\ d \in DOMAIN o
            /\ d \in knownActionFields => d \in PathsOf(TargetOf(routeActionFields, action)))
      /\ getPath(n, <<"action">>) = action
      /\ getPath(n, <<"type">>) = getPath(o, <<"type">>)
  <2>1. \A p \in knownActionFields : PathFrom(p, {"type"})
    BY KnownFree, KeysFree DEF knownActionFields
  <2> HIDE DEF current
  <2>2. n = setPath(transitionFields(o, knownActionFields, routeActionFields,
                                     current, action), <<"action">>, action)
    OBVIOUS
  <2> HIDE DEF n
  <2>3. Turned(n, o, knownActionFields, TargetOf(routeActionFields, action),
               "action", action)
    BY <2>2, TransitionLeft
  <2> QED
    BY <2>1, <2>3 DEF Turned, ChoiceKeys
<1> HIDE DEF n
<1>3. RuleType(n) = RuleType(o) /\ Action(n) = action
  <2>1. action \notin {"undefined", "null"}
    BY DEF routeActions
  <2> QED
    BY <1>2, <2>1 DEF RuleType, Action, Named
<1>4. /\ \A a : managedRouteRuleFields(RuleType(o), a) =
                  managedRouteRuleFields(RuleType(o), "none")
                    \cup TargetOf(routeActionFields, a)
      /\ \A a : TargetOf(routeActionFields, a) \subseteq AllOf(routeActionFields)
  <2>1. "none" \notin DOMAIN routeActionFields
    BY DEF routeActionFields, routeActions
  <2> QED
    BY <2>1 DEF TargetOf, managedRouteRuleFields, AllOf
<1>5. ASSUME NEW d \in Minded("route_rule", n)
      PROVE  d \in OwnPaths("route_rule", n)
  <2>1. d # <<"action">> /\ d # <<"type">> /\ d \notin Ambiguous
    BY <1>5 DEF Minded, Discriminators, Top
  <2>2. d \in OwnPaths("route_rule", o)
    BY <1>2, <1>5, <2>1, CleanIs DEF Minded
  <2>3. d \in PathsOf(managedRouteRuleFields(RuleType(o), Action(o)))
    BY <2>2, OwnIs DEF OwnPaths
  <2>4. \/ d \in PathsOf(managedRouteRuleFields(RuleType(o), "none"))
        \/ d \in PathsOf(AllOf(routeActionFields))
    BY <1>4, <2>3 DEF PathsOf
  <2>5. \/ d \in PathsOf(managedRouteRuleFields(RuleType(o), "none"))
        \/ d \in PathsOf(routeMatchFields) /\ d \notin Ambiguous
             /\ d \in PathsOf(AllOf(routeActionFields))
        \/ d \in knownActionFields
    BY <2>1, <2>4 DEF knownActionFields
  <2>6. \/ d \in PathsOf(managedRouteRuleFields(RuleType(o), "none"))
        \/ d \in PathsOf(TargetOf(routeActionFields, action))
    BY <1>2, <1>5, <2>1, <2>5 DEF Ambiguous, Minded
  <2>7. d \in PathsOf(managedRouteRuleFields(RuleType(o), action))
    BY <1>4, <2>6 DEF PathsOf
  <2> QED
    BY <1>3, <2>7, OwnIs DEF OwnPaths
<1> QED
  BY <1>1, <1>5, CleanIs

\* A rule set of another type.
LEMMA RuleSetTypeClean ==
  ASSUME NEW o, IsObject(o), Clean("rule_set", o), NEW type \in DOMAIN ruleSetFields
  PROVE  Clean("rule_set", changeRuleSetType(o, type))
<1> DEFINE current == Named(o, <<"type">>, "inline")
           n == setPath(transitionFields(o, knownRuleSetFields, ruleSetFields,
                                         current, type), <<"type">>, type)
<1>1. changeRuleSetType(o, type) = IF current = type THEN o ELSE n
  BY DEF changeRuleSetType
<1>2. /\ \A d \in DOMAIN n : d = <<"type">> \/
           (/\ d \in DOMAIN o
            /\ d \in knownRuleSetFields => d \in PathsOf(TargetOf(ruleSetFields, type)))
      /\ getPath(n, <<"type">>) = type
  <2> HIDE DEF current
  <2>1. n = setPath(transitionFields(o, knownRuleSetFields, ruleSetFields,
                                     current, type), <<"type">>, type)
    OBVIOUS
  <2> HIDE DEF n
  <2>2. Turned(n, o, knownRuleSetFields, TargetOf(ruleSetFields, type), "type", type)
    BY <2>1, TransitionLeft
  <2> QED
    BY <2>2 DEF Turned
<1>3. Named(n, <<"type">>, "inline") = type
  <2>1. type \notin {"undefined", "null"}
    BY DEF ruleSetFields
  <2> HIDE DEF n
  <2> QED
    BY <1>2, <2>1 DEF Named
<1>4. \A e : PathsOf(RuleSetTabs(e)) \subseteq knownRuleSetFields \cup Top({"tag"})
  <2> DEFINE always == Fields("text", Top({"tag", "format"}))
             remote == Fields("text", Top({"url", "update_interval"})) \cup
                       Fields("ref", Top({"download_detour"}))
             path == Fields("text", Top({"path"}))
  <2>1. /\ knownRuleSetFields = PathsOf(ruleSetFields.inline) \cup
             PathsOf(ruleSetFields.local) \cup PathsOf(ruleSetFields.remote)
    BY DEF knownRuleSetFields, AllOf, ruleSetFields, PathsOf
  <2>2. /\ PathsOf(ruleSetFields.local) = Top({"format", "path"})
        /\ PathsOf(ruleSetFields.remote) =
             Top({"format", "url", "update_interval"}) \cup Top({"download_detour"})
    BY PathsAre DEF ruleSetFields
  <2>3. /\ PathsOf(always) = Top({"tag", "format"})
        /\ PathsOf(remote) = Top({"url", "update_interval"}) \cup Top({"download_detour"})
        /\ PathsOf(path) = Top({"path"})
    BY PathsAre
  <2>4. \A e : RuleSetTabs(e) \in {always \cup remote, always \cup path, always \cup {}}
    BY DEF RuleSetTabs
  <2> HIDE DEF always, remote, path
  <2>5. \A e : PathsOf(RuleSetTabs(e)) \subseteq
                 PathsOf(always) \cup PathsOf(remote) \cup PathsOf(path)
    BY <2>4, PathsAre DEF PathsOf
  <2>6. /\ Top({"tag", "format"}) \subseteq Top({"tag"}) \cup Top({"format", "path"})
        /\ Top({"url", "update_interval"}) \subseteq Top({"format", "url", "update_interval"})
        /\ Top({"path"}) \subseteq Top({"format", "path"})
    BY DEF Top
  <2> QED
    BY <2>1, <2>2, <2>3, <2>5, <2>6
<1>5. \A e : Top({"tag"}) \subseteq PathsOf(RuleSetTabs(e))
  <2>1. \A e : Fields("text", Top({"tag", "format"})) \subseteq RuleSetTabs(e)
    BY DEF RuleSetTabs
  <2>2. Top({"tag"}) \subseteq Top({"tag", "format"})
    BY DEF Top
  <2> QED
    BY <2>1, <2>2, PathsAre
<1>6. \A t : PathsOf(TargetOf(ruleSetFields, t)) \subseteq knownRuleSetFields
  BY DEF TargetOf, knownRuleSetFields, AllOf, PathsOf
<1> HIDE DEF n
<1>7. ASSUME NEW d \in Minded("rule_set", n)
      PROVE  d \in OwnPaths("rule_set", n)
  <2>1. d # <<"type">> /\ d \in DOMAIN n
    BY <1>7 DEF Minded, Discriminators, Top
  <2>2. d \in OwnPaths("rule_set", o)
    BY <1>2, <1>7, <2>1, CleanIs DEF Minded
  <2>3. /\ OwnPaths("rule_set", o) = PathsOf(TargetOf(ruleSetFields, current)) \cup
                                       PathsOf(RuleSetTabs(o))
        /\ OwnPaths("rule_set", n) = PathsOf(TargetOf(ruleSetFields, type)) \cup
                                       PathsOf(RuleSetTabs(n))
    BY <1>3, OwnIs, PathsAre DEF OwnPaths
  <2> HIDE DEF current
  <2>4. d \in knownRuleSetFields \cup Top({"tag"})
    BY <1>4, <1>6, <2>2, <2>3
  <2> QED
    BY <1>2, <1>5, <2>1, <2>3, <2>4
<1> QED
  BY <1>1, <1>7, CleanIs

----------------------------------------------------------------------------
(* The cleanup registry of the DNS forms beside their tables. *)

\* A field of top-level keys has one of them, and each of them has a field.
LEMMA TopName ==
  /\ \A kind, N, f : f \in Fields(kind, Top(N)) => \E n \in N : f.path = <<n>>
  /\ \A kind, N, S : Fields(kind, Top(N)) \subseteq S => \A n \in N : <<n>> \in PathsOf(S)
<1>1. \A kind, N, f : f \in Fields(kind, Top(N)) => \E n \in N : f.path = <<n>>
  BY InFields DEF Top
<1>2. ASSUME NEW kind, NEW N, NEW S, Fields(kind, Top(N)) \subseteq S, NEW n \in N
      PROVE  <<n>> \in PathsOf(S)
  <2>1. Top(N) = PathsOf(Fields(kind, Top(N)))
    BY PathsAre
  <2>2. <<n>> \in Top(N)
    BY DEF Top
  <2> QED
    BY <1>2, <2>1, <2>2 DEF PathsOf
<1> QED
  BY <1>1, <1>2

\* What DNS rules may hold by their tables, they may hold by the registry.
LEMMA RuleRegistry ==
  /\ PathsOf(dnsRuleMatchFields) \subseteq PathsOf(defaultRuleCleanup)
  /\ PathsOf(dnsLogicalFields) \subseteq PathsOf(dnsRuleCleanupFields.logical)
<1>1. PathsOf(dnsRuleMatchFields) \subseteq PathsOf(defaultRuleCleanup)
  <2> DEFINE A == {"inbound", "network", "auth_user", "protocol", "domain",
               "domain_suffix", "domain_keyword", "domain_regex", "geosite",
               "source_geoip", "geoip", "ip_cidr", "source_ip_cidr",
               "source_port_range", "port_range", "process_name", "process_path",
               "process_path_regex", "package_name", "user", "outbound",
               "network_type", "wifi_ssid", "wifi_bssid", "default_interface_address",
               "rule_set"}
             B == {"ip_is_private", "ip_accept_any", "source_ip_is_private",
               "network_is_expensive", "network_is_constrained",
               "rule_set_ip_cidr_match_source", "rule_set_ip_cidr_accept_empty",
               "rule_set_ipcidr_match_source", "invert"}
             C == {"source_port", "port", "user_id"}
             D == {"ip_version"}
             E == {"query_type"}
             F == {"clash_mode"}
             All == A \cup B \cup C \cup D \cup E \cup F
  <2>1. \A f \in dnsRuleMatchFields : \E n \in All : f.path = <<n>>
    BY TopName DEF dnsRuleMatchFields, MatchFields
  <2>2. /\ Fields("list", Top(A)) \subseteq defaultRuleCleanup
        /\ Fields("boolean", Top(B)) \subseteq defaultRuleCleanup
        /\ Fields("number-list", Top(C)) \subseteq defaultRuleCleanup
        /\ Fields("number", Top(D)) \subseteq defaultRuleCleanup
        /\ Fields("query-type", Top(E)) \subseteq defaultRuleCleanup
        /\ Fields("string", Top(F)) \subseteq defaultRuleCleanup
    BY DEF defaultRuleCleanup, Strings
  <2> HIDE DEF A, B, C, D, E, F
  <2>3. \A n \in All : <<n>> \in PathsOf(defaultRuleCleanup)
    BY <2>2, TopName
  <2> HIDE DEF All
  <2> QED
    BY <2>1, <2>3 DEF PathsOf
<1>2. PathsOf(dnsLogicalFields) \subseteq PathsOf(dnsRuleCleanupFields.logical)
  <2> DEFINE S == dnsRuleCleanupFields.logical
             A == {"mode"}
             B == {"invert"}
  <2>1. \A f \in dnsLogicalFields : \E n \in A \cup B : f.path = <<n>>
    BY TopName DEF dnsLogicalFields
  <2>2. Fields("string", Top(A)) \subseteq S /\ Fields("boolean", Top(B)) \subseteq S
    BY DEF dnsRuleCleanupFields, Strings
  <2> HIDE DEF S, A, B
  <2>4. \A n \in A \cup B : <<n>> \in PathsOf(S)
    BY <2>2, TopName
  <2> QED
    BY <2>1, <2>4 DEF PathsOf, S
<1> QED
  BY <1>1, <1>2

\* The actions of DNS rules have the same fields in both.
LEMMA ActionRegistry ==
  \A a \in dnsActions : PathsOf(dnsActionFields[a]) = PathsOf(dnsActionCleanupFields[a])
<1> DEFINE options == {"strategy", "client_subnet"} \cup {"disable_cache"}
                        \cup {"rewrite_ttl"}
           N(a) == IF a = "route" THEN {"server"} \cup options
                   ELSE IF a = "route-options" THEN options
                   ELSE IF a = "reject" THEN {"method"} \cup {"no_drop"}
                   ELSE {"rcode"} \cup {"answer", "ns", "extra"}
<1>1. \A S, M : (/\ \A f \in S : \E n \in M : f.path = <<n>>
                 /\ \A n \in M : <<n>> \in PathsOf(S)) => PathsOf(S) = Top(M)
  BY DEF PathsOf, Top
<1>2. ASSUME NEW a \in dnsActions
      PROVE  PathsOf(dnsActionFields[a]) = Top(N(a))
  <2> DEFINE S == dnsActionFields[a]
  <2>1. \A f \in S : \E n \in N(a) : f.path = <<n>>
    BY TopName DEF dnsActions, dnsActionFields, For, dnsRouteOptionFields, rejectFields
  <2>2. /\ a = "route" => Fields("ref", Top({"server"})) \subseteq S
        /\ a \in {"route", "route-options"} =>
             /\ Fields("select", Top({"strategy"})) \subseteq S
             /\ Fields("boolean", Top({"disable_cache"})) \subseteq S
             /\ Fields("number", Top({"rewrite_ttl"})) \subseteq S
             /\ Fields("text", Top({"client_subnet"})) \subseteq S
        /\ a = "reject" => /\ Fields("select", Top({"method"})) \subseteq S
                           /\ Fields("boolean", Top({"no_drop"})) \subseteq S
        /\ a = "predefined" => /\ Fields("text", Top({"rcode"})) \subseteq S
                               /\ Fields("list", Top({"answer", "ns", "extra"})) \subseteq S
    BY DEF dnsActions, dnsActionFields, For, dnsRouteOptionFields, rejectFields
  <2> HIDE DEF S
  <2>3. \A n \in N(a) : <<n>> \in PathsOf(S)
    BY <2>2, TopName DEF dnsActions
  <2> HIDE DEF N
  <2> QED
    BY <1>1, <2>1, <2>3 DEF S
<1>3. ASSUME NEW a \in dnsActions
      PROVE  PathsOf(dnsActionCleanupFields[a]) = Top(N(a))
  <2> DEFINE S == dnsActionCleanupFields[a]
  <2>1. \A f \in S : \E n \in N(a) : f.path = <<n>>
    BY TopName DEF dnsActions, dnsActionCleanupFields, optionCleanup, Strings
  <2>2. /\ a = "route" => Fields("string", Top({"server"})) \subseteq S
        /\ a \in {"route", "route-options"} =>
             /\ Fields("string", Top({"strategy", "client_subnet"})) \subseteq S
             /\ Fields("boolean", Top({"disable_cache"})) \subseteq S
             /\ Fields("number", Top({"rewrite_ttl"})) \subseteq S
        /\ a = "reject" => /\ Fields("string", Top({"method"})) \subseteq S
                           /\ Fields("boolean", Top({"no_drop"})) \subseteq S
        /\ a = "predefined" => /\ Fields("rcode", Top({"rcode"})) \subseteq S
                               /\ Fields("list", Top({"answer", "ns", "extra"})) \subseteq S
    BY DEF dnsActions, dnsActionCleanupFields, optionCleanup, Strings
  <2> HIDE DEF S
  <2>3. \A n \in N(a) : <<n>> \in PathsOf(S)
    BY <2>2, TopName DEF dnsActions
  <2> HIDE DEF N
  <2> QED
    BY <1>1, <2>1, <2>3 DEF S
<1> QED
  BY <1>2, <1>3

\* Setting a key of a choice in what such a change has left.
LEMMA KeySet ==
  ASSUME NEW o, NEW q, IsObject(q), NEW known, NEW S, NEW k, NEW v,
         \A d \in DOMAIN q : d \in DOMAIN o /\ (d \in known => d \in PathsOf(S)),
         \A x \in ChoiceKeys : (\A p \in known : PathFrom(p, {x})) =>
           getPath(q, <<x>>) = getPath(o, <<x>>)
  PROVE  Turned(setPath(q, <<k>>, v), o, known, S, k, v)
<1> DEFINE n == setPath(q, <<k>>, v)
<1>1. \A d \in DOMAIN n : d \in DOMAIN q \/ d = <<k>>
  BY LeavesLeft
<1>2. PathFrom(<<k>>, {}) /\ \A x : x # k => PathFrom(<<k>>, {x})
  BY ShortPaths
<1>3. /\ getPath(n, <<k>>) = v
      /\ \A x : x # k => getPath(n, <<x>>) = getPath(q, <<x>>)
  <2> DEFINE p == <<k>>
  <2>1. IsPath(p) /\ \A x : x # k => PathFrom(p, {x})
    BY <1>2 DEF PathFrom
  <2>2. n = setPath(q, p, v)
    OBVIOUS
  <2> HIDE DEF p, n
  <2>3. /\ getPath(setPath(q, p, v), p) = v
        /\ \A x : PathFrom(p, {x}) =>
             getPath(setPath(q, p, v), <<x>>) = getPath(q, <<x>>)
    BY <2>1, SetPathValue
  <2> QED
    BY <2>1, <2>2, <2>3 DEF p
<1> HIDE DEF n
<1>4. ASSUME NEW d \in DOMAIN n, d # <<k>>
      PROVE  d \in DOMAIN o /\ (d \in known => d \in PathsOf(S))
  BY <1>1, <1>4
<1>5. Turned(n, o, known, S, k, v)
  BY <1>3, <1>4 DEF Turned
<1> QED
  BY <1>5 DEF n

\* What a change of a DNS entry leaves of it, by the cleanup tables.
LEMMA CleanupLeft ==
  ASSUME NEW o, IsObject(o), NEW table, NEW source, NEW target, NEW share, NEW k, NEW v,
         \A p \in PathsOf(AllOf(table)) : PathFrom(p, ChoiceKeys),
         NEW n, n = setPath(transitionCleanupFields(o, table, source, target, share),
                            <<k>>, v)
  PROVE  Turned(n, o, PathsOf(AllOf(table)), TargetOf(table, target), k, v)
<1> DEFINE known == PathsOf(AllOf(table))
           compatible == IF share THEN compatibleFields(table, source, target) ELSE {}
           prepared == prepareDomainResolverRoot(o, table, target)
           gone == {p \in PathsIn(prepared) :
                      /\ \E t \in DOMAIN table : p \in PathsOf(table[t])
                      /\ ~ \E f \in compatible :
                             f.path = p /\ matchesCleanup(getPath(prepared, p), f.kind)}
           q == Without(prepared, gone)
<1>1. transitionCleanupFields(o, table, source, target, share) = q
  BY DEF transitionCleanupFields
<1>2. compatible \subseteq TargetOf(table, target)
  BY DEF compatibleFields
<1>3. known = {p : p \in UNION {PathsOf(table[t]) : t \in DOMAIN table}}
  BY DEF PathsOf, AllOf
<1>4. prepared = o \/ prepared = setPath(o, DR, "undefined")
  BY DEF prepareDomainResolverRoot
<1>5. /\ IsObject(prepared)
      /\ \A d \in DOMAIN prepared : d \in DOMAIN o
      /\ \A x \in ChoiceKeys : getPath(prepared, <<x>>) = getPath(o, <<x>>)
  <2>1. IsPath(DR) /\ \A x \in ChoiceKeys : PathFrom(DR, {x})
    BY ShortPaths DEF DR, ChoiceKeys, PathFrom
  <2>2. /\ IsObject(setPath(o, DR, "undefined"))
        /\ \A x \in ChoiceKeys :
             getPath(setPath(o, DR, "undefined"), <<x>>) = getPath(o, <<x>>)
    <3>1. IsObject(setPath(o, DR, "undefined"))
      BY <2>1, SetPathObject
    <3>2. \A x : PathFrom(DR, {x}) =>
            getPath(setPath(o, DR, "undefined"), <<x>>) = getPath(o, <<x>>)
      BY <2>1, SetPathValue
    <3> QED
      BY <2>1, <3>1, <3>2
  <2>3. \A d \in DOMAIN setPath(o, DR, "undefined") : d \in DOMAIN o
    <3>1. setPath(o, DR, "undefined") = Without(o, {DR})
      BY DEF setPath
    <3> QED
      BY <3>1, LeavesLeft
  <2> HIDE DEF prepared
  <2> QED
    BY <1>4, <2>2, <2>3
<1> HIDE DEF prepared
<1>6. \A p \in gone : p \in known
  BY <1>3
<1>7. \A d : d \in DOMAIN prepared /\ d \in known /\ d \notin gone =>
        d \in PathsOf(TargetOf(table, target))
  <2>1. \A d \in DOMAIN prepared : d \in PathsIn(prepared)
    BY <1>5, SelfPrefix DEF PathsIn, IsObject
  <2> QED
    BY <1>2, <1>3, <2>1 DEF PathsOf
<1> HIDE DEF gone, compatible
<1>8. IsObject(q) /\ \A d \in DOMAIN q : d \in DOMAIN prepared /\ d \notin gone
  BY <1>5, LeavesLeft, WithoutObject
<1>9. \A x \in ChoiceKeys : getPath(q, <<x>>) = getPath(prepared, <<x>>)
  <2>1. \A x \in ChoiceKeys : \A p \in gone : PathFrom(p, {x})
    BY <1>6 DEF PathFrom, ChoiceKeys
  <2> QED
    BY <1>5, <2>1, WithoutKey
<1> HIDE DEF q
<1>10. n = setPath(q, <<k>>, v)
  BY <1>1
<1> HIDE DEF known
<1>11. /\ \A d \in DOMAIN q : d \in DOMAIN o /\
            (d \in known => d \in PathsOf(TargetOf(table, target)))
       /\ \A x \in ChoiceKeys : getPath(q, <<x>>) = getPath(o, <<x>>)
  BY <1>5, <1>7, <1>8, <1>9
<1>12. Turned(n, o, known, TargetOf(table, target), k, v)
  BY <1>8, <1>10, <1>11, KeySet
<1> QED
  BY <1>12 DEF known

\* The cleanup registry of each type of DNS server.
LEMMA ServerCleanup ==
  ASSUME NEW t \in dnsServerTypes
  PROVE  LET S == dnsServerCleanupFields[t] IN
         /\ t = "legacy" => S = Strings(Top({"address", "address_resolver",
                              "address_strategy", "address_fallback_delay", "strategy",
                              "detour", "client_subnet"}))
         /\ t = "local" => S = localCleanup
         /\ t = "hosts" => S = Fields("list", Top({"path"})) \cup
                               Fields("json-object", Top({"predefined"}))
         /\ t \in {"udp", "tcp"} => S = remoteCleanup
         /\ t \in {"tls", "quic"} => S = remoteCleanup \cup tlsCleanup
         /\ t \in {"https", "h3"} => S = httpsCleanup
         /\ t = "dhcp" => S = localCleanup \cup Strings(Top({"interface"}))
         /\ t = "fakeip" => S = Strings(Top({"inet4_range", "inet6_range"}))
BY DEF dnsServerCleanupFields

\* No field of the registry is at a key that chooses the fields.
LEMMA CleanupFree ==
  /\ \A p \in PathsOf(AllOf(dnsServerCleanupFields)) : PathFrom(p, ChoiceKeys)
  /\ \A p \in PathsOf(AllOf(dnsRuleCleanupFields)) : PathFrom(p, ChoiceKeys)
  /\ \A p \in PathsOf(AllOf(dnsActionCleanupFields)) : PathFrom(p, ChoiceKeys)
<1>1. /\ PathFrom(DR, ChoiceKeys) /\ PathFrom(TLS, ChoiceKeys)
      /\ \A b : PathFrom(<<"tls", b>>, ChoiceKeys)
      /\ \A b, c : PathFrom(<<"tls", b, c>>, ChoiceKeys)
  BY ShortPaths DEF DR, TLS, ChoiceKeys
<1>2. Table(dialerCleanup, ChoiceKeys)
  BY <1>1, ChoiceTop, InSub DEF dialerCleanup, resolverCleanup, Strings, Table
<1>3. Table(remoteCleanup, ChoiceKeys) /\ Table(localCleanup, ChoiceKeys)
  BY <1>2, ChoiceTop DEF remoteCleanup, localCleanup, Strings, Table
<1>4. Table(tlsCleanup, ChoiceKeys)
  BY <1>1, InFields, InSub DEF tlsCleanup, Strings, Table
<1>5. Table(httpsCleanup, ChoiceKeys)
  BY <1>3, <1>4, ChoiceTop DEF httpsCleanup, Strings, Table
<1>6. ASSUME NEW t \in dnsServerTypes PROVE Table(dnsServerCleanupFields[t], ChoiceKeys)
  <2>1. /\ Table(Strings(Top({"address", "address_resolver", "address_strategy",
                "address_fallback_delay", "strategy", "detour", "client_subnet"})),
                ChoiceKeys)
        /\ Table(Fields("list", Top({"path"})) \cup
                 Fields("json-object", Top({"predefined"})), ChoiceKeys)
        /\ Table(Strings(Top({"interface"})), ChoiceKeys)
        /\ Table(Strings(Top({"inet4_range", "inet6_range"})), ChoiceKeys)
    BY ChoiceTop DEF Strings, Table
  <2>2. \A A, B : Table(A, ChoiceKeys) /\ Table(B, ChoiceKeys) =>
                  Table(A \cup B, ChoiceKeys)
    BY DEF Table
  <2> QED
    BY <1>3, <1>4, <1>5, <2>1, <2>2, ServerCleanup DEF dnsServerTypes
<1>7. Table(dnsRuleCleanupFields.default, ChoiceKeys)
      /\ Table(dnsRuleCleanupFields.logical, ChoiceKeys)
  BY ChoiceTop DEF dnsRuleCleanupFields, defaultRuleCleanup, Strings, Table
<1>8. \A a \in dnsActions : PathsOf(dnsActionCleanupFields[a]) \subseteq
                             PathsOf(TargetOf(dnsActionFields, a))
  BY ActionRegistry DEF dnsActionFields, TargetOf
<1>9. \A a \in dnsActions : \A p \in PathsOf(dnsActionCleanupFields[a]) :
        PathFrom(p, ChoiceKeys)
  BY <1>8, DNSTables DEF Table, FieldFrom, PathsOf
<1>10. /\ DOMAIN dnsServerCleanupFields = dnsServerTypes
       /\ DOMAIN dnsRuleCleanupFields = {"default", "logical"}
       /\ DOMAIN dnsActionCleanupFields = dnsActions
  BY DEF dnsServerCleanupFields, dnsRuleCleanupFields, dnsActionCleanupFields
<1> QED
  BY <1>6, <1>7, <1>9, <1>10 DEF AllOf, PathsOf, Table, FieldFrom

\* A field is a record of its path, its kind and its conditions.
IsField(g) == g = [path |-> g.path, kind |-> g.kind, when |-> g.when]

\* Fields with and without conditions are where their table puts them.
LEMMA FieldAt ==
  /\ \A kind, P, f : f \in Fields(kind, P) => IsField(f) /\ f.path \in P
  /\ \A conditions, S, f : f \in When(conditions, S) =>
       \E g \in S : IsField(g) => IsField(f) /\ f.path = g.path
<1>1. \A kind, P, f : f \in Fields(kind, P) => IsField(f) /\ f.path \in P
  BY DEF Fields, IsField
<1>2. ASSUME NEW conditions, NEW S, NEW f \in When(conditions, S)
      PROVE  \E g \in S : IsField(g) => IsField(f) /\ f.path = g.path
  <2>1. PICK g \in S : f = [g EXCEPT !.when = @ \cup conditions]
    BY <1>2 DEF When
  <2>2. ASSUME IsField(g) PROVE IsField(f) /\ f.path = g.path
    <3>1. g = [path |-> g.path, kind |-> g.kind, when |-> g.when]
      BY <2>2 DEF IsField
    <3>2. f = [path |-> g.path, kind |-> g.kind, when |-> g.when \cup conditions]
      BY <2>1, <3>1
    <3> QED
      BY <3>2 DEF IsField
  <2> QED
    BY <2>2
<1> QED
  BY <1>1, <1>2

\* A table that has fields has their paths.
LEMMA HasFields ==
  \A kind, P, S : Fields(kind, P) \subseteq S => P \subseteq PathsOf(S)
<1> SUFFICES ASSUME NEW kind, NEW P, NEW S, Fields(kind, P) \subseteq S
             PROVE  P \subseteq PathsOf(S)
  OBVIOUS
<1>1. PathsOf(Fields(kind, P)) = P
  BY PathsAre
<1> QED
  BY <1>1 DEF PathsOf

\* The dialer, resolver, TLS and HTTP fields are all in the registry.
LEMMA DialerRegistry ==
  PathsOf(dnsDialerFields) \subseteq PathsOf(dialerCleanup)
<1> DEFINE A == {"detour", "bind_interface", "inet4_bind_address", "inet6_bind_address",
             "protect_path", "netns", "connect_timeout", "tcp_keep_alive",
             "tcp_keep_alive_interval", "network_strategy", "fallback_delay",
             "domain_strategy"}
           B == {"routing_mark"}
           C == {"bind_address_no_port", "reuse_addr", "tcp_fast_open",
             "tcp_multi_path", "disable_tcp_keep_alive", "udp_fragment"}
           D == {"network_type", "fallback_network_type"}
           All == A \cup B \cup C \cup D
           R == Sub(DR, {"server", "strategy", "client_subnet", "disable_cache",
                         "rewrite_ttl"})
<1>1. \A f \in Resolver(DR) : IsField(f) /\ f.path \in R
  <2>1. \A N : N \subseteq {"server", "strategy", "client_subnet", "disable_cache",
                            "rewrite_ttl"} => Sub(DR, N) \subseteq R
    BY DEF Sub
  <2> HIDE DEF R
  <2> QED
    BY <2>1, FieldAt DEF Resolver
<1>2. \A f \in dnsDialerFields : f.path \in R \/ \E n \in All : f.path = <<n>>
  <2>1. \A N : \A p \in Top(N) : \E n \in N : p = <<n>>
    BY DEF Top
  <2> HIDE DEF R
  <2> QED
    BY <1>1, <2>1, FieldAt DEF dnsDialerFields, DialerFields
<1>3. /\ Fields("string", Top(A)) \subseteq dialerCleanup
      /\ Fields("routing-mark", Top(B)) \subseteq dialerCleanup
      /\ Fields("boolean", Top(C)) \subseteq dialerCleanup
      /\ Fields("list", Top(D)) \subseteq dialerCleanup
      /\ Fields("string", Sub(DR, {"server", "strategy", "client_subnet"}))
           \subseteq dialerCleanup
      /\ Fields("boolean", Sub(DR, {"disable_cache"})) \subseteq dialerCleanup
      /\ Fields("number", Sub(DR, {"rewrite_ttl"})) \subseteq dialerCleanup
  BY DEF dialerCleanup, resolverCleanup, Strings
<1>4. R \subseteq PathsOf(dialerCleanup)
  <2>1. R = Sub(DR, {"server", "strategy", "client_subnet"}) \cup
            Sub(DR, {"disable_cache"}) \cup Sub(DR, {"rewrite_ttl"})
    BY DEF Sub
  <2> HIDE DEF R
  <2> QED
    BY <1>3, <2>1, HasFields
<1> HIDE DEF A, B, C, D, R
<1>5. \A n \in All : <<n>> \in PathsOf(dialerCleanup)
  BY <1>3, TopName
<1> HIDE DEF All
<1> QED
  BY <1>2, <1>4, <1>5 DEF PathsOf

\* The registry has the TLS fields of the DNS servers.
LEMMA TLSRegistry ==
  PathsOf(dnsTLSFields) \subseteq PathsOf(tlsCleanup)
<1> DEFINE A == Sub(TLS, {"enabled", "disable_sni", "insecure", "fragment",
                  "record_fragment", "kernel_tx", "kernel_rx"})
           B == Sub(TLS, {"server_name", "min_version", "max_version",
                  "certificate_path", "client_certificate_path", "client_key_path",
                  "fragment_fallback_delay"})
           C == Sub(TLS, {"alpn", "cipher_suites", "curve_preferences", "certificate",
                  "certificate_public_key_sha256", "client_certificate", "client_key"})
<1>1. /\ Sub(TLS, {"enabled"}) \subseteq A
      /\ Sub(TLS, {"disable_sni", "insecure"}) \subseteq A
      /\ Sub(TLS, {"server_name", "certificate_path"}) \subseteq B
      /\ Sub(TLS, {"alpn", "certificate"}) \subseteq C
  BY DEF Sub
<1>2. /\ Fields("boolean", A) \subseteq tlsCleanup
      /\ Fields("string", B) \subseteq tlsCleanup
      /\ Fields("list", C) \subseteq tlsCleanup
  BY DEF tlsCleanup, Strings
<1> HIDE DEF A, B, C
<1>3. \A f \in dnsTLSFields : f.path \in A \cup B \cup C
  BY <1>1, FieldAt DEF dnsTLSFields
<1> QED
  BY <1>2, <1>3, HasFields DEF PathsOf

\* What DNS servers may hold by their tables, they may hold by the registry.
LEMMA ServerRegistry ==
  \A t : PathsOf(TargetOf(dnsServerFields, t)) \subseteq
           PathsOf(TargetOf(dnsServerCleanupFields, t))
<1> DEFINE In(S, C) == PathsOf(S) \subseteq PathsOf(C)
<1>1. \A A, B, C : In(A, C) /\ In(B, C) => In(A \cup B, C)
  BY DEF PathsOf
<1>2. \A A, C, D : In(A, C) /\ C \subseteq D => In(A, D)
  BY DEF PathsOf
<1>3. \A kind, P, C : P \subseteq PathsOf(C) => In(Fields(kind, P), C)
  BY PathsAre
<1> HIDE DEF In
<1>4. In(dnsDialerFields, dialerCleanup) /\ In(dnsTLSFields, tlsCleanup)
  BY DialerRegistry, TLSRegistry DEF In
<1>5. In(remoteFields, remoteCleanup)
  <2>1. /\ Fields("string", Top({"server"})) \subseteq remoteCleanup
        /\ Fields("number", Top({"server_port"})) \subseteq remoteCleanup
        /\ dialerCleanup \subseteq remoteCleanup
    BY DEF remoteCleanup, Strings
  <2>2. /\ In(Fields("text", Top({"server"})), remoteCleanup)
        /\ In(Fields("number", Top({"server_port"})), remoteCleanup)
        /\ In(dnsDialerFields, remoteCleanup)
    BY <1>2, <1>3, <1>4, <2>1, HasFields
  <2> QED
    BY <1>1, <2>2 DEF remoteFields
<1>6. In(dnsDialerFields \cup Fields("boolean", Top({"prefer_go"})), localCleanup)
  <2>1. /\ Fields("boolean", Top({"prefer_go"})) \subseteq localCleanup
        /\ dialerCleanup \subseteq localCleanup
    BY DEF localCleanup
  <2>2. /\ In(Fields("boolean", Top({"prefer_go"})), localCleanup)
        /\ In(dnsDialerFields, localCleanup)
    BY <1>2, <1>3, <1>4, <2>1, HasFields
  <2> QED
    BY <1>1, <2>2
<1>7. In(remoteFields \cup dnsTLSFields, remoteCleanup \cup tlsCleanup)
  <2>1. /\ In(remoteFields, remoteCleanup \cup tlsCleanup)
        /\ In(dnsTLSFields, remoteCleanup \cup tlsCleanup)
    BY <1>2, <1>4, <1>5
  <2> QED
    BY <1>1, <2>1
<1>8. In(remoteFields \cup dnsTLSFields \cup httpFields, httpsCleanup)
  <2>1. /\ remoteCleanup \cup tlsCleanup \subseteq httpsCleanup
        /\ Fields("string", Top({"path", "method"})) \subseteq httpsCleanup
        /\ Fields("json-object", Top({"headers"})) \subseteq httpsCleanup
    BY DEF httpsCleanup, Strings
  <2>2. /\ In(Fields("text", Top({"path", "method"})), httpsCleanup)
        /\ In(Fields("json-object", Top({"headers"})), httpsCleanup)
        /\ In(remoteFields \cup dnsTLSFields, httpsCleanup)
    BY <1>2, <1>3, <1>7, <2>1, HasFields
  <2>3. In(httpFields, httpsCleanup)
    BY <1>1, <2>2 DEF httpFields
  <2> QED
    BY <1>1, <2>2, <2>3
<1>9. ASSUME NEW t \in dnsServerTypes
      PROVE  In(dnsServerFields[t], dnsServerCleanupFields[t])
  <2> DEFINE S == dnsServerFields[t]
             C == dnsServerCleanupFields[t]
  <2>1. CASE t = "legacy"
    <3> DEFINE L == Strings(Top({"address", "address_resolver", "address_strategy",
                     "address_fallback_delay", "strategy", "detour", "client_subnet"}))
    <3>1. \A f \in S : f \in dnsLegacyFields
      BY <2>1 DEF dnsServerFields, For
    <3>2. C = L
      BY <2>1, ServerCleanup
    <3>3. In(dnsLegacyFields, L)
      <4>1. L = Fields("string", Top({"address", "address_resolver", "address_strategy",
                     "address_fallback_delay", "strategy", "detour", "client_subnet"}))
        BY DEF Strings
      <4>2. PathsOf(L) = Top({"address", "address_resolver", "address_strategy",
                     "address_fallback_delay", "strategy", "detour", "client_subnet"})
        BY <4>1, PathsAre
      <4>3. /\ Top({"address", "address_fallback_delay", "client_subnet"})
                 \subseteq PathsOf(L)
            /\ Top({"address_resolver", "detour"}) \subseteq PathsOf(L)
            /\ Top({"address_strategy", "strategy"}) \subseteq PathsOf(L)
        BY <4>2 DEF Top
      <4> HIDE DEF L
      <4>4. /\ In(Fields("text", Top({"address", "address_fallback_delay",
                                      "client_subnet"})), L)
            /\ In(Fields("ref", Top({"address_resolver", "detour"})), L)
            /\ In(Fields("select", Top({"address_strategy", "strategy"})), L)
        BY <1>3, <4>3
      <4> QED
        BY <1>1, <4>4 DEF dnsLegacyFields
    <3> QED
      BY <3>1, <3>2, <3>3 DEF In, PathsOf
  <2>2. CASE t = "local"
    <3>1. \A f \in S : f \in dnsDialerFields \cup Fields("boolean", Top({"prefer_go"}))
      BY <2>2 DEF dnsServerFields, For
    <3>2. C = localCleanup
      BY <2>2, ServerCleanup
    <3> QED
      BY <1>6, <3>1, <3>2 DEF In, PathsOf
  <2>3. CASE t = "hosts"
    <3>1. S \subseteq C
      BY <2>3, ServerCleanup DEF dnsServerFields, For
    <3> QED
      BY <3>1 DEF In, PathsOf
  <2>4. CASE t \in {"udp", "tcp"}
    <3>1. \A f \in S : f \in remoteFields
      BY <2>4 DEF dnsServerFields, For
    <3>2. C = remoteCleanup
      BY <2>4, ServerCleanup
    <3> QED
      BY <1>5, <3>1, <3>2 DEF In, PathsOf
  <2>5. CASE t \in {"tls", "quic"}
    <3>1. \A f \in S : f \in remoteFields \cup dnsTLSFields
      BY <2>5 DEF dnsServerFields, For
    <3>2. C = remoteCleanup \cup tlsCleanup
      BY <2>5, ServerCleanup
    <3> QED
      BY <1>7, <3>1, <3>2 DEF In, PathsOf
  <2>6. CASE t \in {"https", "h3"}
    <3>1. \A f \in S : f \in remoteFields \cup dnsTLSFields \cup httpFields
      BY <2>6 DEF dnsServerFields, For
    <3>2. C = httpsCleanup
      BY <2>6, ServerCleanup
    <3> QED
      BY <1>8, <3>1, <3>2 DEF In, PathsOf
  <2>7. CASE t = "dhcp"
    <3> DEFINE I == Strings(Top({"interface"}))
    <3>1. \A f \in S : \/ f \in dnsDialerFields \cup Fields("boolean", Top({"prefer_go"}))
                       \/ f \in Fields("network-interface", Top({"interface"}))
      BY <2>7 DEF dnsServerFields, For
    <3>2. C = localCleanup \cup I
      BY <2>7, ServerCleanup
    <3>3. In(Fields("network-interface", Top({"interface"})), I)
      BY PathsAre DEF In, Strings
    <3> QED
      BY <1>6, <3>1, <3>2, <3>3 DEF In, PathsOf
  <2>8. CASE t = "fakeip"
    <3> DEFINE R == Top({"inet4_range", "inet6_range"})
    <3>1. \A f \in S : f \in Fields("text", R)
      BY <2>8 DEF dnsServerFields, For
    <3>2. C = Strings(R)
      BY <2>8, ServerCleanup
    <3>3. In(Fields("text", R), Strings(R))
      BY PathsAre DEF In, Strings
    <3> QED
      BY <3>1, <3>2, <3>3 DEF In, PathsOf
  <2> QED
    BY <2>1, <2>2, <2>3, <2>4, <2>5, <2>6, <2>7, <2>8 DEF dnsServerTypes
<1>10. DOMAIN dnsServerFields = dnsServerTypes
       /\ DOMAIN dnsServerCleanupFields = dnsServerTypes
  BY DEF dnsServerFields, dnsServerCleanupFields
<1> QED
  BY <1>9, <1>10, PathsAre DEF TargetOf, In

\* A DNS server of another type.
LEMMA DNSServerTypeClean ==
  ASSUME NEW o, IsObject(o), Clean("dns_server", o), NEW type \in dnsServerTypes
  PROVE  Clean("dns_server", changeDNSServerType(o, type))
<1> DEFINE current == inferDNSServerType(o)
           known == PathsOf(AllOf(dnsServerCleanupFields))
           v == IF type = "legacy" THEN "undefined" ELSE type
           next(share) == setPath(transitionCleanupFields(o, dnsServerCleanupFields,
                                    current, type, share), <<"type">>, v)
<1>1. \/ changeDNSServerType(o, type) = o
      \/ \E share : changeDNSServerType(o, type) = next(share)
  BY DEF changeDNSServerType
<1>2. ASSUME NEW share PROVE Clean("dns_server", next(share))
  <2> DEFINE n == next(share)
  <2>1. Turned(n, o, known, TargetOf(dnsServerCleanupFields, type), "type", v)
    <3> HIDE DEF current, v
    <3> QED
      BY CleanupFree, CleanupLeft
  <2> HIDE DEF n
  <2>2. /\ \A d \in DOMAIN n : d = <<"type">> \/
             (/\ d \in DOMAIN o
              /\ d \in known => d \in PathsOf(TargetOf(dnsServerCleanupFields, type)))
        /\ getPath(n, <<"type">>) = v
    BY <2>1 DEF Turned
  <2>3. inferDNSServerType(n) = type
    BY <2>2 DEF inferDNSServerType, dnsServerTypes
  <2>4. \A e : OwnPaths("dns_server", e) =
                 PathsOf(TargetOf(dnsServerCleanupFields, inferDNSServerType(e)))
                   \cup Top({"tag"})
    BY OwnIs, PathsAre DEF OwnPaths
  <2>5. PathsOf(TargetOf(dnsServerCleanupFields, current)) \subseteq known
    BY DEF TargetOf, AllOf, PathsOf
  <2>6. ASSUME NEW d \in Minded("dns_server", n) PROVE d \in OwnPaths("dns_server", n)
    <3>1. d # <<"type">> /\ d \in DOMAIN n
      BY <2>6 DEF Minded, Discriminators, Top
    <3>2. d \in OwnPaths("dns_server", o)
      BY <2>2, <2>6, <3>1, CleanIs DEF Minded
    <3> QED
      BY <2>2, <2>3, <2>4, <2>5, <3>1, <3>2
  <2>7. Clean("dns_server", n)
    BY <2>6, CleanIs
  <2> QED
    BY <2>7 DEF n
<1> HIDE DEF next
<1> QED
  BY <1>1, <1>2

\* The tables of a DNS rule, as paths.
LEMMA DNSRuleOwn ==
  ASSUME NEW o
  PROVE  OwnPaths("dns_rule", o) =
           PathsOf(TargetOf(dnsRuleCleanupFields, RuleType(o))) \cup
           (IF Type(o) = "logical" THEN PathsOf(dnsLogicalFields)
            ELSE PathsOf(dnsRuleMatchFields)) \cup
           PathsOf(TargetOf(dnsActionFields, Action(o)))
<1> DEFINE C == TargetOf(dnsRuleCleanupFields, RuleType(o))
           T == IF Type(o) = "logical" THEN dnsLogicalFields ELSE dnsRuleMatchFields
           A == TargetOf(dnsActionFields, Action(o))
<1>1. OwnFields("dns_rule", o) = C \cup (T \cup A)
  <2>1. DNSRuleTabs(o) = T \cup A
    BY DEF DNSRuleTabs
  <2>2. OwnFields("dns_rule", o) = C \cup DNSRuleTabs(o)
    BY OwnIs
  <2> QED
    BY <2>1, <2>2
<1>2. PathsOf(T) = IF Type(o) = "logical" THEN PathsOf(dnsLogicalFields)
                   ELSE PathsOf(dnsRuleMatchFields)
  <2>1. Type(o) = "logical" => T = dnsLogicalFields
    OBVIOUS
  <2>2. Type(o) # "logical" => T = dnsRuleMatchFields
    OBVIOUS
  <2> HIDE DEF T
  <2> QED
    BY <2>1, <2>2
<1> HIDE DEF C, T, A
<1>3. OwnPaths("dns_rule", o) = PathsOf(C) \cup (PathsOf(T) \cup PathsOf(A))
  <2>1. PathsOf(C \cup (T \cup A)) = PathsOf(C) \cup PathsOf(T \cup A)
    BY PathsAre
  <2>2. PathsOf(T \cup A) = PathsOf(T) \cup PathsOf(A)
    BY PathsAre
  <2> QED
    BY <1>1, <2>1, <2>2 DEF OwnPaths
<1> QED
  BY <1>2, <1>3 DEF C, A

\* A DNS rule of another type.
LEMMA DNSRuleTypeClean ==
  ASSUME NEW o, IsObject(o), Clean("dns_rule", o), NEW type \in {"default", "logical"}
  PROVE  Clean("dns_rule", changeDNSRuleType(o, type))
<1> DEFINE current == RuleType(o)
           known == PathsOf(AllOf(dnsRuleCleanupFields))
           v == IF type = "default" THEN "undefined" ELSE type
           n == setPath(transitionCleanupFields(o, dnsRuleCleanupFields, current, type,
                                                TRUE), <<"type">>, v)
<1>1. changeDNSRuleType(o, type) = IF current = type THEN o ELSE n
  BY DEF changeDNSRuleType, RuleType
<1>2. Turned(n, o, known, TargetOf(dnsRuleCleanupFields, type), "type", v)
  <2> HIDE DEF current, v
  <2> QED
    BY CleanupFree, CleanupLeft
<1> HIDE DEF n
<1>3. /\ \A d \in DOMAIN n : d = <<"type">> \/
           (/\ d \in DOMAIN o
            /\ d \in known => d \in PathsOf(TargetOf(dnsRuleCleanupFields, type)))
      /\ getPath(n, <<"type">>) = v
      /\ getPath(n, <<"action">>) = getPath(o, <<"action">>)
  <2>1. \A p \in known : PathFrom(p, {"action"})
    BY CleanupFree, KeysFree
  <2> QED
    BY <1>2, <2>1 DEF Turned, ChoiceKeys
<1>4. RuleType(n) = type /\ Action(n) = Action(o)
  BY <1>3 DEF RuleType, Action, Named
<1>5. /\ PathsOf(dnsRuleMatchFields) \subseteq known
      /\ PathsOf(dnsLogicalFields) \subseteq known
      /\ \A t : PathsOf(TargetOf(dnsRuleCleanupFields, t)) \subseteq known
  <2>1. /\ dnsRuleCleanupFields.default = defaultRuleCleanup
        /\ DOMAIN dnsRuleCleanupFields = {"default", "logical"}
    BY DEF dnsRuleCleanupFields
  <2>2. \A t \in {"default", "logical"} : PathsOf(dnsRuleCleanupFields[t]) \subseteq known
    BY <2>1 DEF AllOf, PathsOf
  <2>3. /\ PathsOf(defaultRuleCleanup) \subseteq known
        /\ PathsOf(dnsRuleCleanupFields.logical) \subseteq known
    BY <2>1, <2>2
  <2> HIDE DEF known
  <2> QED
    BY <2>1, <2>2, <2>3, RuleRegistry, PathsAre DEF TargetOf
<1>6. ASSUME NEW d \in Minded("dns_rule", n) PROVE d \in OwnPaths("dns_rule", n)
  <2>1. d # <<"type">> /\ d \in DOMAIN n
    BY <1>6 DEF Minded, Discriminators, Top
  <2>2. d \in OwnPaths("dns_rule", o)
    BY <1>3, <1>6, <2>1, CleanIs DEF Minded
  <2> HIDE DEF known
  <2>3. d \in known \/ d \in PathsOf(TargetOf(dnsActionFields, Action(o)))
    BY <1>5, <2>2, DNSRuleOwn
  <2> QED
    BY <1>3, <1>4, <2>1, <2>3, DNSRuleOwn
<1> QED
  BY <1>1, <1>6, CleanIs

\* A DNS rule with another action.
LEMMA DNSActionClean ==
  ASSUME NEW o, IsObject(o), Clean("dns_rule", o), NEW action \in dnsActions
  PROVE  Clean("dns_rule", changeDNSAction(o, action))
<1> DEFINE current == Action(o)
           known == PathsOf(AllOf(dnsActionCleanupFields))
           n == setPath(transitionCleanupFields(o, dnsActionCleanupFields, current, action,
                                                TRUE), <<"action">>, action)
<1>1. changeDNSAction(o, action) = IF getPath(o, <<"action">>) = action THEN o ELSE n
  BY DEF changeDNSAction, Action
<1>2. Turned(n, o, known, TargetOf(dnsActionCleanupFields, action), "action", action)
  <2> HIDE DEF current
  <2> QED
    BY CleanupFree, CleanupLeft
<1> HIDE DEF n
<1>3. /\ \A d \in DOMAIN n : d = <<"action">> \/
           (/\ d \in DOMAIN o
            /\ d \in known => d \in PathsOf(TargetOf(dnsActionCleanupFields, action)))
      /\ getPath(n, <<"action">>) = action
      /\ getPath(n, <<"type">>) = getPath(o, <<"type">>)
  <2>1. \A p \in known : PathFrom(p, {"type"})
    BY CleanupFree, KeysFree
  <2> QED
    BY <1>2, <2>1 DEF Turned, ChoiceKeys
<1>4. RuleType(n) = RuleType(o) /\ Type(n) = Type(o) /\ Action(n) = action
  <2>1. action \notin {"undefined", "null"}
    BY DEF dnsActions
  <2> QED
    BY <1>3, <2>1 DEF RuleType, Type, Action, Named
<1>5. \A a : PathsOf(TargetOf(dnsActionFields, a)) =
               PathsOf(TargetOf(dnsActionCleanupFields, a))
  <2>1. /\ DOMAIN dnsActionFields = dnsActions
        /\ DOMAIN dnsActionCleanupFields = dnsActions
    BY DEF dnsActionFields, dnsActionCleanupFields
  <2> QED
    BY <2>1, ActionRegistry DEF TargetOf
<1>6. \A a : PathsOf(TargetOf(dnsActionCleanupFields, a)) \subseteq known
  BY DEF TargetOf, AllOf, PathsOf
<1>7. ASSUME NEW d \in Minded("dns_rule", n) PROVE d \in OwnPaths("dns_rule", n)
  <2>1. d # <<"action">> /\ d \in DOMAIN n
    BY <1>7 DEF Minded, Discriminators, Top
  <2>2. d \in OwnPaths("dns_rule", o)
    BY <1>3, <1>7, <2>1, CleanIs DEF Minded
  <2> HIDE DEF known
  <2>3. d \in known => d \in PathsOf(TargetOf(dnsActionFields, action))
    BY <1>3, <1>5, <2>1
  <2>4. d \in PathsOf(TargetOf(dnsActionFields, Action(o))) => d \in known
    BY <1>5, <1>6
  <2> QED
    BY <1>4, <2>2, <2>3, <2>4, DNSRuleOwn
<1> QED
  BY <1>1, <1>7, CleanIs

----------------------------------------------------------------------------
(* The fields of the proxies, by the keys that they begin with. *)

\* All fields of the table begin with the key.
Under(S, key) == \A f \in S : IsPath(f.path) /\ Len(f.path) # 0 /\ f.path[1] = key

\* A table that avoids every set of keys without the key is under the key.
LEMMA UnderKey ==
  ASSUME NEW S, NEW key, \A X : key \notin X => Table(S, X)
  PROVE  Under(S, key)
<1> SUFFICES ASSUME NEW f \in S
             PROVE  IsPath(f.path) /\ Len(f.path) # 0 /\ f.path[1] = key
  BY DEF Under
<1>1. Table(S, {})
  OBVIOUS
<1>2. f.path[1] # key => Table(S, {f.path[1]})
  OBVIOUS
<1> QED
  BY <1>1, <1>2 DEF Table, FieldFrom, PathFrom

\* The TLS, multiplex and transport fields begin with the key of their group.
LEMMA GroupTables ==
  ASSUME NEW X
  PROVE  /\ "tls" \notin X => Table(inboundTLSFields, X) /\ Table(outboundTLSFields, X)
         /\ "multiplex" \notin X =>
              Table(inboundMultiplexFields, X) /\ Table(outboundMultiplexFields, X)
         /\ "transport" \notin X => \A t : Table(transportTypeFields(t), X)
<1>1. ASSUME "tls" \notin X
      PROVE  Table(inboundTLSFields, X) /\ Table(outboundTLSFields, X)
  <2>1. /\ PathFrom(TLS, X) /\ \A b : PathFrom(<<"tls", b>>, X)
        /\ \A b, c : PathFrom(<<"tls", b, c>>, X)
        /\ \A b, c, d : PathFrom(<<"tls", b, c, d>>, X)
    BY <1>1, ShortPaths DEF TLS
  <2>2. Table(inboundTLSFields, X)
    BY <2>1, InSub, InFields, InWhen DEF inboundTLSFields, Table
  <2>3. Table(outboundTLSFields, X)
    BY <2>1, InSub, InFields, InWhen DEF outboundTLSFields, Table
  <2> QED
    BY <2>2, <2>3
<1>2. ASSUME "multiplex" \notin X
      PROVE  Table(inboundMultiplexFields, X) /\ Table(outboundMultiplexFields, X)
  <2>1. /\ PathFrom(MUX, X) /\ \A b : PathFrom(<<"multiplex", b>>, X)
        /\ \A b, c : PathFrom(<<"multiplex", b, c>>, X)
    BY <1>2, ShortPaths DEF MUX
  <2>2. Table(inboundMultiplexFields, X)
    BY <2>1, InSub, InFields, InWhen DEF inboundMultiplexFields, brutalFields, Table
  <2>3. Table(outboundMultiplexFields, X)
    BY <2>1, <2>2, InSub, InFields, InWhen DEF outboundMultiplexFields, Table
  <2> QED
    BY <2>2, <2>3
<1>3. ASSUME "transport" \notin X PROVE \A t : Table(transportTypeFields(t), X)
  <2>1. PathFrom(TR, X) /\ PathFrom(transportType, X)
    BY <1>3, ShortPaths DEF TR, transportType
  <2>2. \A t \in transportTypes5 : Table(transportByType[t], X)
    BY <2>1, InSub, InFor DEF transportByType, Table
  <2>3. DOMAIN transportByType = transportTypes5
    BY DEF transportByType
  <2>4. Table(Fields("select", {transportType}), X)
    BY <2>1, InFields DEF Table
  <2> QED
    BY <2>2, <2>3, <2>4 DEF transportTypeFields, TargetOf, Table
<1> QED
  BY <1>1, <1>2, <1>3

\* The groups are below the keys that they are removed by.
LEMMA GroupsUnder ==
  /\ \A d \in PathsOf(inboundTLSFields) \cup PathsOf(outboundTLSFields) :
       IsPrefix(TLS, d)
  /\ \A d \in PathsOf(inboundMultiplexFields) \cup PathsOf(outboundMultiplexFields) :
       IsPrefix(MUX, d)
  /\ \A t : \A d \in PathsOf(transportTypeFields(t)) : IsPrefix(TR, d)
<1>1. ASSUME NEW d, IsPath(d), Len(d) # 0 PROVE IsPrefix(<<d[1]>>, d)
  <2> DEFINE K == {d[i] : i \in 1 .. Len(d)}
             key == <<d[1]>>
  <2>1. d \in Seq(K) /\ Len(d) \in Nat /\ Len(d) >= 1
    BY <1>1, PathIsSeq DEF IsPath
  <2>2. d[1] \in K
    BY <2>1
  <2> HIDE DEF K
  <2>3. key \in Seq(K) /\ Len(key) = 1 /\ key[1] = d[1]
    BY <2>2
  <2> HIDE DEF key
  <2>4. /\ Len(SubSeq(d, 1, 1)) = 1 /\ SubSeq(d, 1, 1)[1] = d[1]
        /\ SubSeq(d, 1, 1) \in Seq(K)
    BY <2>1, SubSeqProperties
  <2>5. /\ Len(SubSeq(key, 1, 1)) = 1 /\ SubSeq(key, 1, 1)[1] = d[1]
        /\ SubSeq(key, 1, 1) \in Seq(K)
    BY <2>3, SubSeqProperties
  <2>6. SubSeq(d, 1, 1) = SubSeq(key, 1, 1)
    BY <2>4, <2>5, SeqEqual
  <2>7. IsPrefix(key, d)
    BY <2>1, <2>3, <2>6 DEF IsPrefix
  <2> QED
    BY <2>7 DEF key
<1>2. \A S, key : Under(S, key) => \A d \in PathsOf(S) : IsPrefix(<<key>>, d)
  BY <1>1 DEF Under, PathsOf
<1>3. /\ Under(inboundTLSFields, "tls") /\ Under(outboundTLSFields, "tls")
      /\ Under(inboundMultiplexFields, "multiplex")
      /\ Under(outboundMultiplexFields, "multiplex")
      /\ \A t : Under(transportTypeFields(t), "transport")
  BY UnderKey, GroupTables
<1> QED
  BY <1>2, <1>3 DEF TLS, MUX, TR

----------------------------------------------------------------------------
(* Edits keep the choice. *)

Apart(p, k) == ~IsPrefix(p, k) /\ ~IsPrefix(k, p)

\* A part with the leaves of the choice has the choice.
LEMMA ChoicePart ==
  ASSUME NEW f, NEW o, NEW n, Part(n, o),
         \A k \in Choice(f) : k \in DOMAIN o => k \in DOMAIN n /\ n[k] = o[k]
  PROVE  SameChoice(f, n, o)
BY DEF SameChoice, Part, getPath

\* Setting a path apart from it keeps the choice.
LEMMA ChoiceSet ==
  ASSUME NEW f, NEW o, IsObject(o), NEW p, IsPath(p), NEW v,
         \A k \in Choice(f) : Apart(p, k)
  PROVE  SameChoice(f, setPath(o, p, v), o)
<1> DEFINE rest == Without(o, {p})
           n == setPath(o, p, v)
<1>1. n = IF v = "undefined" THEN rest
          ELSE [d \in DOMAIN rest \cup {p} |-> IF d = p THEN v ELSE rest[d]]
  BY DEF setPath
<1>2. /\ \A d \in DOMAIN o : ~IsPrefix(p, d) /\ ~IsStrictPrefix(d, p) => d \in DOMAIN rest
      /\ \A d \in DOMAIN rest : rest[d] = o[d]
  BY DEF Without, Restrict
<1>3. \A q : ~IsPrefix(q, p) => getPath(n, q) \in {getPath(o, q), "undefined"}
  BY SetPathValue
<1>4. IsPrefix(p, p)
  BY SelfPrefix
<1> HIDE DEF rest, n
<1>5. \A k \in Choice(f) : k \in DOMAIN o => k \in DOMAIN n /\ n[k] = o[k]
  BY <1>1, <1>2, <1>4 DEF Apart, IsStrictPrefix
<1>6. SameChoice(f, n, o)
  BY <1>3, <1>5 DEF SameChoice, Apart, getPath
<1> QED
  BY <1>6 DEF n

\* Pruning by fields that are apart from it or always shown keeps the choice.
LEMMA ChoicePrune ==
  ASSUME NEW f, NEW o, IsObject(o), NEW fields,
         \A g \in fields, k \in Choice(f) : Apart(g.path, k) \/ g.when = {}
  PROVE  SameChoice(f, pruneInvisibleFields(o, fields), o)
<1> DEFINE K == Choice(f) \cap DOMAIN o
           n == pruneInvisibleFields(o, fields)
<1>1. ASSUME NEW L \in SUBSET DOMAIN o, NEW g \in Hides(o, fields, L), NEW k \in K
      PROVE  ~IsPrefix(g.path, k) /\ ~IsStrictPrefix(k, g.path)
  <2>1. g \in fields /\ g.when # {}
    BY <1>1 DEF Hides, HiddenButSet, isFieldVisible
  <2> QED
    BY <2>1 DEF Apart, IsStrictPrefix
<1>2. K \in SUBSET DOMAIN o
  OBVIOUS
<1> HIDE DEF K
<1>3. K \subseteq DOMAIN n
  BY <1>1, <1>2, PruneKeeps
<1>4. Part(n, o) /\ \A d \in DOMAIN n : n[d] = o[d]
  BY Parts, PruneSettles
<1> HIDE DEF n
<1>5. SameChoice(f, n, o)
  BY <1>3, <1>4, ChoicePart DEF K
<1> QED
  BY <1>5 DEF n

\* The paths of the choice, and what is apart from them.
LEMMA ChoicePaths ==
  ASSUME NEW f, NEW k \in Choice(f)
  PROVE  /\ IsPath(k) /\ Len(k) # 0
         /\ f \notin ProxyFormNames => k[1] \in ChoiceKeys
         /\ f \in ProxyFormNames => k[1] \in ProxyKeys /\ k \in {<<"type">>, transportType}
<1>1. k \in {<<"type">>, <<"action">>} \/ (f \in ProxyFormNames /\ k = transportType)
  BY DEF Choice
<1>2. f \in ProxyFormNames => k \in {<<"type">>, transportType}
  BY DEF Choice, ProxyFormNames
<1>3. /\ IsPath(<<"type">>) /\ Len(<<"type">>) # 0 /\ <<"type">>[1] = "type"
      /\ IsPath(<<"action">>) /\ Len(<<"action">>) # 0 /\ <<"action">>[1] = "action"
  BY DEF IsPath
<1>4. /\ "type" \in ChoiceKeys /\ "action" \in ChoiceKeys
      /\ "type" \in ProxyKeys /\ "transport" \in ProxyKeys
  BY DEF ChoiceKeys, ProxyKeys
<1>5. CASE k = <<"type">>
  BY <1>3, <1>4, <1>5
<1>6. CASE k = transportType /\ f \in ProxyFormNames
  BY <1>4, <1>6, TransportPath
<1>7. CASE k = <<"action">> /\ f \notin ProxyFormNames
  BY <1>3, <1>4, <1>7
<1> QED
  BY <1>1, <1>2, <1>5, <1>6, <1>7

\* The fields of other keys are apart from the choice.
LEMMA ApartKeys ==
  ASSUME NEW f, NEW k \in Choice(f), NEW p
  PROVE  /\ f \notin ProxyFormNames /\ PathFrom(p, ChoiceKeys) => Apart(p, k)
         /\ f \in ProxyFormNames /\ PathFrom(p, ProxyKeys) => Apart(p, k)
BY ChoicePaths, FirstKey DEF PathFrom, Apart

\* The fields of the proxies are apart from the choice, or select it.
LEMMA ApartFields ==
  ASSUME NEW f \in ProxyFormNames, NEW S, ProxyTable(S), NEW g \in S, NEW k \in Choice(f)
  PROVE  /\ Apart(g.path, k) \/ g.when = {}
         /\ g.path # transportType => Apart(g.path, k)
<1>1. PathFrom(g.path, {"type"}) /\ (g.path[1] = "transport" => AtTransport(g))
  BY DEF ProxyTable
<1>2. k \in {<<"type">>, transportType}
  BY ChoicePaths
<1>3. CASE g.path[1] # "transport"
  <2>1. PathFrom(g.path, ProxyKeys)
    BY <1>1, <1>3 DEF PathFrom, ProxyKeys
  <2> QED
    BY <2>1, ApartKeys
<1>4. CASE g.path[1] = "transport"
  <2>1. PICK x : g.path = <<"transport", x>> /\ (x = "type" => g.when = {})
    BY <1>1, <1>4 DEF AtTransport
  <2>2. x # "type" => Apart(<<"transport", x>>, transportType)
    BY DEF Apart, IsPrefix, transportType
  <2>3. Apart(g.path, <<"type">>)
    BY <1>1, TypePath, FirstKey DEF PathFrom, Apart
  <2>4. x = "type" => g.path = transportType /\ g.when = {}
    BY <2>1 DEF transportType
  <2> QED
    BY <1>2, <2>1, <2>2, <2>3, <2>4
<1> QED
  BY <1>3, <1>4

----------------------------------------------------------------------------
(* Type and transport changes of the proxies. *)

\* What an outbound of a type and a transport may hold, path by path.
OutboundOwned(T, R, d) ==
    \/ d \in Top({"tag"})
    \/ T \in serverTypes /\ d \in Top({"server", "server_port"})
    \/ T \in dialerTypes /\ d \in PathsOf(outboundDialerFields)
    \/ d \in PathsOf(outboundTypeFields(T))
    \/ T \in outboundTLSTypes /\ d \in PathsOf(outboundTLSFields)
    \/ T \in transportTypes /\ d \in PathsOf(transportTypeFields(R))
    \/ T \in multiplexTypes /\ d \in PathsOf(outboundMultiplexFields)

\* That is what it owns.
LEMMA OutboundHolds ==
  ASSUME NEW o, Listed("outbound", o), NEW d
  PROVE  d \in OwnPaths("outbound", o) <=>
           OutboundOwned(ProxyType(o), Transport(o), d)
<1> DEFINE T == ProxyType(o)
           R == Transport(o)
           S == managedOutboundFields[T][R]
<1>1. S = outboundFields(T, R)
  BY DEF Listed, managedOutboundFields
<1>2. d \in OwnPaths("outbound", o) <=>
        \/ d \in PathsOf(S) \/ d \in Top({"tag"})
        \/ T \in serverTypes /\ d \in Top({"server", "server_port"})
  <2> HIDE DEF S
  <2>1. OwnPaths("outbound", o) =
          PathsOf(S) \cup Top({"tag"})
            \cup (IF T \in serverTypes THEN Top({"server", "server_port"}) ELSE {})
    BY OutboundOwn DEF S
  <2> QED
    BY <2>1
<1>3. \A f : f \in S <=>
        \/ T \in dialerTypes /\ f \in outboundDialerFields
        \/ f \in outboundTypeFields(T)
        \/ T \in outboundTLSTypes /\ f \in outboundTLSFields
        \/ T \in transportTypes /\ f \in transportTypeFields(R)
        \/ T \in multiplexTypes /\ f \in outboundMultiplexFields
  BY <1>1 DEF outboundFields
<1>4. \A A : d \in PathsOf(A) <=> \E f \in A : f.path = d
  BY DEF PathsOf
<1> HIDE DEF S, T, R
<1>5. d \in PathsOf(S) <=>
        \/ T \in dialerTypes /\ d \in PathsOf(outboundDialerFields)
        \/ d \in PathsOf(outboundTypeFields(T))
        \/ T \in outboundTLSTypes /\ d \in PathsOf(outboundTLSFields)
        \/ T \in transportTypes /\ d \in PathsOf(transportTypeFields(R))
        \/ T \in multiplexTypes /\ d \in PathsOf(outboundMultiplexFields)
  BY <1>3, <1>4
<1> QED
  BY <1>2, <1>5 DEF OutboundOwned, T, R

\* A leaf stays when only paths apart from it are removed or set.
LEMMA LeafStays ==
  ASSUME NEW o, IsObject(o), NEW k, getPath(o, k) # "object",
         NEW paths, \A p \in paths : Apart(p, k),
         NEW p, IsPath(p), Apart(p, k), NEW v
  PROVE  getPath(setPath(Without(o, paths), p, v), k) = getPath(o, k)
<1> DEFINE q == Without(o, paths)
           rest == Without(q, {p})
           n == setPath(q, p, v)
<1>1. n = IF v = "undefined" THEN rest
          ELSE [d \in DOMAIN rest \cup {p} |-> IF d = p THEN v ELSE rest[d]]
  BY DEF setPath
<1>2. k \in DOMAIN o => k \in DOMAIN q /\ q[k] = o[k]
  BY DEF Without, Restrict, Apart, IsStrictPrefix
<1>3. k \in DOMAIN q => k \in DOMAIN rest /\ rest[k] = q[k]
  BY DEF Without, Restrict, Apart, IsStrictPrefix
<1>4. IsObject(q) /\ getPath(q, k) \in {getPath(o, k), "undefined"}
  BY WithoutObject
<1> HIDE DEF q
<1>5. getPath(n, k) \in {getPath(q, k), "undefined"}
  BY <1>4, SetPathValue DEF Apart
<1>6. IsPrefix(p, p)
  BY SelfPrefix
<1> HIDE DEF rest
<1>7. k \in DOMAIN o => k \in DOMAIN n /\ n[k] = o[k]
  BY <1>1, <1>2, <1>3, <1>6 DEF Apart
<1> HIDE DEF n
<1>8. getPath(n, k) = getPath(o, k)
  BY <1>4, <1>5, <1>7 DEF getPath
<1> QED
  BY <1>8 DEF n, q

\* A listed entry has no object for a type or a transport's type.
LEMMA ListedLeaves ==
  ASSUME NEW f, NEW o, Listed(f, o)
  PROVE  getPath(o, <<"type">>) # "object" /\ getPath(o, transportType) # "object"
<1>1. "object" \notin inboundNames /\ "object" \notin outboundNames
      /\ "object" \notin transportNames
  BY DEF inboundNames, inboundTypes, outboundNames, outboundTypes, dialerTypes,
         serverTypes, groupTypes, transportNames, transportTypes5, Unnamed
<1> QED
  BY <1>1 DEF Listed, ProxyType, Transport, Named

\* The transport stays through a change of the type that keeps it.
LEMMA TransportStays ==
  ASSUME NEW f, NEW o, IsObject(o), Listed(f, o), NEW paths,
         \A p \in paths : PathFrom(p, ProxyKeys), NEW type
  PROVE  Transport(setPath(Without(o, paths), <<"type">>, type)) = Transport(o)
<1> DEFINE t == <<"type">>
<1>1. IsPath(t) /\ ~IsPrefix(t, transportType) /\ ~IsPrefix(transportType, t)
  BY DEF IsPath, transportType, IsPrefix
<1>2. \A p \in paths : Apart(p, transportType)
  BY FirstKey, TransportPath DEF PathFrom, ProxyKeys, Apart
<1> HIDE DEF t
<1>3. getPath(setPath(Without(o, paths), t, type), transportType) =
        getPath(o, transportType)
  BY <1>1, <1>2, ListedLeaves, LeafStays DEF Apart
<1> QED
  BY <1>3 DEF Transport, Named, t

\* The type and what is left after such a change.
LEMMA TypeSet ==
  ASSUME NEW o, IsObject(o), NEW paths, NEW type, type \notin {"undefined", "null"}
  PROVE  LET n == setPath(Without(o, paths), <<"type">>, type) IN
         /\ ProxyType(n) = type
         /\ \A d \in DOMAIN n : d = <<"type">> \/
              (d \in DOMAIN o /\ \A p \in paths : ~IsPrefix(p, d) /\ p # d)
<1> DEFINE t == <<"type">>
           q == Without(o, paths)
           n == setPath(q, t, type)
<1>1. IsPath(t)
  BY TypePath
<1>2. IsObject(q) /\ \A d \in DOMAIN q : d \in DOMAIN o /\ \A p \in paths : ~IsPrefix(p, d) /\ p # d
  BY WithoutObject, LeavesLeft
<1> HIDE DEF t, q
<1>3. getPath(n, t) = type /\ \A d \in DOMAIN n : d \in DOMAIN q \/ d = t
  BY <1>1, <1>2, SetPathValue, LeavesLeft
<1> HIDE DEF n
<1>4. ProxyType(n) = type
  BY <1>3 DEF ProxyType, Named, t
<1> QED
  BY <1>2, <1>3, <1>4 DEF n, q, t

\* The known fields of the outbounds' types and of the transports.
LEMMA KnownProtocol ==
  ASSUME NEW p
  PROVE  /\ p \in knownProtocolPaths <=> \E t : p \in PathsOf(outboundTypeFields(t))
         /\ \A t : p \in PathsOf(transportTypeFields(t)) /\ p # transportType =>
              p \in knownTransportPaths /\ p \in PathsOf(TargetOf(transportByType, t))
         /\ \A t : p \in PathsOf(TargetOf(transportByType, t)) =>
              p \in PathsOf(transportTypeFields(t))
<1>1. \A table : p \in PathsOf(AllOf(table)) <=> \E t : p \in PathsOf(TargetOf(table, t))
  BY DEF PathsOf, AllOf, TargetOf
<1>2. \A t : p \in PathsOf(outboundTypeFields(t)) <=>
        \/ p \in PathsOf(TargetOf(outboundProtocolMap, t))
        \/ p \in PathsOf(TargetOf(groupMap, t))
  BY PathsAre DEF outboundTypeFields
<1>3. \A t : p \in PathsOf(transportTypeFields(t)) <=>
        p = transportType \/ p \in PathsOf(TargetOf(transportByType, t))
  BY PathsAre DEF transportTypeFields
<1> QED
  BY <1>1, <1>2, <1>3 DEF knownProtocolPaths, knownTransportPaths

\* What a change of an outbound's type removes is at neither a type nor a
\* transport, as long as the new type has one.
LEMMA OutboundGone ==
  ASSUME NEW o, NEW type \in transportTypes,
         NEW p \in Unused(type) \cup credentialPaths \cup tlsCredentialPaths \cup
                   Incompatible(o, knownProtocolPaths, outboundTypeFields(type))
  PROVE  PathFrom(p, ProxyKeys)
<1>1. p \in credentialPaths \cup tlsCredentialPaths => PathFrom(p, ProxyKeys)
  BY SecretPaths
<1>2. p \in knownProtocolPaths => PathFrom(p, ProxyKeys)
  BY KnownProtocol, OutboundPlain DEF PathsOf, Table, FieldFrom
<1>3. p \in Unused(type) => PathFrom(p, ProxyKeys)
  <2>1. \A q \in Top({"server", "server_port"}) : PathFrom(q, ProxyKeys)
    BY ShortPaths DEF Top, ProxyKeys
  <2>2. \A q \in PathsOf(outboundDialerFields) : PathFrom(q, ProxyKeys)
    BY OutboundPlain DEF PathsOf, Table, FieldFrom
  <2>3. p \in Unused(type) =>
          p \in Top({"server", "server_port"}) \cup PathsOf(outboundDialerFields)
                \cup {TLS, MUX}
    BY DEF Unused
  <2> QED
    BY <2>1, <2>2, <2>3, TLSPaths
<1> QED
  BY <1>1, <1>2, <1>3 DEF Incompatible

\* An outbound of another type.
LEMMA OutboundTypeClean ==
  ASSUME NEW o, Good("outbound", o), Clean("outbound", o), NEW type \in outboundTypes
  PROVE  Clean("outbound", changeOutboundType(o, type))
<1> DEFINE gone == Unused(type) \cup credentialPaths \cup tlsCredentialPaths \cup
                     Incompatible(o, knownProtocolPaths, outboundTypeFields(type))
           n == setPath(Without(o, gone), <<"type">>, type)
           T == ProxyType(o)
           R == Transport(o)
<1>1. changeOutboundType(o, type) = IF T = type THEN o ELSE n
  BY DEF changeOutboundType, ProxyType
<1>2. IsObject(o) /\ Listed("outbound", o)
  BY DEF Good, ProxyFormNames
<1>3. type \notin {"undefined", "null"} /\ "outbound" \in TypedForms
  BY DEF outboundTypes, dialerTypes, serverTypes, groupTypes, TypedForms
<1>4. type \in transportTypes => \A p \in gone : PathFrom(p, ProxyKeys)
  BY OutboundGone
<1>5. ASSUME T # type PROVE Listed("outbound", n)
  <2>1. TypeOptions("outbound") = outboundTypes
    BY DEF TypeOptions
  <2>2. Retyped("outbound", o, type) = n
    <3>1. Retyped("outbound", o, type) = changeOutboundType(o, type)
      BY DEF Retyped
    <3> QED
      BY <1>1, <1>5, <3>1
  <2> HIDE DEF n
  <2> QED
    BY <1>3, <2>1, <2>2, RetypedGood DEF Good, ProxyFormNames
<1>6. /\ Unused(type) \subseteq gone
      /\ \A p \in knownProtocolPaths : p \notin gone =>
           p \in PathsOf(outboundTypeFields(type))
  BY DEF Incompatible, PathsOf
<1> HIDE DEF gone
<1>7. /\ ProxyType(n) = type
      /\ \A d \in DOMAIN n : d = <<"type">> \/
           (d \in DOMAIN o /\ \A p \in gone : ~IsPrefix(p, d) /\ p # d)
      /\ type \in transportTypes => Transport(n) = R
  BY <1>2, <1>3, <1>4, TypeSet, TransportStays
<1> HIDE DEF n
<1>8. ASSUME NEW d \in OwnPaths("outbound", o), \A p \in gone : ~IsPrefix(p, d) /\ p # d
      PROVE  OutboundOwned(type, Transport(n), d)
  <2>1. OutboundOwned(T, R, d)
    BY <1>2, OutboundHolds
  <2>2. /\ d \in Top({"server", "server_port"}) => type \in serverTypes
        /\ d \in PathsOf(outboundDialerFields) => type \in dialerTypes
        /\ IsPrefix(TLS, d) => type \in outboundTLSTypes
        /\ IsPrefix(TR, d) => type \in transportTypes
        /\ IsPrefix(MUX, d) => type \in multiplexTypes
    BY <1>6, <1>8 DEF Unused
  <2>3. d \in PathsOf(outboundTypeFields(T)) => d \in PathsOf(outboundTypeFields(type))
    BY <1>6, <1>8, KnownProtocol
  <2> HIDE DEF T, R
  <2> QED
    BY <1>7, <2>1, <2>2, <2>3, GroupsUnder DEF OutboundOwned
<1>9. ASSUME T # type PROVE Minded("outbound", n) \subseteq OwnPaths("outbound", n)
  <2>1. ASSUME NEW d \in Minded("outbound", n) PROVE d \in OwnPaths("outbound", n)
    <3>1. d # <<"type">> /\ d \in DOMAIN n
      BY <2>1 DEF Minded, Discriminators, Top
    <3>2. d \in OwnPaths("outbound", o)
      BY <1>7, <2>1, <3>1, CleanIs DEF Minded
    <3> QED
      BY <1>5, <1>7, <1>8, <1>9, <3>1, <3>2, OutboundHolds
  <2> QED
    BY <2>1
<1> QED
  BY <1>1, <1>9, CleanIs

\* The value that is set is there.
LEMMA ValueSet ==
  \A o, p, v : IsObject(o) /\ IsPath(p) => getPath(setPath(o, p, v), p) = v
BY SetPathValue

\* An outbound with another transport, before it is pruned.
LEMMA OutboundTransportClean ==
  ASSUME NEW o, Good("outbound", o), Clean("outbound", o),
         NEW R2 \in transportTypes5 \cup {""}
  PROVE  Clean("outbound", changeOutboundTransportType(o, R2))
<1> DEFINE gone == Incompatible(o, knownTransportPaths, TargetOf(transportByType, R2))
           v == IF R2 = "" THEN "undefined" ELSE R2
           q == Without(o, gone)
           n == setPath(q, transportType, v)
           T == ProxyType(o)
           R == Transport(o)
<1>1. changeOutboundTransportType(o, R2) = n
  BY DEF changeOutboundTransportType
<1>2. IsObject(o) /\ Listed("outbound", o)
  BY DEF Good, ProxyFormNames
<1>3. \A p \in gone : PathFrom(p, {"type"})
  BY TransportPaths DEF Incompatible
<1>4. \A p \in knownTransportPaths : p \notin gone =>
        p \in PathsOf(TargetOf(transportByType, R2))
  BY DEF Incompatible, PathsOf
<1> HIDE DEF gone
<1>5. /\ IsObject(q) /\ SameType(q, o)
      /\ \A d \in DOMAIN q : d \in DOMAIN o /\ d \notin gone
  BY <1>2, <1>3, WithoutObject, WithoutKey, LeavesLeft DEF SameType
<1> HIDE DEF q
<1>6. /\ SameType(n, q) /\ getPath(n, transportType) = v
      /\ \A d \in DOMAIN n : d \in DOMAIN q \/ d = transportType
  <2>1. SameType(n, q)
    BY <1>5, TransportPath, TypeAfterSet DEF PathFrom
  <2>2. getPath(n, transportType) = v
    BY <1>5, TransportPath, ValueSet
  <2>3. \A d \in DOMAIN n : d \in DOMAIN q \/ d = transportType
    BY <1>5, LeavesLeft
  <2> QED
    BY <2>1, <2>2, <2>3
<1> HIDE DEF n
<1>7. ProxyType(n) = T
  BY <1>5, <1>6 DEF SameType, ProxyType, Named
<1>8. Transport(n) = R2
  BY <1>6 DEF Transport, Named, transportTypes5
<1>9. Listed("outbound", n)
  BY <1>2, <1>7, <1>8 DEF Listed, transportNames, Unnamed
<1>10. ASSUME NEW d \in Minded("outbound", n) PROVE d \in OwnPaths("outbound", n)
  <2>1. d # transportType /\ d \in DOMAIN o /\ d \notin gone
    BY <1>5, <1>6, <1>10 DEF Minded, Discriminators
  <2>2. d \in OwnPaths("outbound", o)
    BY <1>10, <2>1, CleanIs DEF Minded
  <2>3. OutboundOwned(T, R, d)
    BY <1>2, <2>2, OutboundHolds
  <2>4. d \in PathsOf(transportTypeFields(R)) => d \in PathsOf(transportTypeFields(R2))
    BY <1>4, <2>1, KnownProtocol
  <2> HIDE DEF T, R
  <2>5. OutboundOwned(T, R2, d)
    BY <2>3, <2>4 DEF OutboundOwned
  <2> QED
    BY <1>7, <1>8, <1>9, <2>5, OutboundHolds
<1> QED
  BY <1>1, <1>10, CleanIs

\* The fields of a tunnel share no key with those of the other inbounds' types.
TunNames ==
    {"interface_name", "udp_timeout", "mtu", "stack", "auto_route", "auto_redirect",
     "strict_route", "exclude_mptcp", "iproute2_table_index", "iproute2_rule_index",
     "auto_redirect_input_mark", "auto_redirect_output_mark",
     "auto_redirect_reset_mark", "auto_redirect_nfqueue",
     "auto_redirect_iproute2_fallback_rule_index", "address", "loopback_address",
     "route_address", "route_address_set", "route_exclude_address",
     "route_exclude_address_set", "include_uid_range", "exclude_uid_range",
     "include_package", "exclude_package", "include_interface", "exclude_interface",
     "include_uid", "exclude_uid", "include_android_user"}

\* No other field of an inbound has a key of a tunnel's own.
LEMMA TunApart ==
  /\ \A f \in tunFields : f.path[1] \in TunNames
  /\ \A t : Table(TargetOf(inboundProtocolMap, t), TunNames)
  /\ Table(inboundTLSFields, TunNames) /\ Table(inboundMultiplexFields, TunNames)
  /\ \A t : Table(transportTypeFields(t), TunNames)
<1>1. /\ "tls" \notin TunNames /\ "multiplex" \notin TunNames /\ "transport" \notin TunNames
  BY DEF TunNames
<1>2. \A f \in tunFields : f.path[1] \in TunNames
  <2> DEFINE In(f) == IsField(f) /\ f.path[1] \in TunNames
  <2>1. \A kind, N : N \subseteq TunNames => \A f \in Fields(kind, Top(N)) : In(f)
    BY FieldAt DEF Top
  <2>2. \A conditions, S : (\A f \in S : In(f)) => \A f \in When(conditions, S) : In(f)
    BY FieldAt
  <2> HIDE DEF In
  <2>3. /\ {"interface_name", "udp_timeout"} \subseteq TunNames
        /\ {"mtu"} \subseteq TunNames /\ {"stack"} \subseteq TunNames
        /\ {"auto_route", "auto_redirect", "strict_route", "exclude_mptcp"}
             \subseteq TunNames
        /\ {"iproute2_table_index", "iproute2_rule_index"} \subseteq TunNames
        /\ {"auto_redirect_input_mark", "auto_redirect_output_mark",
            "auto_redirect_reset_mark"} \subseteq TunNames
        /\ {"auto_redirect_nfqueue", "auto_redirect_iproute2_fallback_rule_index"}
             \subseteq TunNames
        /\ {"address", "loopback_address", "route_address", "route_address_set",
            "route_exclude_address", "route_exclude_address_set", "include_uid_range",
            "exclude_uid_range", "include_package", "exclude_package"}
             \subseteq TunNames
        /\ {"include_interface", "exclude_interface"} \subseteq TunNames
        /\ {"include_uid", "exclude_uid", "include_android_user"} \subseteq TunNames
    BY DEF TunNames
  <2>4. \A f \in tunFields : In(f)
    BY <2>1, <2>2, <2>3 DEF tunFields
  <2> QED
    BY <2>4 DEF In
<1>3. \A kind, N, f : f \in Fields(kind, Top(N)) /\ N \cap TunNames = {} =>
        FieldFrom(f, TunNames)
  BY InTop
<1>4. \A t \in inboundTypes : Table(inboundProtocolMap[t], TunNames)
  <2>1. Table(users, TunNames) /\ Table(network, TunNames)
    BY <1>3 DEF users, network, Table, TunNames
  <2>2. /\ \A b : PathFrom(<<"obfs", b>>, TunNames)
        /\ \A b : PathFrom(<<"handshake", b>>, TunNames)
    BY ShortPaths DEF TunNames
  <2> DEFINE Names == {"domain_resolver", "set_system_proxy", "override_address",
               "override_port", "password", "method", "managed",
               "quic_congestion_control", "up", "down", "obfs", "up_mbps", "down_mbps",
               "recv_window_conn", "recv_window_client", "max_conn_client",
               "disable_mtu_discovery", "ignore_client_bandwidth", "brutal_debug",
               "masquerade", "zero_rtt_handshake", "congestion_control",
               "auth_timeout", "heartbeat", "version", "strict_mode",
               "wildcard_sni", "padding_scheme"}
  <2>3. Names \cap TunNames = {}
    BY DEF TunNames
  <2>4. \A kind, N, f : f \in Fields(kind, Top(N)) =>
          \E n \in N : n \in Names => FieldFrom(f, TunNames)
    <3> HIDE DEF Names
    <3> QED
      BY <2>3, InTop
  <2> QED
    BY <2>1, <2>2, <2>4, InFields, InWhen, InFor DEF inboundProtocolMap, Table
<1>5. \A t : Table(TargetOf(inboundProtocolMap, t), TunNames)
  <2>1. DOMAIN inboundProtocolMap = inboundTypes
    BY DEF inboundProtocolMap
  <2> QED
    BY <1>4, <2>1 DEF TargetOf, Table
<1> QED
  BY <1>1, <1>2, <1>5, GroupTables

\* What an inbound of a type and a transport may hold, path by path.
InboundOwned(T, R, d) ==
    \/ d \in Top({"tag"})
    \/ T = "tun" /\ d \in PathsOf(tunFields)
    \/ T # "tun" /\ d \in PathsOf(listenFields)
    \/ T # "tun" /\ d \in PathsOf(TargetOf(inboundProtocolMap, T))
    \/ T \in inboundTLSTypes /\ d \in PathsOf(inboundTLSFields)
    \/ T \in transportTypes /\ d \in PathsOf(transportTypeFields(R))
    \/ T \in multiplexTypes /\ d \in PathsOf(inboundMultiplexFields)

\* That is what it owns.
LEMMA InboundHolds ==
  ASSUME NEW o, Listed("inbound", o), NEW d
  PROVE  d \in OwnPaths("inbound", o) <=>
           InboundOwned(ProxyType(o), Transport(o), d)
<1> DEFINE T == ProxyType(o)
           R == Transport(o)
           S == InboundTabs[T][R]
           M == inboundFields(T, R)
<1>1. S = {f \in M : /\ T = "tun" => f \in tunFields
                     /\ T # "tun" => f \notin tunFields \ listenFields}
  <2>1. M = managedInboundFields[T][R] /\ T \in inboundNames /\ R \in transportNames
    BY DEF Listed, managedInboundFields
  <2> QED
    BY <2>1 DEF InboundTabs
<1>2. d \in OwnPaths("inbound", o) <=> d \in PathsOf(S) \/ d \in Top({"tag"})
  <2> HIDE DEF S
  <2>1. OwnFields("inbound", o) = S \cup Fields("text", Top({"tag"}))
    BY OwnIs DEF S
  <2>2. PathsOf(S \cup Fields("text", Top({"tag"}))) =
          PathsOf(S) \cup PathsOf(Fields("text", Top({"tag"})))
    BY PathsAre
  <2>3. PathsOf(Fields("text", Top({"tag"}))) = Top({"tag"})
    BY PathsAre
  <2> QED
    BY <2>1, <2>2, <2>3 DEF OwnPaths
<1>3. \A f : f \in M <=>
        \/ f \in listenFields \/ f \in tunFields
        \/ f \in TargetOf(inboundProtocolMap, T)
        \/ T \in inboundTLSTypes /\ f \in inboundTLSFields
        \/ T \in transportTypes /\ f \in transportTypeFields(R)
        \/ T \in multiplexTypes /\ f \in inboundMultiplexFields
  BY DEF inboundFields
<1>4. /\ "tun" \notin inboundTLSTypes /\ "tun" \notin transportTypes
      /\ "tun" \notin multiplexTypes
  BY DEF inboundTLSTypes, transportTypes, multiplexTypes
<1>5. \A A, f : Table(A, TunNames) /\ f \in A => f \notin tunFields
  BY TunApart DEF Table, FieldFrom, PathFrom
<1>6. /\ \A f \in TargetOf(inboundProtocolMap, T) : f \notin tunFields
      /\ \A f \in inboundTLSFields : f \notin tunFields
      /\ \A f \in transportTypeFields(R) : f \notin tunFields
      /\ \A f \in inboundMultiplexFields : f \notin tunFields
  BY <1>5, TunApart
<1> HIDE DEF S, T, R, M
<1>7. \A f : f \in S <=>
        \/ T = "tun" /\ f \in tunFields
        \/ T # "tun" /\ f \in listenFields
        \/ T # "tun" /\ f \in TargetOf(inboundProtocolMap, T)
        \/ T \in inboundTLSTypes /\ f \in inboundTLSFields
        \/ T \in transportTypes /\ f \in transportTypeFields(R)
        \/ T \in multiplexTypes /\ f \in inboundMultiplexFields
  <2>1. CASE T = "tun"
    <3>1. S = {f \in M : f \in tunFields}
      BY <1>1, <2>1
    <3> QED
      BY <1>3, <1>4, <2>1, <3>1
  <2>2. CASE T # "tun"
    <3>1. S = {f \in M : f \notin tunFields \ listenFields}
      BY <1>1, <2>2
    <3> QED
      BY <1>3, <1>6, <2>2, <3>1
  <2> QED
    BY <2>1, <2>2
<1>8. \A A : d \in PathsOf(A) <=> \E f \in A : f.path = d
  BY DEF PathsOf
<1>9. d \in PathsOf(S) <=>
        \/ T = "tun" /\ d \in PathsOf(tunFields)
        \/ T # "tun" /\ d \in PathsOf(listenFields)
        \/ T # "tun" /\ d \in PathsOf(TargetOf(inboundProtocolMap, T))
        \/ T \in inboundTLSTypes /\ d \in PathsOf(inboundTLSFields)
        \/ T \in transportTypes /\ d \in PathsOf(transportTypeFields(R))
        \/ T \in multiplexTypes /\ d \in PathsOf(inboundMultiplexFields)
  BY <1>7, <1>8
<1> QED
  BY <1>2, <1>9 DEF InboundOwned, T, R

\* A tunnel has no fields but its own, and one timeout with the others.
LEMMA TunOnly ==
  /\ TargetOf(inboundProtocolMap, "tun") = {}
  /\ <<"udp_timeout">> \in PathsOf(tunFields)
  /\ <<"udp_timeout">> \in PathsOf(listenFields)
<1>1. inboundProtocolMap["tun"] = {} /\ "tun" \in DOMAIN inboundProtocolMap
  <2>1. "tun" \in inboundTypes
    BY DEF inboundTypes
  <2> QED
    BY <2>1 DEF inboundProtocolMap, For
<1>2. Fields("text", Top({"interface_name", "udp_timeout"})) \subseteq tunFields
  BY DEF tunFields
<1>3. Fields("text", Top({"routing_mark", "netns", "udp_timeout"})) \subseteq listenFields
  BY DEF listenFields
<1>4. /\ <<"udp_timeout">> \in PathsOf(tunFields)
      /\ <<"udp_timeout">> \in PathsOf(listenFields)
  BY <1>2, <1>3, TopName
<1> QED
  BY <1>1, <1>4 DEF TargetOf

\* What a field of one table that the other continues leaves.
LEMMA Shared ==
  ASSUME NEW source, NEW target, NEW d \in PathsOf(source),
         d \notin PathsOf(NotShared(source, target))
  PROVE  d \in PathsOf(target)
<1>1. PICK f \in source : f.path = d
  BY DEF PathsOf
<1>2. \E g \in target : g.path = f.path
  BY <1>1 DEF NotShared, PathsOf
<1> QED
  BY <1>1, <1>2 DEF PathsOf

\* The groups that go with a type.
LEMMA GroupsLost ==
  ASSUME NEW T, NEW type
  PROVE  /\ LostGroups(T, type) \subseteq {TLS, TR, MUX}
         /\ TLS # TR /\ TLS # MUX /\ TR # MUX
         /\ T \in inboundTLSTypes => type \in inboundTLSTypes \/ TLS \in LostGroups(T, type)
         /\ T \in transportTypes => type \in transportTypes \/ TR \in LostGroups(T, type)
         /\ T \in multiplexTypes => type \in multiplexTypes \/ MUX \in LostGroups(T, type)
         /\ type \in transportTypes => TR \notin LostGroups(T, type)
<1>1. TLS # TR /\ TLS # MUX /\ TR # MUX
  <2>1. TLS[1] = "tls" /\ TR[1] = "transport" /\ MUX[1] = "multiplex"
    BY DEF TLS, TR, MUX
  <2> QED
    BY <2>1
<1>2. LostGroups(T, type) \subseteq {TLS, TR, MUX}
  BY DEF LostGroups
<1>3. TLS \in LostGroups(T, type) <=> T \in inboundTLSTypes /\ type \notin inboundTLSTypes
  BY <1>1 DEF LostGroups
<1>4. TR \in LostGroups(T, type) <=> T \in transportTypes /\ type \notin transportTypes
  BY <1>1 DEF LostGroups
<1>5. MUX \in LostGroups(T, type) <=> T \in multiplexTypes /\ type \notin multiplexTypes
  BY <1>1 DEF LostGroups
<1> QED
  BY <1>1, <1>2, <1>3, <1>4, <1>5

\* An inbound of another type.
LEMMA InboundTypeClean ==
  ASSUME NEW o, Good("inbound", o), Clean("inbound", o), NEW type \in inboundTypes
  PROVE  Clean("inbound", changeInboundType(o, type))
<1> DEFINE T == ProxyType(o)
           R == Transport(o)
           source == TargetOf(inboundProtocolMap, T)
           target == TargetOf(inboundProtocolMap, type)
           unshared == PathsOf(NotShared(source, target))
           users0 == {<<"users">>} \cap PathsOf(source)
           own == IF T = "tun" THEN PathsOf(tunFields)
                  ELSE IF type = "tun" THEN PathsOf(listenFields) ELSE {}
           gone == (users0 \cup unshared) \cup (own \ {<<"udp_timeout">>})
                     \cup LostGroups(T, type)
           n == setPath(Without(o, gone), <<"type">>, type)
<1>1. changeInboundType(o, type) = IF T = type THEN o ELSE n
  BY DEF changeInboundType, ProxyType
<1>2. IsObject(o) /\ Listed("inbound", o)
  BY DEF Good, ProxyFormNames
<1>3. type \notin {"undefined", "null"} /\ "inbound" \in TypedForms
  BY DEF inboundTypes, TypedForms
<1>4. /\ \A g \in LostGroups(T, type) : g \in {TLS, TR, MUX}
      /\ TLS # TR /\ TLS # MUX /\ TR # MUX
      /\ T \in inboundTLSTypes => type \in inboundTLSTypes \/ TLS \in LostGroups(T, type)
      /\ T \in transportTypes => type \in transportTypes \/ TR \in LostGroups(T, type)
      /\ T \in multiplexTypes => type \in multiplexTypes \/ MUX \in LostGroups(T, type)
      /\ type \in transportTypes => TR \notin LostGroups(T, type)
  BY GroupsLost
<1>5. /\ \A p \in PathsOf(source) : PathFrom(p, ProxyKeys)
      /\ \A p \in PathsOf(tunFields) : PathFrom(p, ProxyKeys)
      /\ \A p \in PathsOf(listenFields) : PathFrom(p, ProxyKeys)
      /\ unshared \subseteq PathsOf(source)
  BY InboundPlain DEF PathsOf, Table, FieldFrom, NotShared
<1>6. own \subseteq PathsOf(tunFields) \cup PathsOf(listenFields)
  OBVIOUS
<1>7. type \in transportTypes => \A p \in gone : PathFrom(p, ProxyKeys)
  <2> HIDE DEF T, own, source, target, unshared
  <2> QED
    BY <1>4, <1>5, <1>6, TLSPaths
<1>8. ASSUME T # type PROVE Listed("inbound", n)
  <2>1. TypeOptions("inbound") = inboundTypes
    BY DEF TypeOptions
  <2>2. Retyped("inbound", o, type) = n
    <3>1. Retyped("inbound", o, type) = changeInboundType(o, type)
      BY DEF Retyped
    <3> QED
      BY <1>1, <1>8, <3>1
  <2> HIDE DEF n
  <2> QED
    BY <1>3, <2>1, <2>2, RetypedGood DEF Good, ProxyFormNames
<1>9. /\ unshared \subseteq gone /\ LostGroups(T, type) \subseteq gone
      /\ T = "tun" => PathsOf(tunFields) \subseteq gone \cup {<<"udp_timeout">>}
      /\ T # "tun" /\ type = "tun" =>
           PathsOf(listenFields) \subseteq gone \cup {<<"udp_timeout">>}
  OBVIOUS
<1> HIDE DEF gone
<1>10. /\ ProxyType(n) = type
       /\ \A d \in DOMAIN n : d = <<"type">> \/
            (d \in DOMAIN o /\ \A p \in gone : ~IsPrefix(p, d) /\ p # d)
       /\ type \in transportTypes => Transport(n) = R
  BY <1>2, <1>3, <1>7, TypeSet, TransportStays
<1> HIDE DEF n, own, unshared
<1>11. ASSUME T # type, NEW d \in OwnPaths("inbound", o),
              \A p \in gone : ~IsPrefix(p, d) /\ p # d
       PROVE  InboundOwned(type, Transport(n), d)
  <2>1. InboundOwned(T, R, d)
    BY <1>2, InboundHolds
  <2>2. d \in PathsOf(source) => d \in PathsOf(target)
    BY <1>9, <1>11, Shared DEF unshared
  <2>3. /\ T \in inboundTLSTypes /\ IsPrefix(TLS, d) => type \in inboundTLSTypes
        /\ T \in transportTypes /\ IsPrefix(TR, d) => type \in transportTypes
        /\ T \in multiplexTypes /\ IsPrefix(MUX, d) => type \in multiplexTypes
    BY <1>4, <1>9, <1>11
  <2>4. type = "tun" => target = {}
    BY TunOnly
  <2>5. PathsOf({}) = {}
    BY PathsAre
  <2>6. T = "tun" /\ d \in PathsOf(tunFields) => type # "tun" /\ d \in PathsOf(listenFields)
    BY <1>9, <1>11, TunOnly
  <2>7. T # "tun" /\ d \in PathsOf(listenFields) /\ type = "tun" => d \in PathsOf(tunFields)
    BY <1>9, <1>11, TunOnly
  <2>8. d \in PathsOf(source) => type # "tun" /\ d \in PathsOf(target)
    BY <2>2, <2>4, <2>5
  <2> HIDE DEF T, R
  <2> QED
    BY <1>10, <2>1, <2>3, <2>6, <2>7, <2>8, GroupsUnder DEF InboundOwned
<1>12. ASSUME T # type PROVE Minded("inbound", n) \subseteq OwnPaths("inbound", n)
  <2>1. ASSUME NEW d \in Minded("inbound", n) PROVE d \in OwnPaths("inbound", n)
    <3>1. d # <<"type">> /\ d \in DOMAIN n
      BY <2>1 DEF Minded, Discriminators, Top
    <3>2. d \in OwnPaths("inbound", o)
      BY <1>10, <2>1, <3>1, CleanIs DEF Minded
    <3> QED
      BY <1>8, <1>10, <1>11, <1>12, <3>1, <3>2, InboundHolds
  <2> QED
    BY <2>1
<1> QED
  BY <1>1, <1>12, CleanIs

\* An inbound with another transport, before it is pruned.
LEMMA InboundTransportClean ==
  ASSUME NEW o, Good("inbound", o), Clean("inbound", o),
         NEW R2 \in transportTypes5 \cup {""}
  PROVE  Clean("inbound", changeTransportType(o, R2))
<1> DEFINE T == ProxyType(o)
           R == Transport(o)
           source == TargetOf(transportByType, R)
           target == TargetOf(transportByType, R2)
           gone == PathsOf(NotShared(source, target))
           v == IF R2 = "" THEN "undefined" ELSE R2
           q == Without(o, gone)
           n == setPath(q, transportType, v)
<1>1. changeTransportType(o, R2) = n
  BY DEF changeTransportType, Transport
<1>2. IsObject(o) /\ Listed("inbound", o)
  BY DEF Good, ProxyFormNames
<1>3. \A p \in gone : PathFrom(p, {"type"})
  <2>1. \A p \in gone : p \in PathsOf(source)
    BY DEF PathsOf, NotShared
  <2>2. \A p \in PathsOf(source) : p \in knownTransportPaths
    BY DEF knownTransportPaths, TargetOf, AllOf, PathsOf
  <2> HIDE DEF gone, source
  <2> QED
    BY <2>1, <2>2, TransportPaths
<1>4. \A p \in PathsOf(source) : p \notin gone => p \in PathsOf(target)
  <2> HIDE DEF source, target
  <2> QED
    BY Shared
<1> HIDE DEF gone
<1>5. /\ IsObject(q) /\ SameType(q, o)
      /\ \A d \in DOMAIN q : d \in DOMAIN o /\ d \notin gone
  BY <1>2, <1>3, WithoutObject, WithoutKey, LeavesLeft DEF SameType
<1> HIDE DEF q
<1>6. /\ SameType(n, q) /\ getPath(n, transportType) = v
      /\ \A d \in DOMAIN n : d \in DOMAIN q \/ d = transportType
  <2>1. SameType(n, q)
    BY <1>5, TransportPath, TypeAfterSet DEF PathFrom
  <2>2. getPath(n, transportType) = v
    BY <1>5, TransportPath, ValueSet
  <2>3. \A d \in DOMAIN n : d \in DOMAIN q \/ d = transportType
    BY <1>5, LeavesLeft
  <2> QED
    BY <2>1, <2>2, <2>3
<1> HIDE DEF n
<1>7. ProxyType(n) = T
  BY <1>5, <1>6 DEF SameType, ProxyType, Named
<1>8. Transport(n) = R2
  BY <1>6 DEF Transport, Named, transportTypes5
<1>9. Listed("inbound", n)
  BY <1>2, <1>7, <1>8 DEF Listed, transportNames, Unnamed
<1>10. ASSUME NEW d \in Minded("inbound", n) PROVE d \in OwnPaths("inbound", n)
  <2>1. d # transportType /\ d \in DOMAIN o /\ d \notin gone
    BY <1>5, <1>6, <1>10 DEF Minded, Discriminators
  <2>2. d \in OwnPaths("inbound", o)
    BY <1>10, <2>1, CleanIs DEF Minded
  <2>3. InboundOwned(T, R, d)
    BY <1>2, <2>2, InboundHolds
  <2>4. d \in PathsOf(transportTypeFields(R)) => d \in PathsOf(source)
    BY <2>1, KnownProtocol
  <2>5. d \in PathsOf(target) => d \in PathsOf(transportTypeFields(R2))
    BY KnownProtocol
  <2>6. d \in PathsOf(transportTypeFields(R)) => d \in PathsOf(transportTypeFields(R2))
    BY <1>4, <2>1, <2>4, <2>5
  <2> HIDE DEF T, R
  <2>7. InboundOwned(T, R2, d)
    BY <2>3, <2>6 DEF InboundOwned
  <2> QED
    BY <1>7, <1>8, <1>9, <2>7, InboundHolds
<1> QED
  BY <1>1, <1>10, CleanIs

----------------------------------------------------------------------------
(* What the form writes into a clean entry belongs to it. *)

\* A form shows only fields that the entry may hold.
LEMMA TabsOwn ==
  ASSUME NEW f \in TypedForms \cup GlobalForms, NEW o, Good(f, o)
  PROVE  PathsOf(Tabs(f, o)) \subseteq OwnPaths(f, o)
<1>1. \A A, B : A \subseteq B => PathsOf(A) \subseteq PathsOf(B)
  BY PathsAre
<1>2. CASE f \in {"rule_set", "dns_rule", "inbound"}
  <2>1. Tabs(f, o) \subseteq OwnFields(f, o)
    BY <1>2 DEF Tabs, OwnFields
  <2> QED
    BY <1>1, <2>1 DEF OwnPaths
<1>3. CASE f = "dns_server"
  <2>1. Tabs(f, o) = TargetOf(dnsServerFields, inferDNSServerType(o))
    BY <1>3 DEF Tabs, DNSServerTabs
  <2>2. TargetOf(dnsServerCleanupFields, inferDNSServerType(o)) \subseteq OwnFields(f, o)
    BY <1>3, OwnIs
  <2> QED
    BY <1>1, <2>1, <2>2, ServerRegistry DEF OwnPaths
<1>4. CASE f = "outbound"
  <2>1. Tabs(f, o) = OutboundTabs[ProxyType(o)][Transport(o)]
        /\ ProxyType(o) \in outboundNames /\ Transport(o) \in transportNames
    BY <1>4 DEF Tabs, Good, Listed, ProxyFormNames
  <2>2. Tabs(f, o) \subseteq managedOutboundFields[ProxyType(o)][Transport(o)]
    BY <2>1 DEF OutboundTabs
  <2>3. managedOutboundFields[ProxyType(o)][Transport(o)] \subseteq OwnFields(f, o)
    BY <1>4, OwnIs
  <2> QED
    BY <1>1, <2>2, <2>3 DEF OwnPaths
<1>5. CASE f \in PlainForms \cup {"route_rule"}
  <2>1. OwnFields(f, o) = Tabs(f, o)
    <3>1. f \notin {"rule_set", "dns_rule", "dns_server", "inbound", "outbound"}
      BY <1>5 DEF PlainForms, GlobalForms
    <3> QED
      BY <3>1 DEF OwnFields
  <2> QED
    BY <2>1 DEF OwnPaths
<1> QED
  BY <1>2, <1>3, <1>4, <1>5 DEF TypedForms, PlainForms

\* The fields of the forms with types are apart from the keys that choose
\* their tables, except for the selection of a transport.
LEMMA TabsApart ==
  ASSUME NEW f \in TypedForms \cup GlobalForms, f \notin PlainForms,
         NEW o, Good(f, o), NEW fld \in Tabs(f, o), NEW k \in Choice(f),
         ~(f \in ProxyFormNames /\ fld.path = transportType)
  PROVE  Apart(fld.path, k)
<1>1. CASE f \in ProxyFormNames
  <2>1. ProxyTable(Tabs(f, o))
    BY <1>1, ProxyTabs DEF Good
  <2> QED
    BY <1>1, <2>1, ApartFields
<1>2. CASE f \notin ProxyFormNames
  <2>1. Table(Tabs(f, o), ChoiceKeys)
    <3>1. CASE f = "route_rule"
      <4>1. Tabs(f, o) = managedRouteRuleFields(RuleType(o), Action(o))
        BY <3>1 DEF Tabs, RouteRuleTabs
      <4> QED
        BY <4>1, RouteTables
    <3>2. CASE f = "rule_set"
      <4>1. Tabs(f, o) = RuleSetTabs(o)
        BY <3>2 DEF Tabs
      <4> QED
        BY <4>1, RuleSetTable
    <3>3. CASE f = "dns_rule"
      <4>1. Tabs(f, o) = DNSRuleTabs(o)
        BY <3>3 DEF Tabs
      <4> QED
        BY <4>1, DNSTables
    <3>4. CASE f = "dns_server"
      <4>1. Tabs(f, o) = TargetOf(dnsServerFields, inferDNSServerType(o))
        BY <3>4 DEF Tabs, DNSServerTabs
      <4> QED
        BY <4>1, DNSTables
    <3> QED
      BY <1>2, <3>1, <3>2, <3>3, <3>4 DEF TypedForms, PlainForms, ProxyFormNames
  <2> QED
    BY <1>2, <2>1, ApartKeys DEF Table, FieldFrom
<1> QED
  BY <1>1, <1>2

\* What is entered keeps an entry clean.
LEMMA EnteredClean ==
  ASSUME NEW f \in Forms, f \notin PlainForms, NEW o, Good(f, o), Clean(f, o),
         NEW fld \in Tabs(f, o), NEW c, NEW v \in Inputs(f, fld, c)
  PROVE  Clean(f, Entered(f, o, fld.path, v))
<1> DEFINE p == fld.path
           chosen == IF v = "undefined" THEN "" ELSE v
<1>1. /\ f \in TypedForms \cup GlobalForms /\ IsPath(p)
      /\ f \in ProxyFormNames => ProxyTable({fld})
  BY EntriesAssumption, TabsPath DEF Good
<1>2. CASE p = transportType /\ f \in ProxyFormNames
  <2>1. IsPrefix(transportType, transportType)
    BY DEF IsPrefix, transportType
  <2>2. v \in transportTypes5 \cup {"undefined"}
    BY <1>1, <1>2, <2>1, TransportInputs DEF ProxyTable
  <2>3. chosen \in transportTypes5 \cup {""}
    BY <2>2
  <2>4. /\ f = "inbound" => Entered(f, o, p, v) = changeTransportType(o, chosen)
        /\ f = "outbound" => Entered(f, o, p, v) = changeOutboundTransportType(o, chosen)
    BY <1>2 DEF Entered
  <2> HIDE DEF chosen
  <2> QED
    BY <1>2, <2>3, <2>4, InboundTransportClean, OutboundTransportClean DEF ProxyFormNames
<1>3. CASE ~(p = transportType /\ f \in ProxyFormNames)
  <2> DEFINE n == setPath(o, p, v)
  <2>1. Entered(f, o, p, v) = n
    BY <1>3 DEF Entered, ProxyFormNames
  <2>2. IsObject(o)
    BY DEF Good
  <2>3. SameChoice(f, n, o)
    <3>1. \A k \in Choice(f) : Apart(p, k)
      BY <1>1, <1>3, TabsApart
    <3> QED
      BY <1>1, <2>2, <3>1, ChoiceSet
  <2>4. p \in OwnPaths(f, o)
    BY <1>1, TabsOwn DEF PathsOf
  <2>5. \A d \in DOMAIN n : d \in DOMAIN o \/ d = p
    BY <2>2, LeavesLeft
  <2> HIDE DEF n
  <2>6. Clean(f, n)
    BY <2>3, <2>4, <2>5, CleanStays
  <2> QED
    BY <2>1, <2>6
<1> QED
  BY <1>2, <1>3

\* Pruning by fields apart from the choice keeps an entry clean.
LEMMA PrunedClean ==
  ASSUME NEW f \in Forms, NEW o, Good(f, o), Clean(f, o), NEW fields,
         \A g \in fields, k \in Choice(f) : Apart(g.path, k) \/ g.when = {}
  PROVE  Clean(f, pruneInvisibleFields(o, fields))
<1> DEFINE n == pruneInvisibleFields(o, fields)
<1>1. IsObject(o)
  BY DEF Good
<1>2. SameChoice(f, n, o)
  BY <1>1, ChoicePrune
<1>3. DOMAIN n \subseteq DOMAIN o
  BY <1>1, LeavesLeft
<1> HIDE DEF n
<1>4. Clean(f, n)
  BY <1>2, <1>3, CleanStays
<1> QED
  BY <1>4 DEF n

\* The pruning after an edit keeps an entry clean.
LEMMA ApplyClean ==
  ASSUME NEW f \in Forms, f \notin PlainForms, NEW o, Good(f, o), Clean(f, o)
  PROVE  Clean(f, Apply(f, o))
<1>1. f \in TypedForms \cup GlobalForms
  BY EntriesAssumption
<1>2. \A S : f \notin ProxyFormNames /\ Table(S, ChoiceKeys) =>
               Clean(f, pruneInvisibleFields(o, S))
  BY PrunedClean, ApartKeys DEF Table, FieldFrom
<1>3. \A S : f \in ProxyFormNames /\ ProxyTable(S) =>
               Clean(f, pruneInvisibleFields(o, S))
  BY PrunedClean, ApartFields
<1>4. CASE f = "route_rule"
  <2>1. Apply(f, o) = applyRouteRuleFieldChange(o)
    BY <1>4 DEF Apply
  <2> QED
    BY <1>2, <1>4, <2>1, RouteTables DEF applyRouteRuleFieldChange, ProxyFormNames
<1>5. CASE f = "dns_server"
  <2>1. Apply(f, o) = applyDNSServerFieldChange(o)
    BY <1>5 DEF Apply
  <2> QED
    BY <1>2, <1>5, <2>1, DNSTables DEF applyDNSServerFieldChange, ProxyFormNames
<1>6. CASE f = "inbound"
  <2>1. Apply(f, o) = applyInboundFieldChange(o)
    BY <1>6 DEF Apply
  <2>2. ProxyTable(managedInboundFields[ProxyType(o)][Transport(o)])
    BY <1>6, ProxyTabs DEF Good, ProxyFormNames
  <2> QED
    BY <1>3, <1>6, <2>1, <2>2 DEF applyInboundFieldChange, ProxyFormNames
<1>7. CASE f = "outbound"
  <2>1. Apply(f, o) = applyOutboundFieldChange(o)
    BY <1>7 DEF Apply
  <2>2. ProxyTable(managedOutboundFields[ProxyType(o)][Transport(o)])
    BY <1>7, ProxyTabs DEF Good, ProxyFormNames
  <2> QED
    BY <1>3, <1>7, <2>1, <2>2 DEF applyOutboundFieldChange, ProxyFormNames
<1>8. CASE f \in {"rule_set", "dns_rule"}
  <2>1. Apply(f, o) = o
    BY <1>8 DEF Apply
  <2> QED
    BY <2>1
<1> QED
  BY <1>1, <1>4, <1>5, <1>6, <1>7, <1>8 DEF TypedForms, PlainForms

\* Setting a path that the entry may have keeps it clean.
LEMMA OwnSetClean ==
  ASSUME NEW f \in Forms, NEW o, Good(f, o), Clean(f, o), NEW p, IsPath(p),
         \A k \in Choice(f) : Apart(p, k), NEW v,
         v = "undefined" \/ p \in OwnPaths(f, o)
  PROVE  Clean(f, setPath(o, p, v))
<1> DEFINE n == setPath(o, p, v)
<1>1. IsObject(o)
  BY DEF Good
<1>2. SameChoice(f, n, o)
  BY <1>1, ChoiceSet
<1>3. \A d \in DOMAIN n : d \in DOMAIN o \/ (d = p /\ v # "undefined")
  <2>1. v = "undefined" => n = Without(o, {p})
    BY DEF setPath
  <2>2. \A d \in DOMAIN Without(o, {p}) : d \in DOMAIN o
    BY <1>1, LeavesLeft
  <2>3. \A d \in DOMAIN n : d \in DOMAIN o \/ d = p
    BY <1>1, LeavesLeft
  <2> HIDE DEF n
  <2> QED
    BY <2>1, <2>2, <2>3
<1> HIDE DEF n
<1>4. Clean(f, n)
  BY <1>2, <1>3, CleanStays
<1> QED
  BY <1>4 DEF n

\* The fields that are written without pruning belong to the entry.
LEMMA BaseOwn ==
  ASSUME NEW f, NEW o, NEW fld \in BaseFields(f, o)
  PROVE  /\ fld.path \in OwnPaths(f, o)
         /\ f \in TypedForms \cup GlobalForms /\ f \notin PlainForms =>
              \A k \in Choice(f) : Apart(fld.path, k)
<1>1. f \in {"inbound", "dns_server", "outbound"}
  BY DEF BaseFields
<1>2. BaseFields(f, o) \subseteq OwnFields(f, o)
  BY <1>1 DEF OwnFields
<1>3. fld.path \in OwnPaths(f, o)
  BY <1>2 DEF OwnPaths, PathsOf
<1>4. PathFrom(fld.path, ProxyKeys)
  BY BaseKeys
<1>5. f \in ProxyFormNames => \A k \in Choice(f) : Apart(fld.path, k)
  BY <1>4, ApartKeys
<1>6. f = "dns_server" => \A k \in Choice(f) : Apart(fld.path, k)
  <2>1. f = "dns_server" => \A k \in Choice(f) : k = <<"type">>
    BY DEF Choice, ProxyFormNames
  <2>2. PathFrom(fld.path, {"type"})
    BY <1>4 DEF PathFrom, ProxyKeys
  <2>3. Apart(fld.path, <<"type">>)
    BY <2>2, TypePath, FirstKey DEF PathFrom, Apart
  <2> QED
    BY <2>1, <2>3
<1> QED
  BY <1>1, <1>3, <1>5, <1>6 DEF ProxyFormNames

\* A group has its members, and may lose its default.
LEMMA MembersClean ==
  ASSUME "outbound" \in Forms, NEW o, Good("outbound", o), Clean("outbound", o),
         ProxyType(o) \in groupTypes, NEW members, NEW holds
  PROVE  Clean("outbound", setMembers(o, members, holds))
<1> DEFINE m == <<"outbounds">>
           d == <<"default">>
           next == setPath(o, m, members)
<1>1. PathFrom(m, ProxyKeys) /\ PathFrom(d, ProxyKeys)
  BY ShortPaths DEF ProxyKeys
<1>2. \A k \in Choice("outbound") : Apart(m, k) /\ Apart(d, k)
  BY <1>1, ApartKeys DEF ProxyFormNames
<1>3. m \in OwnPaths("outbound", o)
  <2> DEFINE T == ProxyType(o)
  <2>1. Fields("list", Top({"outbounds"})) \subseteq groupMap["selector"]
        /\ Fields("list", Top({"outbounds"})) \subseteq groupMap["urltest"]
        /\ DOMAIN groupMap = {"selector", "urltest"}
    BY DEF groupMap
  <2>2. Fields("list", Top({"outbounds"})) \subseteq outboundTypeFields(T)
    BY <2>1 DEF outboundTypeFields, TargetOf, groupTypes
  <2>3. m \in PathsOf(Fields("list", Top({"outbounds"})))
    BY TopName
  <2>4. m \in PathsOf(outboundTypeFields(T))
    BY <2>2, <2>3 DEF PathsOf
  <2>5. OutboundOwned(T, Transport(o), m)
    BY <2>4 DEF OutboundOwned
  <2>6. Listed("outbound", o)
    BY DEF Good, ProxyFormNames
  <2> HIDE DEF m
  <2> QED
    BY <2>5, <2>6, OutboundHolds
<1>4. setMembers(o, members, holds) \in {next, setPath(next, d, "undefined")}
  BY DEF setMembers
<1> HIDE DEF m, d
<1>5. Clean("outbound", next) /\ Good("outbound", next)
  BY <1>1, <1>2, <1>3, OwnSetClean, KeyGood DEF PathFrom
<1> HIDE DEF next
<1>6. Clean("outbound", setPath(next, d, "undefined"))
  BY <1>1, <1>2, <1>5, OwnSetClean DEF PathFrom
<1> QED
  BY <1>4, <1>5, <1>6

\* Deleting a key in the JSON tab leaves the choice.
LEMMA DeletedClean ==
  ASSUME NEW f \in Forms, NEW o, Good(f, o), Clean(f, o), NEW p \in DOMAIN o \ Discriminators
  PROVE  Clean(f, Without(o, {p}))
<1> DEFINE n == Without(o, {p})
<1>1. IsObject(o)
  BY DEF Good
<1>2. Part(n, o) /\ \A d \in DOMAIN n : d \in DOMAIN o
  BY <1>1, Parts, LeavesLeft
<1>3. \A k \in Choice(f) : k \in Discriminators
  BY DEF Choice, Discriminators, Top
<1>4. ASSUME NEW k \in Choice(f), k \in DOMAIN o PROVE k \in DOMAIN n /\ n[k] = o[k]
  <2>1. ~IsStrictPrefix(p, k) /\ ~IsStrictPrefix(k, p) /\ p # k
    BY <1>1, <1>3, <1>4 DEF IsObject
  <2> QED
    BY <1>4, <2>1 DEF Without, Restrict, IsStrictPrefix
<1> HIDE DEF n
<1>5. SameChoice(f, n, o)
  BY <1>2, <1>4, ChoicePart
<1>6. Clean(f, n)
  BY <1>2, <1>5, CleanStays
<1> QED
  BY <1>6 DEF n

----------------------------------------------------------------------------
(* The clean entry through all edits. *)

\* Another type keeps an entry clean.
LEMMA RetypedClean ==
  ASSUME NEW f \in TypedForms, f \notin PlainForms, NEW o, Good(f, o), Clean(f, o),
         NEW type \in TypeOptions(f)
  PROVE  Clean(f, Retyped(f, o, type))
<1>1. IsObject(o)
  BY DEF Good
<1>2. CASE f = "route_rule"
  <2>1. Retyped(f, o, type) = changeRouteRuleType(o, type)
        /\ TypeOptions(f) = {"default", "logical"}
    BY <1>2 DEF Retyped, TypeOptions
  <2> QED
    BY <1>1, <1>2, <2>1, RouteTypeClean
<1>3. CASE f = "rule_set"
  <2>1. Retyped(f, o, type) = changeRuleSetType(o, type)
        /\ TypeOptions(f) = DOMAIN ruleSetFields
    BY <1>3 DEF Retyped, TypeOptions
  <2> QED
    BY <1>1, <1>3, <2>1, RuleSetTypeClean
<1>4. CASE f = "dns_rule"
  <2>1. Retyped(f, o, type) = changeDNSRuleType(o, type)
        /\ TypeOptions(f) = {"default", "logical"}
    BY <1>4 DEF Retyped, TypeOptions
  <2> QED
    BY <1>1, <1>4, <2>1, DNSRuleTypeClean
<1>5. CASE f = "dns_server"
  <2>1. Retyped(f, o, type) = changeDNSServerType(o, type)
        /\ TypeOptions(f) = dnsServerTypes
    BY <1>5 DEF Retyped, TypeOptions
  <2> QED
    BY <1>1, <1>5, <2>1, DNSServerTypeClean
<1>6. CASE f = "inbound"
  <2>1. Retyped(f, o, type) = changeInboundType(o, type)
        /\ TypeOptions(f) = inboundTypes
    BY <1>6 DEF Retyped, TypeOptions
  <2> QED
    BY <1>6, <2>1, InboundTypeClean
<1>7. CASE f = "outbound"
  <2>1. Retyped(f, o, type) = changeOutboundType(o, type)
        /\ TypeOptions(f) = outboundTypes
    BY <1>7 DEF Retyped, TypeOptions
  <2> QED
    BY <1>7, <2>1, OutboundTypeClean
<1> QED
  BY <1>2, <1>3, <1>4, <1>5, <1>6, <1>7 DEF TypedForms, PlainForms

\* Another action keeps an entry clean.
LEMMA ActedClean ==
  ASSUME NEW f, NEW o, IsObject(o), Clean(f, o), NEW action \in ActionOptions(f)
  PROVE  /\ f = "route_rule" => Clean(f, changeRouteAction(o, action))
         /\ f = "dns_rule" => Clean(f, changeDNSAction(o, action))
         /\ f \in {"route_rule", "dns_rule"}
<1>1. CASE f = "route_rule"
  <2>1. ActionOptions(f) = routeActions
    BY <1>1 DEF ActionOptions
  <2> QED
    BY <1>1, <2>1, RouteActionClean
<1>2. CASE f = "dns_rule"
  <2>1. ActionOptions(f) = dnsActions
    BY <1>2 DEF ActionOptions
  <2> QED
    BY <1>2, <2>1, DNSActionClean
<1>3. CASE f \notin {"route_rule", "dns_rule"}
  <2>1. ActionOptions(f) = {}
    BY <1>3 DEF ActionOptions
  <2> QED
    BY <2>1
<1> QED
  BY <1>1, <1>2, <1>3

\* Every step keeps an entry clean.
LEMMA StepClean ==
  ASSUME FormInv, Clean(form, obj), [Next]_vars
  PROVE  Clean(form, obj')
<1>1. form \in Forms /\ Good(form, obj) /\ IsObject(obj)
      /\ form \in TypedForms \cup GlobalForms
  BY InvGood, EntriesAssumption DEF Good
<1>2. CASE form \in PlainForms
  BY <1>1, <1>2, PlainClean
<1>3. CASE form \notin PlainForms
  <2>1. /\ form \notin {"endpoint", "experimental"}
        /\ form \in TypedForms
    BY <1>1, <1>3 DEF PlainForms, GlobalForms
  <2>2. Visual(form, obj) = obj /\ persist(form, obj) = obj
    BY <2>1 DEF Visual, persist
  <2>3. CASE \E fld \in {g \in Tabs(form, Visual(form, obj)) : Room(obj, g)} :
               \E v \in Inputs(form, fld, getPath(obj, fld.path)) : EditField(fld, v)
    <3>1. PICK fld \in Tabs(form, obj) :
             \E v \in Inputs(form, fld, getPath(obj, fld.path)) : EditField(fld, v)
      BY <2>2, <2>3
    <3>2. PICK v \in Inputs(form, fld, getPath(obj, fld.path)) : EditField(fld, v)
      BY <3>1
    <3> DEFINE next == Entered(form, obj, fld.path, v)
    <3>3. obj' = Apply(form, next)
      BY <2>2, <3>2, EditIsEntered DEF EditField
    <3>4. Good(form, next) /\ Clean(form, next)
      BY <1>1, <1>3, EnteredGood, EnteredClean
    <3> HIDE DEF next
    <3> QED
      BY <1>1, <1>3, <3>3, <3>4, ApplyClean
  <2>4. CASE \E fld \in {g \in BaseFields(form, obj) : Room(obj, g)} :
               \E v \in BaseInputs(form, fld) : EditBase(fld, v)
    <3>1. PICK fld \in BaseFields(form, obj) : \E v : obj' = setPath(obj, fld.path, v)
      BY <2>4 DEF EditBase
    <3>2. /\ fld.path \in OwnPaths(form, obj) /\ IsPath(fld.path)
          /\ \A k \in Choice(form) : Apart(fld.path, k)
      BY <1>1, <1>3, BaseOwn, BaseKeys DEF PathFrom
    <3> QED
      BY <1>1, <3>1, <3>2, OwnSetClean
  <2>5. CASE \E members \in ListInputs, holdsDefault \in BOOLEAN :
               EditMembers(members, holdsDefault)
    BY <1>1, <2>5, MembersClean DEF EditMembers
  <2>6. CASE \E type \in TypeOptions(form) \cap TypeBound(form) : ChangeType(type)
    <3>1. PICK type \in TypeOptions(form) : obj' = Retyped(form, obj, type)
      BY <2>2, <2>6 DEF ChangeType
    <3> QED
      BY <1>1, <1>3, <2>1, <3>1, RetypedClean
  <2>7. CASE \E action \in ActionOptions(form) : ChangeAction(action)
    <3>1. PICK action \in ActionOptions(form) : ChangeAction(action)
      BY <2>7
    <3>2. obj' = IF form = "route_rule" THEN changeRouteAction(obj, action)
                 ELSE changeDNSAction(obj, action)
      BY <3>1 DEF ChangeAction
    <3> QED
      BY <1>1, <3>2, ActedClean
  <2>8. CASE \E p \in DOMAIN obj \ Discriminators : updateJSON(p)
    BY <1>1, <2>8, DeletedClean DEF updateJSON
  <2>9. CASE Save \/ Open \/ UNCHANGED vars
    BY <2>2, <2>9 DEF Save, Open, vars
  <2> QED
    BY <2>3, <2>4, <2>5, <2>6, <2>7, <2>8, <2>9 DEF Next
<1> QED
  BY <1>2, <1>3

\* An entry that holds only what its type, action and transport have stays so,
\* from whatever object and through whatever edits: every change of a type, an
\* action or a transport takes along what the new choice does not have, and no
\* edit, deletion or save brings anything else in (the change* functions of the
\* form models).
THEOREM EntryStaysClean == Spec => CleanKept
<1>1. FormInv /\ [Next]_vars => [Clean(form, obj) => Clean(form, obj')]_vars
  BY StepClean
<1> QED
  BY <1>1, InitInv, StepInv, PTL DEF Spec, CleanKept
=============================================================================
