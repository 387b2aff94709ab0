---------------------------- MODULE PagesProofs ----------------------------
(***************************************************************************)
(* Theorems about ConfigPages, for every configuration, every set of       *)
(* entries, names and globals and every bound.                             *)
(***************************************************************************)
EXTENDS ConfigPages, SequenceTheorems, FiniteSetTheorems, TLAPS

-----------------------------------------------------------------------------
(* The operators on lists. *)

\* A bounded sequence is a sequence with a bounded length.
LEMMA BoundedSeqs ==
    ASSUME NEW S, NEW n \in Nat, NEW s
    PROVE  s \in BoundedSeq(S, n) <=> s \in Seq(S) /\ Len(s) <= n
<1>1. ASSUME s \in BoundedSeq(S, n) PROVE s \in Seq(S) /\ Len(s) <= n
  <2>1. PICK m \in 0 .. n : s \in [1 .. m -> S]  BY <1>1 DEF BoundedSeq, SeqOf
  <2> QED  BY <2>1
<1>2. ASSUME s \in Seq(S), Len(s) <= n PROVE s \in BoundedSeq(S, n)
  <2>1. s \in [1 .. Len(s) -> S] /\ Len(s) \in 0 .. n  BY <1>2
  <2> QED  BY <2>1 DEF BoundedSeq, SeqOf
<1> QED  BY <1>1, <1>2

\* The larger of two numbers.
LEMMA LargerOfTwo ==
    ASSUME NEW a \in Nat, NEW b \in Nat
    PROVE  Max({a, b}) = IF a >= b THEN a ELSE b
<1> DEFINE m == IF a >= b THEN a ELSE b
<1>1. m \in {a, b} /\ \A y \in {a, b} : m >= y  OBVIOUS
<1>2. ASSUME NEW x \in {a, b}, \A y \in {a, b} : x >= y PROVE x = m  BY <1>2
<1> HIDE DEF m
<1>3. Max({a, b}) = m  BY <1>1, <1>2 DEF Max
<1> QED  BY <1>3 DEF m

\* The entry before which or in whose place something is written is there.
LEMMA RemoveTyped ==
    ASSUME NEW S, NEW s \in Seq(S), NEW i \in DOMAIN s
    PROVE  RemoveAt(s, i) \in Seq(S) /\ Len(RemoveAt(s, i)) = Len(s) - 1
<1> DEFINE left == SubSeq(s, 1, i - 1)
           right == SubSeq(s, i + 1, Len(s))
<1>1. i \in 1 .. Len(s)  OBVIOUS
<1>2. /\ left \in Seq(S) /\ Len(left) = i - 1
      /\ right \in Seq(S) /\ Len(right) = Len(s) - i
  BY <1>1, SubSeqProperties
<1>3. left \o right \in Seq(S) /\ Len(left \o right) = Len(left) + Len(right)
  <2> HIDE DEF left, right
  <2> QED  BY <1>2, ConcatProperties
<1>4. RemoveAt(s, i) = left \o right  BY DEF RemoveAt
<1> HIDE DEF left, right
<1> QED  BY <1>1, <1>2, <1>3, <1>4

LEMMA CopiedTyped ==
    ASSUME NEW S, NEW s \in Seq(S), NEW i \in DOMAIN s
    PROVE  Copied(s, i) \in Seq(S) /\ Len(Copied(s, i)) = Len(s) + 1
<1> DEFINE left == SubSeq(s, 1, (i + 1) - 1)
           right == SubSeq(s, i + 1, Len(s))
<1>1. i \in 1 .. Len(s) /\ s[i] \in S  OBVIOUS
<1>2. /\ left \in Seq(S) /\ Len(left) = i
      /\ right \in Seq(S) /\ Len(right) = Len(s) - i
  BY <1>1, SubSeqProperties
<1>3. <<s[i]>> \in Seq(S) /\ Len(<<s[i]>>) = 1  BY <1>1
<1> HIDE DEF left, right
<1>4. Copied(s, i) = left \o <<s[i]>> \o right
  BY DEF Copied, InsertAt, left, right
<1> DEFINE mid == <<s[i]>>
<1>5. mid \in Seq(S) /\ Len(mid) = 1  BY <1>3
<1> HIDE DEF mid
<1>6. left \o mid \in Seq(S) /\ Len(left \o mid) = Len(left) + Len(mid)
  BY <1>2, <1>5, ConcatProperties
<1> DEFINE front == left \o mid
<1>7. front \in Seq(S) /\ Len(front) = i + 1  BY <1>1, <1>2, <1>5, <1>6
<1> HIDE DEF front
<1>8. front \o right \in Seq(S) /\ Len(front \o right) = Len(front) + Len(right)
  BY <1>2, <1>7, ConcatProperties
<1> QED  BY <1>1, <1>2, <1>4, <1>7, <1>8 DEF front, mid

LEMMA MovedTyped ==
    ASSUME NEW S, NEW s \in Seq(S), NEW i \in DOMAIN s, NEW j \in DOMAIN s
    PROVE  moveItem(s, i, j) \in Seq(S) /\ Len(moveItem(s, i, j)) = Len(s)
BY DEF moveItem

\* An entry that is in the list, or a new one, leaves no holes.
LEMMA ReplacedTyped ==
    ASSUME NEW S, NEW s \in Seq(S), NEW i \in Nat, NEW x \in S,
           i <= Len(s) \/ Hole \in S
    PROVE  /\ replaceOrAppend(s, i, x) \in Seq(S)
           /\ Len(replaceOrAppend(s, i, x)) =
                IF i = 0 THEN Len(s) + 1 ELSE IF i >= Len(s) THEN i ELSE Len(s)
<1>1. CASE i = 0  BY <1>1 DEF replaceOrAppend
<1>2. CASE i # 0
  <2> DEFINE n == IF i >= Len(s) THEN i ELSE Len(s)
  <2>1. Max({i, Len(s)}) = n  BY LargerOfTwo
  <2>2. n \in Nat  OBVIOUS
  <2>3. replaceOrAppend(s, i, x) =
          [k \in 1 .. n |-> IF k = i THEN x ELSE IF k <= Len(s) THEN s[k] ELSE Hole]
    BY <1>2, <2>1 DEF replaceOrAppend
  <2>4. \A k \in 1 .. n :
          (IF k = i THEN x ELSE IF k <= Len(s) THEN s[k] ELSE Hole) \in S
    OBVIOUS
  <2>5. replaceOrAppend(s, i, x) \in Seq(S) /\ Len(replaceOrAppend(s, i, x)) = n
    <3> HIDE DEF n
    <3>1. replaceOrAppend(s, i, x) \in [1 .. n -> S]  BY <2>3, <2>4
    <3> QED  BY <2>2, <3>1
  <2> QED  BY <1>2, <2>5
<1> QED  BY <1>1, <1>2

\* The rules' JSON and their names, position by position.
LEMMA ReadTyped ==
    ASSUME NEW T, NEW N, NEW rules \in Seq([id : T, name : N])
    PROVE  /\ IdsOf(rules) \in Seq(T) /\ Len(IdsOf(rules)) = Len(rules)
           /\ NamesOf(rules) \in Seq(N) /\ Len(NamesOf(rules)) = Len(rules)
<1>1. \A i \in 1 .. Len(rules) : rules[i].id \in T /\ rules[i].name \in N
  <2> TAKE i \in 1 .. Len(rules)
  <2>1. rules[i] \in [id : T, name : N]  BY ElementOfSeq
  <2> QED  BY <2>1
<1>2. IdsOf(rules) = [i \in 1 .. Len(rules) |-> rules[i].id]  BY DEF IdsOf
<1>3. NamesOf(rules) = [i \in 1 .. Len(rules) |-> rules[i].name]  BY DEF NamesOf
<1> QED  BY <1>1, <1>2, <1>3

-----------------------------------------------------------------------------
(* The types of the invariant.  A list is as long as it may be saved, or   *)
(* one longer with the default rule that an installation has put at its    *)
(* end; the rules of the file and of the cache have no holes.  Globals     *)
(* that may get into the file without the Save button are saved ones.      *)

Called == Name \cup {NoName, DefaultName}
FileItem == [id : Id \cup {DefaultRule}, name : Called]
SolidItem == FileItem \cup {Hole}

Fits(l) ==
    \/ Len(l) <= MaxItems
    \/ /\ Len(l) = MaxItems + 1
       /\ \E i \in DOMAIN l : l[i].id = DefaultRule

ListOf(I) == {l \in Seq(I) : Fits(l)}
SectionOf(G, I) == [globals : G, sets : ListOf(SolidItem), rules : ListOf(I)]
RequestOf(G) ==
    {r \in [kind : {"rules", "global", "install"},
            body : SectionOf(G, SolidItem), names : NameList \cup {NULL},
            here : BOOLEAN, latest : BOOLEAN, skips : BOOLEAN,
            stage : Answered \cup {"sent", "second", "naming", "named",
                                   "unnamed", "listing"}] :
       r.stage \in {"naming", "named", "unnamed"} => r.names # NULL}
Entry == [fp : Id \cup {DefaultRule}, name : Called]

\* The bounds are numbers, and a hole is no entry of a file.
LEMMA Constants ==
    /\ MaxItems \in Nat /\ MaxRequests \in Nat /\ MaxLists \in Nat
    /\ MaxOthers \in Nat /\ MaxFaults \in Nat
    /\ Blank \notin Id /\ Blank # DefaultRule /\ DefaultRule \notin Id
    /\ Hole \notin FileItem
BY PagesAssumption DEF FileItem, Hole

\* The types are those of the model.
LEMMA TypesFit ==
    /\ \A s : s \in NameList <=> s \in Seq(Called) /\ Len(s) <= MaxItems + 1
    /\ SolidItem \subseteq Item
    /\ \A G \in SUBSET Global, I \in SUBSET SolidItem :
         SectionOf(G, I) \subseteq Section
    /\ \A G \in SUBSET Global : RequestOf(G) \subseteq Request
<1>1. MaxItems \in Nat  BY Constants
<1>2. \A s : s \in NameList <=> s \in Seq(Called) /\ Len(s) <= MaxItems + 1
  BY <1>1, BoundedSeqs DEF NameList, Called
<1>3. SolidItem \subseteq Item
  BY DEF SolidItem, FileItem, Called, Item, Hole
<1>4. ASSUME NEW I \in SUBSET SolidItem PROVE ListOf(I) \subseteq Items
  <2> SUFFICES ASSUME NEW l \in ListOf(I) PROVE l \in Items  OBVIOUS
  <2>1. l \in Seq(I) /\ Len(l) <= MaxItems + 1  BY <1>1 DEF ListOf, Fits
  <2>2. l \in Seq(Item)  BY <2>1, <1>3, SeqMonotonic
  <2> QED  BY <2>1, <2>2, <1>1, BoundedSeqs DEF Items
<1>5. ASSUME NEW G \in SUBSET Global, NEW I \in SUBSET SolidItem
      PROVE  SectionOf(G, I) \subseteq Section
  BY <1>4 DEF SectionOf, Section
<1>6. ASSUME NEW G \in SUBSET Global PROVE RequestOf(G) \subseteq Request
  <2>1. SectionOf(G, SolidItem) \subseteq Section  BY <1>5
  <2> HIDE DEF SectionOf, Section
  <2> QED  BY <2>1 DEF RequestOf, Request
<1> QED  BY <1>2, <1>3, <1>5, <1>6

\* More globals or more entries make a larger type.
LEMMA Larger ==
    ASSUME NEW G, NEW H, G \subseteq H
    PROVE  /\ \A I, J : I \subseteq J => SectionOf(G, I) \subseteq SectionOf(H, J)
           /\ RequestOf(G) \subseteq RequestOf(H)
<1>1. ASSUME NEW I, NEW J, I \subseteq J PROVE ListOf(I) \subseteq ListOf(J)
  BY <1>1, SeqMonotonic DEF ListOf
<1>2. ASSUME NEW I, NEW J, I \subseteq J
      PROVE  SectionOf(G, I) \subseteq SectionOf(H, J)
  BY <1>1, <1>2 DEF SectionOf
<1>3. SectionOf(G, SolidItem) \subseteq SectionOf(H, SolidItem)  BY <1>2
<1>4. RequestOf(G) \subseteq RequestOf(H)
  <2> HIDE DEF SectionOf
  <2> QED  BY <1>3 DEF RequestOf
<1> QED  BY <1>2, <1>4

\* A list that is short enough fits.
LEMMA ShortFits ==
    ASSUME NEW I, NEW l \in Seq(I), Len(l) <= MaxItems
    PROVE  l \in ListOf(I)
BY DEF ListOf, Fits

\* DefaultRouteInstaller names the rules that are there and appends one that
\* the list does not have.
LEMMA InstalledTyped ==
    ASSUME NEW I, FileItem \subseteq I, I \subseteq SolidItem,
           NEW l \in ListOf(I), NEW n \in Called
    PROVE  Installed(l, n) \in ListOf(I)
<1>1. MaxItems \in Nat /\ l \in Seq(I) /\ Fits(l)  BY Constants DEF ListOf
<1>2. CASE \E i \in DOMAIN l : l[i].id = DefaultRule
  <2> DEFINE given(x) == IF x.id = DefaultRule /\ x.name = NoName
                           THEN [x EXCEPT !.name = n] ELSE x
             m == [i \in DOMAIN l |-> given(l[i])]
  <2>1. Installed(l, n) = m  BY <1>2 DEF Installed
  <2>2. ASSUME NEW x \in I PROVE given(x) \in I /\ given(x).id = x.id
    <3>1. CASE x.id = DefaultRule /\ x.name = NoName
      <4>1. x \in FileItem  BY <3>1, Constants DEF SolidItem, Hole
      <4> QED  BY <3>1, <4>1 DEF FileItem
    <3> QED  BY <3>1
  <2> HIDE DEF given
  <2>3. DOMAIN l = 1 .. Len(l) /\ Len(l) \in Nat
        /\ \A i \in DOMAIN l : m[i] \in I /\ m[i].id = l[i].id
    BY <1>1, <2>2
  <2>4. m \in [1 .. Len(l) -> I]  BY <2>3
  <2> HIDE DEF m
  <2>5. m \in Seq(I) /\ Len(m) = Len(l) /\ DOMAIN m = DOMAIN l  BY <2>3, <2>4
  <2>6. Fits(m)  BY <1>1, <2>3, <2>5 DEF Fits
  <2> QED  BY <2>1, <2>5, <2>6 DEF ListOf
<1>3. CASE ~\E i \in DOMAIN l : l[i].id = DefaultRule
  <2> DEFINE x == [id |-> DefaultRule, name |-> n]
             a == Append(l, x)
  <2>1. Len(l) <= MaxItems  BY <1>1, <1>3 DEF Fits
  <2>2. x \in I  BY DEF FileItem
  <2>3. Installed(l, n) = a  BY <1>3 DEF Installed
  <2>4. a \in Seq(I) /\ Len(a) = Len(l) + 1 /\ a[Len(l) + 1] = x
    <3> HIDE DEF x
    <3> QED  BY <1>1, <2>2
  <2>5. Len(l) \in Nat /\ Len(l) + 1 \in DOMAIN a  BY <1>1, <2>4
  <2>6. a[Len(l) + 1].id = DefaultRule  BY <2>4
  <2>7. Len(a) <= MaxItems \/ Len(a) = MaxItems + 1
    BY <1>1, <2>1, <2>4, <2>5
  <2> HIDE DEF a, x
  <2>8. Fits(a)  BY <2>5, <2>6, <2>7 DEF Fits
  <2> QED  BY <2>3, <2>4, <2>8 DEF ListOf
<1> QED  BY <1>2, <1>3

\* The edits that do not go through a form.
LEMMA RewritesTyped ==
    ASSUME NEW G, NEW I, NEW s \in SectionOf(G, I), NEW t \in Rewrites(s)
    PROVE  /\ t.globals \in G \cup Global
           /\ t \in SectionOf({t.globals}, I)
<1>1. /\ s = [globals |-> s.globals, sets |-> s.sets, rules |-> s.rules]
      /\ s.globals \in G /\ s.sets \in ListOf(SolidItem) /\ s.rules \in ListOf(I)
  BY DEF SectionOf
<1>2. CASE \E g \in Global : t = [s EXCEPT !.globals = g]
  BY <1>1, <1>2 DEF SectionOf
<1>3. MaxItems \in Nat /\ s.rules \in Seq(I) /\ Fits(s.rules)
  BY <1>1, Constants DEF ListOf
<1>4. CASE t = WithoutFirst(s)
  <2> DEFINE l == IF s.rules = <<>> THEN s.rules ELSE Tail(s.rules)
  <2>1. t = [s EXCEPT !.rules = l]  BY <1>4 DEF WithoutFirst
  <2>2. l \in Seq(I) /\ Len(l) <= MaxItems
    <3>1. CASE s.rules = <<>>  BY <3>1, <1>3
    <3>2. CASE s.rules # <<>>
      <4>1. Tail(s.rules) \in Seq(I) /\ Len(Tail(s.rules)) = Len(s.rules) - 1
        BY <1>3, <3>2, HeadTailProperties
      <4>2. Len(s.rules) <= MaxItems + 1 /\ Len(s.rules) \in Nat
        BY <1>3 DEF Fits
      <4> QED  BY <3>2, <4>1, <4>2, <1>3
    <3> QED  BY <3>1, <3>2
  <2>3. l \in ListOf(I)  BY <2>2, ShortFits
  <2> HIDE DEF l
  <2> QED  BY <1>1, <2>1, <2>3 DEF SectionOf
<1>5. CASE t = [s EXCEPT !.rules = Reverse(@)]
  <2> DEFINE r == s.rules
             n == Len(r)
             l == Reverse(r)
  <2>1. n \in Nat /\ DOMAIN r = 1 .. n /\ \A i \in 1 .. n : r[i] \in I
    BY <1>3
  <2>2. l = [i \in 1 .. n |-> r[(n - i) + 1]]  BY DEF Reverse
  <2> HIDE DEF r, n, l
  <2>3. \A i \in 1 .. n : (n - i) + 1 \in 1 .. n  BY <2>1
  <2>4. l \in [1 .. n -> I]  BY <2>1, <2>2, <2>3
  <2>5. l \in Seq(I) /\ Len(l) = n /\ DOMAIN l = 1 .. n  BY <2>1, <2>4
  <2>6. ASSUME NEW i \in DOMAIN r, r[i].id = DefaultRule
        PROVE  \E j \in DOMAIN l : l[j].id = DefaultRule
    <3>1. (n - i) + 1 \in 1 .. n /\ (n - ((n - i) + 1)) + 1 = i  BY <2>1
    <3>2. l[(n - i) + 1] = r[i]  BY <2>2, <3>1
    <3> QED  BY <2>5, <2>6, <3>1, <3>2
  <2>7. Fits(r)  BY <1>3 DEF r
  <2>8. Fits(l)  BY <2>5, <2>6, <2>7 DEF Fits, n
  <2>9. l \in ListOf(I)  BY <2>5, <2>8 DEF ListOf
  <2>10. t = [s EXCEPT !.rules = l]  BY <1>5 DEF l, r
  <2> QED  BY <1>1, <2>9, <2>10 DEF SectionOf
<1> QED  BY <1>2, <1>4, <1>5 DEF Rewrites

\* The names beside the rules: one for each rule.
LEMMA AlignedTyped ==
    ASSUME names \in NameList, nameDraft \in NameList \cup {NULL},
           NEW I \in SUBSET SolidItem, NEW rules \in ListOf(I)
    PROVE  /\ alignedMetadata(rules) \in NameList
           /\ Len(alignedMetadata(rules)) = Len(rules)
<1> DEFINE metadata == IF nameDraft # NULL THEN nameDraft ELSE names
           n == Len(rules)
<1>1. metadata \in Seq(Called)  BY TypesFit
<1>2. n \in Nat /\ DOMAIN rules = 1 .. n /\ n <= MaxItems + 1
  BY Constants DEF ListOf, Fits
<1>3. alignedMetadata(rules) =
        [i \in 1 .. n |-> IF i \in DOMAIN metadata THEN metadata[i] ELSE NoName]
  BY <1>2 DEF alignedMetadata
<1>4. \A i \in DOMAIN metadata : metadata[i] \in Called  BY <1>1
<1>5. NoName \in Called  BY DEF Called
<1> HIDE DEF metadata, n
<1>6. alignedMetadata(rules) \in [1 .. n -> Called]  BY <1>3, <1>4, <1>5
<1>7. alignedMetadata(rules) \in Seq(Called) /\ Len(alignedMetadata(rules)) = n
  BY <1>2, <1>6
<1> QED  BY <1>2, <1>7, TypesFit DEF n

-----------------------------------------------------------------------------
(* The names of the daemon. *)

\* Every entry that Matching finds is a stored one; List gives each rule one
\* name, and ApplyDefaultNames and Save store one entry for each rule.
LEMMA ListTyped ==
    ASSUME NEW st \in Seq(Entry), NEW ids \in Seq(Id \cup {DefaultRule})
    PROVE  List(st, ids) \in Seq(Called) /\ Len(List(st, ids)) = Len(ids)
<1> DEFINE taken == UNION {Matching(st, ids, i) : i \in DOMAIN ids}
           At_(i) == IF i \in DOMAIN st \ taken THEN {i} ELSE {}
           From(i) == IF Matching(st, ids, i) # {} THEN Matching(st, ids, i)
                      ELSE At_(i)
           Shows(i) == IF From(i) = {} THEN NoName
                       ELSE st[CHOOSE j \in From(i) : TRUE].name
<1>1. List(st, ids) = [i \in DOMAIN ids |-> Shows(i)]  BY DEF List
<1>2. ASSUME NEW i PROVE Shows(i) \in Called
  <2>1. Matching(st, ids, i) \subseteq DOMAIN st  BY DEF Matching
  <2>2. From(i) \subseteq DOMAIN st  BY <2>1
  <2>3. \A j \in DOMAIN st : st[j].name \in Called
    <3> TAKE j \in DOMAIN st
    <3>1. st[j] \in Entry  BY ElementOfSeq
    <3> QED  BY <3>1 DEF Entry
  <2> HIDE DEF From
  <2>4. CASE From(i) = {}  BY <2>4 DEF Called
  <2>5. CASE From(i) # {}
    <3>1. (CHOOSE j \in From(i) : TRUE) \in From(i)  BY <2>5
    <3> QED  BY <2>2, <2>3, <2>5, <3>1
  <2> QED  BY <2>4, <2>5
<1> HIDE DEF Shows
<1>3. DOMAIN ids = 1 .. Len(ids) /\ Len(ids) \in Nat  OBVIOUS
<1>4. List(st, ids) \in [1 .. Len(ids) -> Called]  BY <1>1, <1>2, <1>3
<1> QED  BY <1>3, <1>4

LEMMA SaveTyped ==
    ASSUME NEW ids \in Seq(Id \cup {DefaultRule}), NEW ns \in Seq(Called),
           Len(ids) = Len(ns)
    PROVE  Save(ids, ns) \in Seq(Entry)
<1>1. DOMAIN ids = 1 .. Len(ids) /\ Len(ids) \in Nat /\ DOMAIN ns = DOMAIN ids
  OBVIOUS
<1>2. \A i \in DOMAIN ids : [fp |-> ids[i], name |-> ns[i]] \in Entry
  BY <1>1 DEF Entry
<1>3. Save(ids, ns) \in [1 .. Len(ids) -> Entry]  BY <1>1, <1>2 DEF Save
<1> QED  BY <1>1, <1>3

LEMMA DefaultNamesTyped ==
    ASSUME NEW st \in Seq(Entry), NEW ids \in Seq(Id \cup {DefaultRule})
    PROVE  ApplyDefaultNames(st, ids) \in Seq(Entry)
<1> DEFINE listed == List(st, ids)
           ns == [i \in DOMAIN ids |-> IF listed[i] # NoName THEN listed[i]
                                       ELSE defaultRouteRuleName(ids[i])]
<1>1. listed \in Seq(Called) /\ Len(listed) = Len(ids)  BY ListTyped
<1>2. DOMAIN ids = 1 .. Len(ids) /\ Len(ids) \in Nat /\ DOMAIN listed = DOMAIN ids
  BY <1>1
<1> HIDE DEF listed
<1>3. \A i \in DOMAIN ids : listed[i] \in Called
                            /\ defaultRouteRuleName(ids[i]) \in Called
  BY <1>1, <1>2 DEF defaultRouteRuleName, Called
<1>4. ns \in [1 .. Len(ids) -> Called]  BY <1>2, <1>3
<1>5. ns \in Seq(Called) /\ Len(ns) = Len(ids)  BY <1>2, <1>4
<1>6. ApplyDefaultNames(st, ids) = Save(ids, ns)
  BY DEF ApplyDefaultNames, listed
<1> HIDE DEF ns
<1> QED  BY <1>5, <1>6, SaveTyped

\* The rules of a file and the JSON that stands for them.
LEMMA FileIds ==
    ASSUME NEW G, NEW s \in SectionOf(G, FileItem)
    PROVE  /\ IdsOf(s.rules) \in Seq(Id \cup {DefaultRule})
           /\ Len(IdsOf(s.rules)) = Len(s.rules)
           /\ Len(s.rules) \in Nat /\ Len(s.rules) <= MaxItems + 1
           /\ NamesOf(s.rules) \in NameList
           /\ Len(NamesOf(s.rules)) = Len(s.rules)
<1>1. s.rules \in Seq(FileItem) /\ Fits(s.rules)  BY DEF SectionOf, ListOf
<1>2. /\ IdsOf(s.rules) \in Seq(Id \cup {DefaultRule})
      /\ Len(IdsOf(s.rules)) = Len(s.rules)
      /\ NamesOf(s.rules) \in Seq(Called)
      /\ Len(NamesOf(s.rules)) = Len(s.rules)
  BY <1>1, ReadTyped DEF FileItem
<1>3. Len(s.rules) \in Nat /\ Len(s.rules) <= MaxItems + 1
  BY <1>1, Constants DEF Fits
<1> QED  BY <1>2, <1>3, TypesFit

-----------------------------------------------------------------------------
(* The inductive invariant. *)

\* The globals that may be in the file, in the cache and in a request, and
\* those that may be in the draft.  The endpoints page saves all it shows.
Saved == IF page = "endpoints" THEN Global ELSE submitted
Drafted == IF page = "proxies" THEN submitted ELSE Global

SectionsInv ==
    /\ page \in Page
    /\ submitted \subseteq Global
    /\ file \in SectionOf(Saved, FileItem)
    /\ cache \in SectionOf(Saved, FileItem)
    /\ draft # NULL => draft \in SectionOf(Drafted, SolidItem)

RequestsInv ==
    /\ requests \in Seq(RequestOf(Saved))
    /\ Len(requests) <= MaxRequests

NamesInv ==
    /\ stored \in Seq(Entry)
    /\ names \in NameList
    /\ nameDraft \in NameList \cup {NULL}

CountInv ==
    /\ spent \in [lists : 0 .. MaxLists, others : 0 .. MaxOthers,
                  faults : 0 .. MaxFaults]
    /\ stray \in BOOLEAN

\* What the dialog knows of the draft behind it and of its fields.
Open(d, object) ==
    /\ d \in Dialog
    /\ object # NULL
    /\ page \in PolicyPages \cup {"proxies", "endpoints"}
    /\ (page # "proxies" /\ d.index # 0) =>
          /\ d.index \in DOMAIN object[d.kind]
          /\ object[d.kind][d.index].id = d.item
    /\ page # "endpoints" => d.bad \subseteq d.invalid

DialogInv == dialog # NULL => Open(dialog, draft)

IInv == SectionsInv /\ RequestsInv /\ NamesInv /\ CountInv /\ DialogInv

\* The page never changes, and what was submitted stays submitted.
Grows ==
    /\ page' = page
    /\ submitted \subseteq submitted' /\ submitted' \subseteq Global

LEMMA GrowsTypes ==
    ASSUME SectionsInv, Grows
    PROVE  /\ Saved \subseteq Saved' /\ Saved' \subseteq Global
           /\ Drafted \subseteq Drafted' /\ Drafted' \subseteq Global
           /\ Saved \subseteq Global /\ submitted \subseteq Saved
           /\ Drafted \subseteq Global /\ Saved \subseteq Drafted
           /\ \A I, J : I \subseteq J =>
                SectionOf(Saved, I) \subseteq SectionOf(Saved', J)
           /\ SectionOf(Drafted, SolidItem) \subseteq SectionOf(Drafted', SolidItem)
           /\ RequestOf(Saved) \subseteq RequestOf(Saved')
<1>1. /\ Saved \subseteq Saved' /\ Saved' \subseteq Global
      /\ Drafted \subseteq Drafted' /\ Drafted' \subseteq Global
      /\ Saved \subseteq Global /\ submitted \subseteq Saved
      /\ Drafted \subseteq Global /\ Saved \subseteq Drafted
  BY DEF SectionsInv, Grows, Saved, Drafted
<1>2. /\ \A I, J : I \subseteq J =>
           SectionOf(Saved, I) \subseteq SectionOf(Saved', J)
      /\ SectionOf(Drafted, SolidItem) \subseteq SectionOf(Drafted', SolidItem)
      /\ RequestOf(Saved) \subseteq RequestOf(Saved')
  <2> HIDE DEF Saved, Drafted
  <2> QED  BY <1>1, Larger
<1> QED  BY <1>1, <1>2

-----------------------------------------------------------------------------
(* The initial states. *)

LEMMA InitIInv == Init => IInv
<1> SUFFICES ASSUME Init PROVE IInv  OBVIOUS
<1> DEFINE s == InitSection[page]
<1>1. page \in Page /\ file = s /\ cache = s /\ draft = s /\ submitted = {s.globals}
  BY DEF Init
<1>2. /\ s = [globals |-> s.globals, sets |-> s.sets, rules |-> s.rules]
      /\ s.globals \in Global
      /\ s.sets \in BoundedSeq(FileItem, MaxItems)
      /\ s.rules \in BoundedSeq(FileItem, MaxItems)
  <2>1. FileList = BoundedSeq(FileItem, MaxItems)
    BY DEF FileList, FileItem, Called
  <2>2. s \in [globals : Global, sets : FileList, rules : FileList]
    BY <1>1, SectionAssumption
  <2> HIDE DEF s
  <2> QED  BY <2>1, <2>2
<1>3. s.sets \in Seq(FileItem) /\ Len(s.sets) <= MaxItems
      /\ s.rules \in Seq(FileItem) /\ Len(s.rules) <= MaxItems
  BY <1>2, Constants, BoundedSeqs
<1>4. s.sets \in Seq(SolidItem)  BY <1>3, SeqMonotonic DEF SolidItem
<1>5. s.sets \in ListOf(SolidItem) /\ s.rules \in ListOf(FileItem)
  BY <1>3, <1>4, ShortFits
<1> HIDE DEF s
<1>6. s \in SectionOf({s.globals}, FileItem)
  BY <1>2, <1>5 DEF SectionOf
<1>7. {s.globals} \subseteq Saved /\ {s.globals} \subseteq Drafted
  BY <1>1, <1>2 DEF Saved, Drafted
<1>8. FileItem \subseteq SolidItem  BY DEF SolidItem
<1>9. s \in SectionOf(Saved, FileItem) /\ s \in SectionOf(Drafted, SolidItem)
  <2> HIDE DEF Saved, Drafted
  <2> QED  BY <1>6, <1>7, <1>8, Larger
<1>10. SectionsInv  BY <1>1, <1>2, <1>9 DEF SectionsInv
<1>11. RequestsInv  BY Constants DEF Init, RequestsInv
<1>12. NamesInv
  <2> HIDE DEF s
  <2>1. /\ IdsOf(s.rules) \in Seq(Id \cup {DefaultRule})
        /\ NamesOf(s.rules) \in NameList
        /\ Len(NamesOf(s.rules)) = Len(IdsOf(s.rules))
    BY <1>6, FileIds
  <2>2. Save(IdsOf(s.rules), NamesOf(s.rules)) \in Seq(Entry)
    BY <2>1, TypesFit, SaveTyped
  <2> QED  BY <1>1, <2>1, <2>2 DEF Init, NamesInv
<1>13. CountInv
  <2>1. 0 \in 0 .. MaxLists /\ 0 \in 0 .. MaxOthers /\ 0 \in 0 .. MaxFaults
    BY Constants
  <2>2. spent = [lists |-> 0, others |-> 0, faults |-> 0] /\ stray = FALSE
    BY DEF Init
  <2> QED  BY <2>1, <2>2 DEF CountInv
<1>14. DialogInv  BY DEF Init, DialogInv
<1> QED  BY <1>10, <1>11, <1>12, <1>13, <1>14 DEF IInv

-----------------------------------------------------------------------------
(* The steps of the dialog and of the editor. *)

\* A step of the dialog alone.
LEMMA DialogStep ==
    ASSUME IInv, NEW d, Becomes(d), d # NULL => Open(d, draft)
    PROVE  IInv'
<1>1. /\ dialog' = d
      /\ UNCHANGED <<page, server, cache, names, draft, nameDraft, requests,
                     spent, stray, submitted>>
  BY DEF Becomes
<1>2. SectionsInv'
  BY <1>1 DEF IInv, SectionsInv, Saved, Drafted, server
<1>3. RequestsInv'  BY <1>1 DEF IInv, RequestsInv, Saved
<1>4. NamesInv'  BY <1>1 DEF IInv, NamesInv, server
<1>5. CountInv'  BY <1>1 DEF IInv, CountInv
<1>6. DialogInv'
  <2>1. d # NULL => Open(d, draft)'  BY <1>1 DEF Open
  <2> QED  BY <1>1, <2>1 DEF DialogInv
<1> QED  BY <1>2, <1>3, <1>4, <1>5, <1>6 DEF IInv

\* No text, choice or JSON makes the dialog forget an invalid field, except
\* in the endpoint's.
LEMMA DialogKept ==
    ASSUME NEW d, NEW e, Open(d, draft), e \in Dialog,
           e.kind = d.kind, e.index = d.index, e.item = d.item,
           page # "endpoints" => e.bad \subseteq e.invalid
    PROVE  Open(e, draft)
BY DEF Open

LEMMA InputStep ==
    ASSUME IInv, NEW ready \in BOOLEAN, Input(ready)
    PROVE  IInv'
<1> DEFINE d == dialog
           F == {"number", "structured"}
<1>1. d # NULL /\ Open(d, draft)  BY DEF IInv, DialogInv, Input
<1>2. d \in Dialog /\ (page # "endpoints" => d.bad \subseteq d.invalid)
  BY <1>1 DEF Open
<1>3. Shown \subseteq F  BY DEF Shown, Fields
<1> HIDE DEF F
<1>4. ASSUME NEW f \in Shown, Becomes(ValidInput(d, f, ready)) PROVE IInv'
  <2> DEFINE e == ValidInput(d, f, ready)
  <2>1. /\ e \in Dialog /\ e.kind = d.kind /\ e.index = d.index /\ e.item = d.item
        /\ e.bad = d.bad \ {f} /\ e.invalid = d.invalid \ {f}
    BY <1>2 DEF ValidInput, Dialog
  <2> HIDE DEF e
  <2>2. Open(e, draft)  BY <1>1, <1>2, <2>1, DialogKept
  <2> QED  BY <1>4, <2>2, DialogStep DEF e
<1>5. ASSUME NEW f \in Shown, Becomes(InvalidInput(d, f)) PROVE IInv'
  <2> DEFINE e == InvalidInput(d, f)
  <2>1. /\ e \in Dialog /\ e.kind = d.kind /\ e.index = d.index /\ e.item = d.item
        /\ e.bad = d.bad \cup {f} /\ e.invalid = d.invalid \cup {f}
    BY <1>2, <1>3 DEF InvalidInput, Dialog, F
  <2> HIDE DEF e
  <2>2. Open(e, draft)  BY <1>1, <1>2, <2>1, DialogKept
  <2> QED  BY <1>5, <2>2, DialogStep DEF e
<1>6. ASSUME NEW hidden \in SUBSET Shown, NEW dropped \in SUBSET Shown,
             Becomes(ChoiceMade(d, hidden, dropped, ready))
      PROVE  IInv'
  <2> DEFINE e == ChoiceMade(d, hidden, dropped, ready)
  <2>1. /\ e \in Dialog /\ e.kind = d.kind /\ e.index = d.index /\ e.item = d.item
        /\ e.bad = d.bad \ (hidden \cup dropped)
        /\ e.invalid = d.invalid \ (hidden \cup (dropped \cap {"structured"}))
    BY <1>2 DEF ChoiceMade, Dialog
  <2> HIDE DEF e
  <2>2. Open(e, draft)  BY <1>1, <1>2, <2>1, DialogKept
  <2> QED  BY <1>6, <2>2, DialogStep DEF e
<1> QED  BY <1>4, <1>5, <1>6 DEF Input

LEMMA InputJSONStep ==
    ASSUME IInv, NEW ready \in BOOLEAN, InputJSON(ready)
    PROVE  IInv'
<1> DEFINE d == dialog
<1>1. d # NULL /\ Open(d, draft)  BY DEF IInv, DialogInv, InputJSON
<1>2. d \in Dialog /\ (page # "endpoints" => d.bad \subseteq d.invalid)
  BY <1>1 DEF Open
<1>3. CASE Becomes(JSONInput(d, ready))
  <2> DEFINE e == JSONInput(d, ready)
  <2>1. /\ e \in Dialog /\ e.kind = d.kind /\ e.index = d.index /\ e.item = d.item
        /\ e.bad = {} /\ e.invalid = {}
    BY <1>2 DEF JSONInput, Dialog
  <2> HIDE DEF e
  <2>2. Open(e, draft)  BY <1>1, <2>1, DialogKept
  <2> QED  BY <1>3, <2>2, DialogStep DEF e
<1>4. CASE Becomes(JSONBroken(page, d))
  <2> DEFINE e == JSONBroken(page, d)
  <2>1. /\ e \in Dialog /\ e.kind = d.kind /\ e.index = d.index /\ e.item = d.item
        /\ \/ e.bad = d.bad /\ e.invalid = d.invalid
           \/ e.bad = {} /\ e.invalid = {}
    BY <1>2 DEF JSONBroken, Dialog
  <2> HIDE DEF e
  <2>2. Open(e, draft)  BY <1>1, <1>2, <2>1, DialogKept
  <2> QED  BY <1>4, <2>2, DialogStep DEF e
<1> QED  BY <1>3, <1>4 DEF InputJSON

\* A dialog opens on an entry of the draft, or on a blank one.
LEMMA EditStep ==
    ASSUME IInv, NEW kind \in {"rules", "sets"}, NEW i, Edit(kind, i),
           i # 0 => i \in DOMAIN draft[kind],
           page \in PolicyPages \cup {"proxies", "endpoints"}
    PROVE  IInv'
<1> DEFINE item == IF i = 0 THEN Blank ELSE draft[kind][i].id
           d == Opened(kind, i, item)
<1>1. /\ draft # NULL /\ dialog = NULL /\ dialog' = d
      /\ spent.lists < MaxLists /\ spent' = [spent EXCEPT !.lists = @ + 1]
      /\ UNCHANGED <<page, file, stored, cache, names, draft, nameDraft, requests,
                     stray, submitted>>
  BY DEF Edit, Idle, SpendList, server
<1>2. draft[kind] \in ListOf(SolidItem)
  BY <1>1, TypesFit DEF IInv, SectionsInv, SectionOf
<1>3. i \in 0 .. MaxItems + 1 /\ item \in Id \cup {Blank, DefaultRule}
  <2>1. CASE i = 0  BY <2>1, Constants
  <2>2. CASE i # 0
    <3>1. draft[kind] \in Seq(SolidItem) /\ Len(draft[kind]) <= MaxItems + 1
      BY <1>2, Constants DEF ListOf, Fits
    <3>2. i \in 1 .. Len(draft[kind])  BY <2>2, <3>1
    <3>3. draft[kind][i] \in SolidItem  BY <3>1, <3>2, ElementOfSeq
    <3> QED  BY <2>2, <3>1, <3>2, <3>3, Constants
             DEF SolidItem, FileItem, Hole
  <2> QED  BY <2>1, <2>2
<1>4. d \in Dialog /\ d.kind = kind /\ d.index = i /\ d.item = item /\ d.bad = {}
  <2> HIDE DEF item
  <2> QED  BY <1>3 DEF Opened, Dialog
<1> HIDE DEF d
<1>5. Open(d, draft)  BY <1>1, <1>4 DEF Open
<1>6. SectionsInv'
  BY <1>1 DEF IInv, SectionsInv, Saved, Drafted
<1>7. RequestsInv'  BY <1>1 DEF IInv, RequestsInv, Saved
<1>8. NamesInv'  BY <1>1 DEF IInv, NamesInv
<1>9. CountInv'
  BY <1>1, Constants DEF IInv, CountInv
<1>10. DialogInv'  BY <1>1, <1>5 DEF DialogInv, Open
<1> QED  BY <1>6, <1>7, <1>8, <1>9, <1>10 DEF IInv

-----------------------------------------------------------------------------
(* The cache, the draft and the file. *)

\* A section is an object: what replaces the draft is never NULL.
LEMMA Objects ==
    ASSUME SectionsInv
    PROVE  /\ file # NULL /\ cache # NULL
           /\ file \in SectionOf(Drafted, SolidItem)
           /\ cache \in SectionOf(Drafted, SolidItem)
           /\ \A I, s : I \subseteq SolidItem /\ s \in SectionOf(Drafted, I)
                => s # NULL
<1>1. Saved \subseteq Drafted /\ Drafted \subseteq Global
  BY DEF SectionsInv, Saved, Drafted
<1>2. FileItem \subseteq SolidItem  BY DEF SolidItem
<1>3. SectionOf(Saved, FileItem) \subseteq SectionOf(Drafted, SolidItem)
  <2> HIDE DEF Saved, Drafted
  <2> QED  BY <1>1, <1>2, Larger
<1>4. \A I, s : I \subseteq SolidItem /\ s \in SectionOf(Drafted, I) => s # NULL
  <2> HIDE DEF Drafted
  <2> QED  BY <1>1, TypesFit, NullAssumption
<1> QED  BY <1>3, <1>4 DEF SectionsInv

\* The editor is a new one when the JSON of its section has changed: the
\* dialog of a policy or of an endpoint does not outlive the draft it was
\* opened on.  After a failure all are new.
LEMMA RefreshStep ==
    ASSUME IInv, Refresh, UNCHANGED <<page, file, submitted>>
    PROVE  SectionsInv' /\ DialogInv' /\ stray' \in BOOLEAN
<1>1. SectionsInv /\ DialogInv /\ stray \in BOOLEAN  BY DEF IInv, CountInv
<1> DEFINE again == Opened(dialog.kind, dialog.index, dialog.item)
<1>2. cache' = file
      /\ \/ page = "proxies" /\ draft' = file /\ dialog' = dialog
         \/ draft' = draft /\ dialog' = dialog
         \/ draft' = file /\ dialog' = NULL
         \/ page = "proxies" /\ draft' = file /\ dialog # NULL /\ dialog' = again
  BY DEF Refresh, Remount
<1>7. stray' \in BOOLEAN  BY <1>1 DEF Refresh
<1>3. file # NULL /\ file \in SectionOf(Drafted, SolidItem)  BY <1>1, Objects
<1>4. Saved' = Saved /\ Drafted' = Drafted  BY DEF Saved, Drafted
<1>5. SectionsInv'
  <2> HIDE DEF Saved, Drafted
  <2> QED  BY <1>1, <1>2, <1>3, <1>4 DEF SectionsInv
<1>6. DialogInv'
  <2> SUFFICES ASSUME dialog' # NULL PROVE Open(dialog, draft)'
    BY DEF DialogInv
  <2> HIDE DEF again
  <2>1. dialog # NULL /\ Open(dialog, draft)  BY <1>1, <1>2 DEF DialogInv
  <2>2. CASE page = "proxies" /\ draft' = file /\ dialog' = dialog
    BY <2>1, <2>2, <1>3 DEF Open
  <2>3. CASE draft' = draft /\ dialog' = dialog  BY <2>1, <2>3 DEF Open
  <2>4. CASE page = "proxies" /\ draft' = file /\ dialog' = again
    <3>1. again \in Dialog /\ again.bad \subseteq again.invalid
      BY <2>1 DEF again, Opened, Open, Dialog
    <3> QED  BY <2>4, <3>1, <1>3 DEF Open
  <2> QED  BY <1>2, <2>1, <2>2, <2>3, <2>4
<1> QED  BY <1>5, <1>6, <1>7

LEMMA RefetchStep == ASSUME IInv, Refetch PROVE IInv'
<1>1. Refresh
      /\ UNCHANGED <<page, file, stored, names, nameDraft, requests, spent,
                     submitted>>
  BY DEF Refetch, server
<1>2. SectionsInv' /\ DialogInv' /\ stray' \in BOOLEAN  BY <1>1, RefreshStep
<1>3. RequestsInv'  BY <1>1 DEF IInv, RequestsInv, Saved
<1>4. NamesInv' /\ CountInv'  BY <1>1, <1>2 DEF IInv, NamesInv, CountInv
<1> QED  BY <1>2, <1>3, <1>4 DEF IInv

\* A flag of a request is not part of what its type restricts.
LEMMA FlagsFree ==
    ASSUME NEW G, NEW r \in RequestOf(G)
    PROVE  /\ [r EXCEPT !.latest = FALSE] \in RequestOf(G)
           /\ [r EXCEPT !.here = FALSE, !.latest = FALSE] \in RequestOf(G)
<1> DEFINE B == SectionOf(G, SolidItem)
<1>1. RequestOf(G) =
    {q \in [kind : {"rules", "global", "install"},
            body : B, names : NameList \cup {NULL},
            here : BOOLEAN, latest : BOOLEAN, skips : BOOLEAN,
            stage : Answered \cup {"sent", "second", "naming", "named",
                                   "unnamed", "listing"}] :
       q.stage \in {"naming", "named", "unnamed"} => q.names # NULL}
  BY DEF RequestOf
<1> HIDE DEF B
<1> QED  BY <1>1

\* Spending from the bounds.
LEMMA SpentTyped ==
    ASSUME CountInv
    PROVE  /\ SpendList => spent' \in [lists : 0 .. MaxLists,
                 others : 0 .. MaxOthers, faults : 0 .. MaxFaults]
           /\ SpendOther => spent' \in [lists : 0 .. MaxLists,
                 others : 0 .. MaxOthers, faults : 0 .. MaxFaults]
           /\ \A fails \in BOOLEAN : SpendFault(fails) =>
                 spent' \in [lists : 0 .. MaxLists,
                   others : 0 .. MaxOthers, faults : 0 .. MaxFaults]
BY Constants DEF CountInv, SpendList, SpendOther, SpendFault

LEMMA ReopenStep == ASSUME IInv, Reopen PROVE IInv'
<1>1. /\ draft' = cache /\ nameDraft' = NULL /\ dialog' = NULL
      /\ requests' = [k \in DOMAIN requests |->
                        [requests[k] EXCEPT !.here = FALSE, !.latest = FALSE]]
      /\ stray' \in BOOLEAN /\ SpendOther
      /\ UNCHANGED <<page, file, stored, cache, names, submitted>>
  BY DEF Reopen, server, IInv, CountInv
<1>2. SectionsInv /\ RequestsInv /\ NamesInv /\ CountInv  BY DEF IInv
<1>3. Saved' = Saved /\ Drafted' = Drafted  BY <1>1 DEF Saved, Drafted
<1>4. SectionsInv'
  <2>1. cache \in SectionOf(Drafted, SolidItem)  BY <1>2, Objects
  <2> HIDE DEF Saved, Drafted
  <2> QED  BY <1>1, <1>2, <1>3, <2>1 DEF SectionsInv
<1>5. RequestsInv'
  <2> DEFINE R == RequestOf(Saved)
             n == Len(requests)
  <2>1. requests \in Seq(R) /\ n \in Nat /\ n <= MaxRequests
        /\ DOMAIN requests = 1 .. n
    BY <1>2 DEF RequestsInv
  <2>2. \A k \in 1 .. n :
          [requests[k] EXCEPT !.here = FALSE, !.latest = FALSE] \in R
    <3> TAKE k \in 1 .. n
    <3>1. requests[k] \in R  BY <2>1, ElementOfSeq
    <3> QED  BY <3>1, FlagsFree
  <2> HIDE DEF R, n
  <2>3. requests' \in [1 .. n -> R]  BY <1>1, <2>1, <2>2
  <2>4. requests' \in Seq(R) /\ Len(requests') = n  BY <2>1, <2>3
  <2> QED  BY <1>3, <2>1, <2>4 DEF RequestsInv, R
<1>6. NamesInv'  BY <1>1, <1>2 DEF NamesInv
<1>7. CountInv'  BY <1>1, <1>2, SpentTyped DEF CountInv
<1>8. DialogInv'  BY <1>1 DEF DialogInv
<1> QED  BY <1>4, <1>5, <1>6, <1>7, <1>8 DEF IInv

LEMMA ForeignStep ==
    ASSUME IInv, NEW s \in Rewrites(file), ForeignWrite(s) PROVE IInv'
<1>1. /\ SpendOther /\ file' = s /\ stray' = TRUE
      /\ submitted' = submitted \cup {s.globals}
      /\ UNCHANGED <<page, stored, cache, names, draft, nameDraft, dialog,
                     requests>>
  BY DEF ForeignWrite, client
<1>2. SectionsInv /\ RequestsInv /\ NamesInv /\ CountInv /\ DialogInv
  BY DEF IInv
<1>3. Grows /\ Saved \subseteq Global
  <2>1. file \in SectionOf(Saved, FileItem) /\ Saved \subseteq Global
    BY <1>2 DEF SectionsInv, Saved
  <2>2. s.globals \in Saved \cup Global
    <3> HIDE DEF Saved
    <3> QED  BY <2>1, RewritesTyped
  <2> QED  BY <1>1, <1>2, <2>1, <2>2 DEF Grows, SectionsInv
<1>4. /\ SectionOf(Saved, FileItem) \subseteq SectionOf(Saved', FileItem)
      /\ SectionOf(Drafted, SolidItem) \subseteq SectionOf(Drafted', SolidItem)
      /\ RequestOf(Saved) \subseteq RequestOf(Saved')
      /\ submitted' \subseteq Global
  BY <1>2, <1>3, GrowsTypes DEF Grows
<1>5. s \in SectionOf(Saved', FileItem)
  <2>1. s \in SectionOf({s.globals}, FileItem) /\ file \in SectionOf(Saved, FileItem)
    <3> HIDE DEF Saved
    <3>1. file \in SectionOf(Saved, FileItem)  BY <1>2 DEF SectionsInv
    <3> QED  BY <3>1, RewritesTyped
  <2>2. {s.globals} \subseteq Saved'  BY <1>1, <1>4 DEF Saved
  <2> HIDE DEF Saved
  <2> QED  BY <2>1, <2>2, Larger
<1>6. SectionsInv'
  <2> HIDE DEF Saved, Drafted
  <2> QED  BY <1>1, <1>2, <1>4, <1>5 DEF SectionsInv
<1>7. RequestsInv'
  <2> HIDE DEF Saved
  <2> QED  BY <1>1, <1>2, <1>4, SeqMonotonic DEF RequestsInv
<1>8. NamesInv'  BY <1>1, <1>2 DEF NamesInv
<1>9. CountInv'  BY <1>1, <1>2, SpentTyped DEF CountInv
<1>10. DialogInv'  BY <1>1, <1>2 DEF DialogInv, Open
<1> QED  BY <1>6, <1>7, <1>8, <1>9, <1>10 DEF IInv

\* The draft of an open editor changes only while no dialog is open.
LEMMA DraftStep ==
    ASSUME IInv, dialog = NULL, NEW s,
           s # NULL => s \in SectionOf(Drafted, SolidItem),
           draft' = s,
           UNCHANGED <<page, server, cache, names, nameDraft, dialog, requests,
                       submitted>>,
           CountInv'
    PROVE  IInv'
<1>1. SectionsInv /\ RequestsInv /\ NamesInv  BY DEF IInv
<1>2. Saved' = Saved /\ Drafted' = Drafted  BY DEF Saved, Drafted
<1>3. SectionsInv'
  <2> HIDE DEF Saved, Drafted
  <2> QED  BY <1>1, <1>2 DEF SectionsInv, server
<1>4. RequestsInv'
  <2> HIDE DEF Saved
  <2> QED  BY <1>1, <1>2 DEF RequestsInv
<1>5. NamesInv'  BY <1>1 DEF NamesInv, server
<1>6. DialogInv'  BY DEF DialogInv
<1> QED  BY <1>3, <1>4, <1>5, <1>6 DEF IInv

LEMMA EditGlobalsStep ==
    ASSUME IInv, NEW g \in Global, EditGlobals(g) PROVE IInv'
<1> DEFINE s == [draft EXCEPT !.globals = g]
<1>1. /\ draft # NULL /\ dialog = NULL /\ page # "proxies" /\ SpendOther
      /\ draft' = s
      /\ UNCHANGED <<page, server, cache, names, nameDraft, dialog, requests,
                     stray, submitted>>
  BY DEF EditGlobals, Idle, HasGlobals, PolicyPages
<1>2. draft \in SectionOf(Drafted, SolidItem) /\ Drafted = Global
  BY <1>1 DEF IInv, SectionsInv, Drafted
<1>3. s \in SectionOf(Drafted, SolidItem)
  <2> HIDE DEF Drafted
  <2> QED  BY <1>2 DEF SectionOf
<1>4. CountInv'  BY <1>1, SpentTyped DEF IInv, CountInv
<1> HIDE DEF s
<1> QED  BY <1>1, <1>3, <1>4, DraftStep

LEMMA EditJSONStep ==
    ASSUME IInv, NEW s, EditJSON(s),
           s \in Rewrites(IF draft = NULL THEN cache ELSE draft) \cup {NULL}
    PROVE  IInv'
<1>1. /\ dialog = NULL /\ page # "proxies" /\ SpendOther /\ draft' = s
      /\ stray' \in BOOLEAN
      /\ UNCHANGED <<page, server, cache, names, nameDraft, dialog, requests,
                     submitted>>
  BY DEF EditJSON
<1>2. s # NULL => s \in SectionOf(Drafted, SolidItem)
  <2> SUFFICES ASSUME s # NULL PROVE s \in SectionOf(Drafted, SolidItem)
    OBVIOUS
  <2> DEFINE t == IF draft = NULL THEN cache ELSE draft
  <2>1. Drafted = Global  BY <1>1 DEF Drafted
  <2>2. t \in SectionOf(Global, SolidItem)
    BY <2>1, Objects DEF IInv, SectionsInv
  <2> HIDE DEF t
  <2>3. s \in Rewrites(t)  BY DEF t
  <2>4. s.globals \in Global /\ s \in SectionOf({s.globals}, SolidItem)
    BY <2>2, <2>3, RewritesTyped
  <2>5. {s.globals} \subseteq Global  BY <2>4
  <2>6. s \in SectionOf(Global, SolidItem)  BY <2>4, <2>5, Larger
  <2> QED  BY <2>1, <2>6
<1>3. CountInv'  BY <1>1, SpentTyped DEF IInv, CountInv
<1> QED  BY <1>1, <1>2, <1>3, DraftStep

\* The raw page has no dialog.
LEMMA ResetStep == ASSUME IInv, Reset PROVE IInv'
<1>1. /\ page = "raw" /\ draft' = cache
      /\ UNCHANGED <<page, server, cache, names, nameDraft, dialog, requests,
                     spent, stray, submitted>>
  BY DEF Reset
<1>2. dialog = NULL
  BY <1>1 DEF IInv, DialogInv, Open, PolicyPages
<1>3. cache \in SectionOf(Drafted, SolidItem)  BY Objects DEF IInv
<1>4. CountInv'  BY <1>1 DEF IInv, CountInv
<1> QED  BY <1>1, <1>2, <1>3, <1>4, DraftStep

-----------------------------------------------------------------------------
(* The requests that a page sends. *)

\* The listed names are one for each rule of the file.
LEMMA ListedTyped == ASSUME SectionsInv, NamesInv PROVE Listed \in NameList
<1>1. file \in SectionOf(Saved, FileItem) /\ stored \in Seq(Entry)
  BY DEF SectionsInv, NamesInv
<1> DEFINE ids == IdsOf(file.rules)
<1>2. ids \in Seq(Id \cup {DefaultRule}) /\ Len(ids) = Len(file.rules)
      /\ Len(file.rules) <= MaxItems + 1
  <2> HIDE DEF Saved
  <2> QED  BY <1>1, FileIds
<1> HIDE DEF ids
<1>3. List(stored, ids) \in Seq(Called) /\ Len(List(stored, ids)) = Len(ids)
  BY <1>1, <1>2, ListTyped
<1>4. List(stored, ids) \in NameList  BY <1>2, <1>3, TypesFit
<1> QED  BY <1>4 DEF Listed, ids

LEMMA RefetchNamesStep == ASSUME IInv, RefetchNames PROVE IInv'
<1>1. /\ names' = Listed
      /\ UNCHANGED <<page, file, stored, cache, draft, nameDraft, dialog, requests,
                     spent, stray, submitted>>
  BY DEF RefetchNames, server
<1>2. NamesInv'  BY <1>1, ListedTyped DEF IInv, NamesInv
<1>3. SectionsInv'  BY <1>1 DEF IInv, SectionsInv, Saved, Drafted
<1>4. RequestsInv'  BY <1>1 DEF IInv, RequestsInv, Saved
<1>5. CountInv'  BY <1>1 DEF IInv, CountInv
<1>6. DialogInv'  BY <1>1 DEF IInv, DialogInv, Open
<1> QED  BY <1>2, <1>3, <1>4, <1>5, <1>6 DEF IInv

\* One more request.
LEMMA AppendRequest ==
    ASSUME NEW G, NEW q \in Seq(RequestOf(G)), NEW r \in RequestOf(G),
           Len(q) < MaxRequests, NEW p \in Seq(RequestOf(G)), Len(p) = Len(q)
    PROVE  /\ Append(p, r) \in Seq(RequestOf(G))
           /\ Len(Append(p, r)) <= MaxRequests
<1> HIDE DEF RequestOf
<1> QED  BY Constants

LEMMA SendTyped ==
    ASSUME RequestsInv, NEW G, Saved \subseteq G,
           NEW kind \in {"rules", "global"}, NEW body \in SectionOf(G, SolidItem),
           NEW ns \in NameList \cup {NULL}, Send(kind, body, ns)
    PROVE  /\ requests' \in Seq(RequestOf(G))
           /\ Len(requests') <= MaxRequests
<1> DEFINE R == RequestOf(G)
           n == Len(requests)
           p == [k \in DOMAIN requests |->
                   IF requests[k].kind = "install" THEN requests[k]
                   ELSE [requests[k] EXCEPT !.latest = FALSE]]
           r == [kind |-> kind, body |-> body, names |-> ns, here |-> TRUE,
                 latest |-> TRUE,
                 skips |-> \E k \in DOMAIN requests : Pending(requests[k]),
                 stage |-> "sent"]
<1>1. requests \in Seq(R) /\ n \in Nat /\ DOMAIN requests = 1 .. n
  <2>1. RequestOf(Saved) \subseteq R
    <3> HIDE DEF Saved
    <3> QED  BY Larger
  <2>2. requests \in Seq(RequestOf(Saved))  BY DEF RequestsInv
  <2> HIDE DEF R, Saved
  <2> QED  BY <2>1, <2>2, SeqMonotonic
<1>2. p \in Seq(R) /\ Len(p) = n
  <2>1. \A k \in 1 .. n :
          (IF requests[k].kind = "install" THEN requests[k]
           ELSE [requests[k] EXCEPT !.latest = FALSE]) \in R
    <3> TAKE k \in 1 .. n
    <3>1. requests[k] \in R  BY <1>1, ElementOfSeq
    <3>2. [requests[k] EXCEPT !.latest = FALSE] \in R  BY <3>1, FlagsFree
    <3> HIDE DEF R
    <3> QED  BY <3>1, <3>2
  <2> HIDE DEF R, n
  <2>2. p \in [1 .. n -> R]  BY <1>1, <2>1
  <2> QED  BY <1>1, <2>2
<1>3. r \in R
  <2> DEFINE B == SectionOf(G, SolidItem)
             S == \E k \in DOMAIN requests : Pending(requests[k])
  <2>1. S \in BOOLEAN  OBVIOUS
  <2> HIDE DEF B, S
  <2>2. body \in B  BY DEF B
  <2>3. r = [kind |-> kind, body |-> body, names |-> ns, here |-> TRUE,
             latest |-> TRUE, skips |-> S, stage |-> "sent"]
    BY DEF S
  <2>4. R =
    {q \in [kind : {"rules", "global", "install"},
            body : B, names : NameList \cup {NULL},
            here : BOOLEAN, latest : BOOLEAN, skips : BOOLEAN,
            stage : Answered \cup {"sent", "second", "naming", "named",
                                   "unnamed", "listing"}] :
       q.stage \in {"naming", "named", "unnamed"} => q.names # NULL}
    BY DEF RequestOf, B
  <2> HIDE DEF R, r
  <2>5. r \in [kind : {"rules", "global", "install"},
            body : B, names : NameList \cup {NULL},
            here : BOOLEAN, latest : BOOLEAN, skips : BOOLEAN,
            stage : Answered \cup {"sent", "second", "naming", "named",
                                   "unnamed", "listing"}]
        /\ r.stage = "sent"
    BY <2>1, <2>2, <2>3
  <2> QED  BY <2>4, <2>5
<1>4. n < MaxRequests /\ requests' = Append(p, r)  BY DEF Send
<1> HIDE DEF p, r
<1> QED  BY <1>1, <1>2, <1>3, <1>4, AppendRequest

\* What is on the screen is the draft, but for the names of its rules.
LEMMA EditorTyped ==
    ASSUME SectionsInv, draft # NULL
    PROVE  /\ Editor \in SectionOf(Drafted, SolidItem)
           /\ Editor.rules = Seen /\ Editor.sets = draft.sets
           /\ Editor.globals = draft.globals
           /\ IdsOf(Seen) = IdsOf(draft.rules)
           /\ DOMAIN Seen = DOMAIN draft.rules /\ Len(Seen) = Len(draft.rules)
<1>1. /\ draft \in SectionOf(Drafted, SolidItem)
      /\ cache \in SectionOf(Drafted, SolidItem)
  BY Objects DEF SectionsInv
<1> HIDE DEF Drafted
<1>2. /\ draft = [globals |-> draft.globals, sets |-> draft.sets,
                  rules |-> draft.rules]
      /\ draft.globals \in Drafted /\ draft.sets \in ListOf(SolidItem)
      /\ draft.rules \in ListOf(SolidItem) /\ cache.rules \in ListOf(SolidItem)
  BY <1>1 DEF SectionOf
<1>3. Seen \in {draft.rules, cache.rules} /\ IdsOf(Seen) = IdsOf(draft.rules)
  BY DEF Seen
<1>4. Editor = [globals |-> draft.globals, sets |-> draft.sets, rules |-> Seen]
  BY <1>2 DEF Editor
<1>5. DOMAIN IdsOf(Seen) = DOMAIN Seen /\ DOMAIN IdsOf(draft.rules) = DOMAIN draft.rules
  BY DEF IdsOf
<1>6. /\ DOMAIN Seen = 1 .. Len(Seen) /\ Len(Seen) \in Nat
      /\ DOMAIN draft.rules = 1 .. Len(draft.rules) /\ Len(draft.rules) \in Nat
  BY <1>2, <1>3 DEF ListOf
<1>7. Len(Seen) = Len(draft.rules)  BY <1>3, <1>5, <1>6
<1> QED  BY <1>2, <1>3, <1>4, <1>5, <1>7 DEF SectionOf

\* A list operation: its section becomes the draft, or a request, or both.
LEMMA ListStep ==
    ASSUME IInv, NEW kind \in {"rules", "sets"}, NEW next \in Seq(SolidItem),
           NEW ns \in NameList, ListSave(kind, next, ns), draft # NULL,
           dialog' = NULL, CountInv'
    PROVE  IInv'
<1> DEFINE object == [Editor EXCEPT ![kind] = next]
<1>1. SectionsInv /\ RequestsInv /\ NamesInv  BY DEF IInv
<1>2. /\ Len(next) <= MaxItems
      /\ PolicyList(kind, object, ns) \/ ProxyList(object) \/ EndpointList(object)
      /\ UNCHANGED <<page, file, stored, cache, names, submitted>>
  BY DEF ListSave, server
<1>3. Saved' = Saved /\ Drafted' = Drafted  BY <1>2 DEF Saved, Drafted
<1>4. draft \in SectionOf(Drafted, SolidItem) /\ cache \in SectionOf(Saved, FileItem)
  BY <1>1 DEF SectionsInv
<1>5. object \in SectionOf(Drafted, SolidItem)
  <2>1. next \in ListOf(SolidItem)  BY <1>2, ShortFits
  <2>2. Editor \in SectionOf(Drafted, SolidItem)  BY <1>1, EditorTyped
  <2> HIDE DEF Drafted
  <2> QED  BY <2>1, <2>2 DEF SectionOf
<1>6. ListBody(object) \in SectionOf(Saved, SolidItem)
  <2> HIDE DEF Saved, Drafted, object
  <2> QED  BY <1>4, <1>5 DEF ListBody, SectionOf
<1> HIDE DEF object
<1>7. CASE PolicyList(kind, object, ns)
  <2>1. /\ draft' = object
        /\ nameDraft' = ns \/ nameDraft' = nameDraft
        /\ Send("rules", ListBody(object), ns)
    BY <1>7 DEF PolicyList
  <2>2. requests' \in Seq(RequestOf(Saved)) /\ Len(requests') <= MaxRequests
    <3> HIDE DEF Saved
    <3> QED  BY <1>1, <1>6, <2>1, SendTyped
  <2> HIDE DEF Saved, Drafted
  <2>3. SectionsInv'  BY <1>1, <1>2, <1>3, <1>5, <2>1 DEF SectionsInv
  <2>4. RequestsInv'  BY <1>3, <2>2 DEF RequestsInv
  <2>5. NamesInv'  BY <1>1, <1>2, <2>1 DEF NamesInv
  <2> QED  BY <2>3, <2>4, <2>5 DEF IInv, DialogInv
<1>8. CASE ProxyList(object)
  <2>1. /\ page = "proxies" /\ Send("rules", object, <<>>)
        /\ draft' = draft /\ nameDraft' = nameDraft
    BY <1>8 DEF ProxyList
  <2>2. object \in SectionOf(Saved, SolidItem)
    BY <1>5, <2>1 DEF Saved, Drafted
  <2>3. <<>> \in NameList
    <3>1. <<>> \in Seq(Called) /\ Len(<<>>) = 0  OBVIOUS
    <3>2. Len(<<>>) <= MaxItems + 1  BY <3>1, Constants
    <3> QED  BY <3>1, <3>2, TypesFit
  <2> HIDE DEF Saved, Drafted
  <2>4. requests' \in Seq(RequestOf(Saved)) /\ Len(requests') <= MaxRequests
    BY <1>1, <2>1, <2>2, <2>3, SendTyped
  <2>5. SectionsInv'  BY <1>1, <1>2, <1>3, <2>1 DEF SectionsInv
  <2>6. RequestsInv'  BY <1>3, <2>4 DEF RequestsInv
  <2>7. NamesInv'  BY <1>1, <1>2, <2>1 DEF NamesInv
  <2> QED  BY <2>5, <2>6, <2>7 DEF IInv, DialogInv
<1>9. CASE EndpointList(object)
  <2>1. /\ draft' = object
        /\ nameDraft' = nameDraft /\ requests' = requests
    BY <1>9 DEF EndpointList
  <2> HIDE DEF Saved, Drafted
  <2>2. SectionsInv'  BY <1>1, <1>2, <1>3, <1>5, <2>1 DEF SectionsInv
  <2>3. RequestsInv'  BY <1>1, <1>3, <2>1 DEF RequestsInv
  <2>4. NamesInv'  BY <1>1, <1>2, <2>1 DEF NamesInv
  <2> QED  BY <2>2, <2>3, <2>4 DEF IInv, DialogInv
<1> QED  BY <1>2, <1>7, <1>8, <1>9

\* Whether an operation brings names or not, stray stays a truth value.
LEMMA StrayBoolean ==
    ASSUME CountInv, NEW kind, NEW next, NEW ns, ListSave(kind, next, ns)
    PROVE  stray' \in BOOLEAN
BY DEF ListSave, PolicyList, ProxyList, EndpointList, CountInv

\* What an operation on a list starts from.
LEMMA ListsBehind ==
    ASSUME SectionsInv, NamesInv, draft # NULL, NEW kind \in {"rules", "sets"}
    PROVE  /\ draft[kind] \in ListOf(SolidItem)
           /\ draft[kind] \in Seq(SolidItem)
           /\ alignedMetadata(draft.rules) \in Seq(Called)
           /\ alignedMetadata(draft.rules) \in NameList
           /\ Len(alignedMetadata(draft.rules)) = Len(draft.rules)
           /\ Editor[kind] \in ListOf(SolidItem) /\ Editor[kind] \in Seq(SolidItem)
           /\ DOMAIN Editor[kind] = DOMAIN draft[kind]
           /\ Len(Editor[kind]) = Len(draft[kind])
           /\ <<>> \in NameList
<1>1. draft \in SectionOf(Drafted, SolidItem)  BY DEF SectionsInv
<1>6. /\ Editor[kind] \in ListOf(SolidItem)
      /\ DOMAIN Editor[kind] = DOMAIN draft[kind]
      /\ Len(Editor[kind]) = Len(draft[kind])
  <2>1. /\ Editor \in SectionOf(Drafted, SolidItem)
        /\ Editor.rules = Seen /\ Editor.sets = draft.sets
        /\ DOMAIN Seen = DOMAIN draft.rules /\ Len(Seen) = Len(draft.rules)
    BY EditorTyped
  <2> HIDE DEF Drafted
  <2> QED  BY <2>1 DEF SectionOf
<1>2. draft[kind] \in ListOf(SolidItem) /\ draft.rules \in ListOf(SolidItem)
  <2> HIDE DEF Drafted
  <2> QED  BY <1>1 DEF SectionOf
<1>3. <<>> \in NameList
  <2>1. <<>> \in Seq(Called) /\ Len(<<>>) = 0  OBVIOUS
  <2>2. Len(<<>>) <= MaxItems + 1  BY <2>1, Constants
  <2> QED  BY <2>1, <2>2, TypesFit
<1>4. alignedMetadata(draft.rules) \in NameList
      /\ Len(alignedMetadata(draft.rules)) = Len(draft.rules)
  BY <1>2, AlignedTyped DEF NamesInv
<1>5. alignedMetadata(draft.rules) \in Seq(Called)  BY <1>4, TypesFit
<1> QED  BY <1>2, <1>3, <1>4, <1>5, <1>6 DEF ListOf

\* The operations of an idle editor on a list.
LEMMA IdleListStep ==
    ASSUME IInv, Idle, SpendList, NEW kind \in {"rules", "sets"},
           NEW next \in Seq(SolidItem), NEW ns,
           kind = "rules" => ns \in Seq(Called) /\ Len(ns) = Len(next),
           ListSave(kind, next, With(kind, ns)), UNCHANGED dialog
    PROVE  IInv'
<1>1. SectionsInv /\ NamesInv /\ CountInv /\ draft # NULL /\ dialog' = NULL
  BY DEF IInv, Idle
<1>2. With(kind, ns) \in NameList
  <2>1. <<>> \in NameList  BY <1>1, ListsBehind
  <2>2. CASE page = "route" /\ kind = "rules"
    <3>1. Len(next) <= MaxItems  BY DEF ListSave
    <3>2. Len(ns) <= MaxItems + 1 /\ ns \in Seq(Called)
      BY <2>2, <3>1, Constants
    <3> QED  BY <2>2, <3>2, TypesFit DEF With
  <2> QED  BY <2>1, <2>2 DEF With
<1>3. CountInv'
  <2>1. stray' \in BOOLEAN  BY <1>1, StrayBoolean
  <2> QED  BY <1>1, <2>1, SpentTyped DEF CountInv
<1> QED  BY <1>1, <1>2, <1>3, ListStep

LEMMA CopyStep ==
    ASSUME IInv, NEW kind \in {"rules", "sets"}, Idle, NEW i \in DOMAIN draft[kind],
           Copy(kind, i)
    PROVE  IInv'
<1> DEFINE list == Editor[kind]
           shown == alignedMetadata(draft.rules)
<1>1. list \in Seq(SolidItem) /\ shown \in Seq(Called)
      /\ Len(shown) = Len(draft.rules) /\ i \in DOMAIN list
      /\ Len(list) = Len(draft[kind])
  BY ListsBehind DEF IInv, Idle
<1>2. SpendList /\ UNCHANGED dialog
      /\ ListSave(kind, Copied(list, i), With(kind, Copied(shown, i)))
  BY DEF Copy
<1>3. Copied(list, i) \in Seq(SolidItem) /\ Len(Copied(list, i)) = Len(list) + 1
  <2> HIDE DEF list
  <2>1. i \in DOMAIN list  BY <1>1
  <2> QED  BY <1>1, <2>1, CopiedTyped
<1>4. ASSUME kind = "rules"
      PROVE  Copied(shown, i) \in Seq(Called)
             /\ Len(Copied(shown, i)) = Len(Copied(list, i))
  <2>1. i \in DOMAIN shown /\ Len(shown) = Len(list)
    <3>1. Len(shown) = Len(list) /\ i \in DOMAIN list  BY <1>1, <1>4
    <3> HIDE DEF list, shown
    <3> QED  BY <1>1, <3>1
  <2> HIDE DEF list, shown
  <2> QED  BY <1>1, <1>3, <2>1, CopiedTyped
<1> HIDE DEF list, shown
<1> QED  BY <1>2, <1>3, <1>4, IdleListStep

LEMMA DeleteStep ==
    ASSUME IInv, NEW kind \in {"rules", "sets"}, Idle, NEW i \in DOMAIN draft[kind],
           Delete(kind, i)
    PROVE  IInv'
<1> DEFINE list == Editor[kind]
           shown == alignedMetadata(draft.rules)
<1>1. list \in Seq(SolidItem) /\ shown \in Seq(Called)
      /\ Len(shown) = Len(draft.rules) /\ i \in DOMAIN list
      /\ Len(list) = Len(draft[kind])
  BY ListsBehind DEF IInv, Idle
<1>2. SpendList /\ UNCHANGED dialog
      /\ ListSave(kind, RemoveAt(list, i), With(kind, RemoveAt(shown, i)))
  BY DEF Delete
<1>3. RemoveAt(list, i) \in Seq(SolidItem) /\ Len(RemoveAt(list, i)) = Len(list) - 1
  <2> HIDE DEF list
  <2>1. i \in DOMAIN list  BY <1>1
  <2> QED  BY <1>1, <2>1, RemoveTyped
<1>4. ASSUME kind = "rules"
      PROVE  RemoveAt(shown, i) \in Seq(Called)
             /\ Len(RemoveAt(shown, i)) = Len(RemoveAt(list, i))
  <2>1. i \in DOMAIN shown /\ Len(shown) = Len(list)
    <3>1. Len(shown) = Len(list) /\ i \in DOMAIN list  BY <1>1, <1>4
    <3> HIDE DEF list, shown
    <3> QED  BY <1>1, <3>1
  <2> HIDE DEF list, shown
  <2> QED  BY <1>1, <1>3, <2>1, RemoveTyped
<1> HIDE DEF list, shown
<1> QED  BY <1>2, <1>3, <1>4, IdleListStep

LEMMA MoveStep ==
    ASSUME IInv, Idle, NEW i \in DOMAIN draft.rules, NEW j \in DOMAIN draft.rules,
           Move(i, j)
    PROVE  IInv'
<1> DEFINE list == Seen
           shown == alignedMetadata(draft.rules)
<1>1. list \in Seq(SolidItem) /\ shown \in Seq(Called) /\ Len(shown) = Len(list)
      /\ i \in DOMAIN list /\ j \in DOMAIN list
  <2>1. "rules" \in {"rules", "sets"}  OBVIOUS
  <2>2. /\ Editor["rules"] \in Seq(SolidItem) /\ shown \in Seq(Called)
        /\ Len(shown) = Len(draft.rules)
    BY <2>1, ListsBehind DEF IInv, Idle
  <2>3. Editor.rules = Seen /\ DOMAIN Seen = DOMAIN draft.rules
        /\ Len(Seen) = Len(draft.rules)
    BY EditorTyped DEF IInv, Idle
  <2> QED  BY <2>2, <2>3
<1>2. SpendList /\ UNCHANGED dialog
      /\ ListSave("rules", moveItem(list, i, j), With("rules", moveItem(shown, i, j)))
  BY DEF Move
<1>3. i \in DOMAIN list /\ j \in DOMAIN list  BY <1>1
<1> HIDE DEF list, shown
<1>4. moveItem(list, i, j) \in Seq(SolidItem)
      /\ Len(moveItem(list, i, j)) = Len(list)
  BY <1>1, <1>3, MovedTyped
<1>5. i \in DOMAIN shown /\ j \in DOMAIN shown  BY <1>1, <1>3
<1>6. moveItem(shown, i, j) \in Seq(Called)
      /\ Len(moveItem(shown, i, j)) = Len(moveItem(list, i, j))
  BY <1>1, <1>4, <1>5, MovedTyped
<1> QED  BY <1>2, <1>4, <1>6, IdleListStep

\* The dialog writes at its index: inside the list, but for the proxies', whose
\* list may have shrunk and gets holes.
LEMMA SaveDialogStep ==
    ASSUME IInv, NEW id \in Id, NEW n \in DialogNames, SaveDialog(id, n)
    PROVE  IInv'
<1> DEFINE kind == dialog.kind
           index == dialog.index
           list == Editor[kind]
           shown == alignedMetadata(draft.rules)
           x == [id |-> id, name |-> n]
           next == replaceOrAppend(list, index, x)
           ns == IF page # "route" THEN <<>>
                 ELSE IF kind = "rules" THEN replaceOrAppend(shown, index, n)
                 ELSE shown
<1>1. /\ dialog # NULL /\ ListSave(kind, next, ns)
      /\ dialog' = NULL /\ UNCHANGED spent
  BY DEF SaveDialog
<1>2. /\ Open(dialog, draft) /\ draft # NULL
      /\ kind \in {"rules", "sets"} /\ index \in Nat
      /\ (page # "proxies" /\ index # 0) => index \in DOMAIN list
  <2>1. /\ Open(dialog, draft) /\ draft # NULL
        /\ kind \in {"rules", "sets"} /\ index \in Nat
        /\ (page # "proxies" /\ index # 0) => index \in DOMAIN draft[kind]
    BY <1>1, Constants DEF IInv, DialogInv, Open, Dialog
  <2>2. DOMAIN list = DOMAIN draft[kind]
    <3> HIDE DEF kind
    <3> QED  BY <2>1, ListsBehind DEF IInv
  <2> QED  BY <2>1, <2>2
<1>3. list \in Seq(SolidItem) /\ shown \in Seq(Called) /\ shown \in NameList
      /\ Len(shown) = Len(draft.rules) /\ <<>> \in NameList
      /\ Len(list) = Len(draft[kind])
  <2> HIDE DEF kind
  <2> QED  BY <1>2, ListsBehind DEF IInv
<1>4. x \in SolidItem /\ Hole \in SolidItem
  BY DEF DialogNames, SolidItem, FileItem, Called
<1> HIDE DEF x
<1>5. next \in Seq(SolidItem)
      /\ Len(next) = IF index = 0 THEN Len(list) + 1
                     ELSE IF index >= Len(list) THEN index ELSE Len(list)
  <2>1. list \in Seq(SolidItem) /\ index \in Nat  BY <1>2, <1>3
  <2> HIDE DEF list, index, kind, shown
  <2>2. /\ replaceOrAppend(list, index, x) \in Seq(SolidItem)
        /\ Len(replaceOrAppend(list, index, x)) =
             IF index = 0 THEN Len(list) + 1
             ELSE IF index >= Len(list) THEN index ELSE Len(list)
    BY <2>1, <1>4, ReplacedTyped
  <2> QED  BY <2>2
<1>6. ns \in NameList
  <2>1. CASE page = "route" /\ kind = "rules"
    <3>1. n \in Called  BY DEF DialogNames, Called
    <3>2. Len(shown) = Len(list) /\ index <= Len(shown)
      <4>1. Len(shown) = Len(list)  BY <1>3, <2>1
      <4>2. index # 0 => index \in DOMAIN list  BY <1>2, <2>1
      <4>3. Len(list) \in Nat /\ DOMAIN list = 1 .. Len(list)
        <5> HIDE DEF list
        <5> QED  BY <1>3
      <4>4. index <= Len(list)
        <5>1. CASE index = 0
          <6> HIDE DEF list, index
          <6> QED  BY <5>1, <4>3
        <5>2. CASE index # 0
          <6> HIDE DEF list, index
          <6> QED  BY <5>2, <4>2, <4>3
        <5> QED  BY <5>1, <5>2
      <4> QED  BY <4>1, <4>4
    <3>3. /\ replaceOrAppend(shown, index, n) \in Seq(Called)
          /\ Len(replaceOrAppend(shown, index, n)) = Len(next)
      <4>1. shown \in Seq(Called) /\ index \in Nat /\ index <= Len(shown)
        BY <1>2, <1>3, <3>2
      <4>3. \A S : \A s \in Seq(S), i \in Nat, y \in S : i <= Len(s) =>
              /\ replaceOrAppend(s, i, y) \in Seq(S)
              /\ Len(replaceOrAppend(s, i, y)) =
                   IF i = 0 THEN Len(s) + 1
                   ELSE IF i >= Len(s) THEN i ELSE Len(s)
        BY ReplacedTyped
      <4> HIDE DEF list, shown, index, next, ns, kind
      <4>2. /\ replaceOrAppend(shown, index, n) \in Seq(Called)
            /\ Len(replaceOrAppend(shown, index, n)) =
                 IF index = 0 THEN Len(shown) + 1
                 ELSE IF index >= Len(shown) THEN index ELSE Len(shown)
        BY <4>1, <3>1, <4>3
      <4> QED  BY <1>5, <3>2, <4>2
    <3>4. Len(next) <= MaxItems /\ Len(next) \in Nat
      <4>1. Len(next) <= MaxItems  BY <1>1 DEF ListSave
      <4> HIDE DEF next
      <4> QED  BY <1>5, <4>1
    <3>5. replaceOrAppend(shown, index, n) \in NameList
      <4> DEFINE m == replaceOrAppend(shown, index, n)
      <4> HIDE DEF m, next
      <4>1. m \in Seq(Called) /\ Len(m) <= MaxItems + 1
        BY <3>3, <3>4, Constants DEF m
      <4> QED  BY <4>1, TypesFit DEF m
    <3> QED  BY <2>1, <3>5
  <2>2. CASE ~(page = "route" /\ kind = "rules")
    <3> HIDE DEF shown, kind
    <3> QED  BY <1>3, <2>2
  <2> QED  BY <2>1, <2>2
<1>7. CountInv'
  <2>1. stray' \in BOOLEAN
    <3> HIDE DEF next, ns, kind
    <3> QED  BY <1>1, StrayBoolean DEF IInv
  <2> QED  BY <1>1, <2>1 DEF IInv, CountInv
<1> HIDE DEF next, ns, kind
<1> QED  BY <1>1, <1>2, <1>5, <1>6, <1>7, ListStep

\* The Save button submits the globals on the screen.
LEMMA SaveGlobalStep == ASSUME IInv, SaveGlobal PROVE IInv'
<1> DEFINE ns == IF page = "route" THEN nameDraft ELSE NULL
<1>1. /\ draft # NULL /\ page # "proxies" /\ SpendOther
      /\ Send("global", GlobalBody, ns)
      /\ stray' \in BOOLEAN
      /\ submitted' = submitted \cup {draft.globals}
      /\ UNCHANGED <<page, file, stored, cache, names, draft, nameDraft, dialog>>
  BY DEF SaveGlobal, Idle, server, client
<1>2. SectionsInv /\ RequestsInv /\ NamesInv /\ CountInv /\ DialogInv
  BY DEF IInv
<1>3. draft \in SectionOf(Global, SolidItem)  BY <1>1, <1>2 DEF SectionsInv, Drafted
<1>4. draft.globals \in Global  BY <1>3 DEF SectionOf
<1>5. Grows  BY <1>1, <1>2, <1>4 DEF Grows, SectionsInv
<1>6. /\ SectionOf(Saved, FileItem) \subseteq SectionOf(Saved', FileItem)
      /\ SectionOf(Saved, FileItem) \subseteq SectionOf(Saved', SolidItem)
      /\ SectionOf(Drafted, SolidItem) \subseteq SectionOf(Drafted', SolidItem)
      /\ Saved \subseteq Saved' /\ submitted' \subseteq Global
  BY <1>2, <1>5, GrowsTypes DEF Grows, SolidItem
<1>7. GlobalBody \in SectionOf(Saved', SolidItem)
  <2>1. draft.globals \in Saved'  BY <1>1, <1>4 DEF Saved
  <2>2. cache \in SectionOf(Saved', SolidItem)
    <3> HIDE DEF Saved
    <3> QED  BY <1>2, <1>6 DEF SectionsInv
  <2> HIDE DEF Saved
  <2>3. CASE page \in PolicyPages
    BY <2>1, <2>2, <2>3 DEF GlobalBody, SectionOf
  <2>4. CASE page \notin PolicyPages
    BY <1>3, <2>1, <2>4 DEF GlobalBody, SectionOf
  <2> QED  BY <2>3, <2>4
<1>8. RequestsInv'
  <2>1. ns \in NameList \cup {NULL}  BY <1>2 DEF NamesInv
  <2> HIDE DEF Saved, ns
  <2> QED  BY <1>1, <1>2, <1>6, <1>7, <2>1, SendTyped DEF RequestsInv
<1>9. SectionsInv'
  <2> HIDE DEF Saved, Drafted
  <2> QED  BY <1>1, <1>2, <1>6 DEF SectionsInv
<1>10. NamesInv'  BY <1>1, <1>2 DEF NamesInv
<1>11. CountInv'  BY <1>1, <1>2, SpentTyped DEF CountInv
<1>12. DialogInv'  BY <1>1, <1>2 DEF DialogInv, Open
<1> QED  BY <1>8, <1>9, <1>10, <1>11, <1>12 DEF IInv

LEMMA InstallStep == ASSUME IInv, Install PROVE IInv'
<1> DEFINE r == [kind |-> "install", body |-> cache, names |-> NULL,
                 here |-> TRUE, latest |-> TRUE, skips |-> FALSE, stage |-> "sent"]
<1>1. /\ SpendOther /\ Len(requests) < MaxRequests
      /\ requests' = Append(requests, r) /\ stray' \in BOOLEAN
      /\ UNCHANGED <<page, file, stored, cache, names, draft, nameDraft, dialog,
                     submitted>>
  BY DEF Install, server, client, Crossed, IInv, CountInv
<1>2. SectionsInv /\ RequestsInv /\ NamesInv /\ CountInv /\ DialogInv
  BY DEF IInv
<1>3. Saved' = Saved /\ Drafted' = Drafted  BY <1>1 DEF Saved, Drafted
<1>4. r \in RequestOf(Saved)
  <2> DEFINE B == SectionOf(Saved, SolidItem)
  <2>1. cache \in B
    <3>1. FileItem \subseteq SolidItem /\ Saved \subseteq Saved  BY DEF SolidItem
    <3>2. SectionOf(Saved, FileItem) \subseteq B
      <4> HIDE DEF Saved
      <4> QED  BY <3>1, Larger
    <3> HIDE DEF Saved
    <3> QED  BY <1>2, <3>2 DEF SectionsInv
  <2> HIDE DEF Saved, B
  <2> QED  BY <2>1 DEF RequestOf, B
<1> HIDE DEF r
<1>5. RequestsInv'
  <2> HIDE DEF Saved
  <2>1. requests \in Seq(RequestOf(Saved)) /\ Len(requests) < MaxRequests
    BY <1>1, <1>2 DEF RequestsInv
  <2>2. Append(requests, r) \in Seq(RequestOf(Saved))
        /\ Len(Append(requests, r)) <= MaxRequests
    BY <1>4, <2>1, AppendRequest
  <2> QED  BY <1>1, <1>3, <2>2 DEF RequestsInv
<1>6. SectionsInv'
  <2> HIDE DEF Saved, Drafted
  <2> QED  BY <1>1, <1>2, <1>3 DEF SectionsInv
<1>7. NamesInv'  BY <1>1, <1>2 DEF NamesInv
<1>8. CountInv'  BY <1>1, <1>2, SpentTyped DEF CountInv
<1>9. DialogInv'  BY <1>1, <1>2 DEF DialogInv, Open
<1> QED  BY <1>5, <1>6, <1>7, <1>8, <1>9 DEF IInv

-----------------------------------------------------------------------------
(* The daemon's answers. *)

\* A request goes to its next stage, or is done with.
LEMMA RequestMoves ==
    ASSUME RequestsInv, NEW k \in DOMAIN requests
    PROVE  /\ requests[k] \in RequestOf(Saved)
           /\ \A stage \in Answered \cup {"sent", "second", "naming", "named",
                                        "unnamed", "listing"} :
                (stage \in {"naming", "named", "unnamed"} =>
                   requests[k].names # NULL)
                => /\ At(k, stage) \in Seq(RequestOf(Saved))
                   /\ Len(At(k, stage)) <= MaxRequests
           /\ Drop(k) \in Seq(RequestOf(Saved)) /\ Len(Drop(k)) <= MaxRequests
<1> DEFINE R == RequestOf(Saved)
           n == Len(requests)
           r == requests[k]
<1>1. requests \in Seq(R) /\ n \in Nat /\ n <= MaxRequests
      /\ DOMAIN requests = 1 .. n
  BY DEF RequestsInv
<1>2. r \in R  BY <1>1, ElementOfSeq
<1>3. ASSUME NEW stage \in Answered \cup {"sent", "second", "naming", "named",
                                      "unnamed", "listing"},
             stage \in {"naming", "named", "unnamed"} => r.names # NULL
      PROVE  At(k, stage) \in Seq(R) /\ Len(At(k, stage)) <= MaxRequests
  <2> DEFINE e == [r EXCEPT !.stage = stage]
  <2>1. e \in R
    <3> DEFINE B == SectionOf(Saved, SolidItem)
    <3>1. R =
      {q \in [kind : {"rules", "global", "install"},
              body : B, names : NameList \cup {NULL},
              here : BOOLEAN, latest : BOOLEAN, skips : BOOLEAN,
              stage : Answered \cup {"sent", "second", "naming", "named",
                                     "unnamed", "listing"}] :
         q.stage \in {"naming", "named", "unnamed"} => q.names # NULL}
      BY DEF RequestOf
    <3> HIDE DEF B, R, r
    <3> QED  BY <1>2, <1>3, <3>1
  <2>2. At(k, stage) = [requests EXCEPT ![k] = e]  BY DEF At
  <2> HIDE DEF e, R
  <2>3. [requests EXCEPT ![k] = e] \in Seq(R)
        /\ Len([requests EXCEPT ![k] = e]) = n
    BY <1>1, <2>1, ExceptSeq
  <2> QED  BY <1>1, <2>2, <2>3
<1>4. Drop(k) \in Seq(R) /\ Len(Drop(k)) <= MaxRequests
  <2> HIDE DEF R
  <2>1. RemoveAt(requests, k) \in Seq(R) /\ Len(RemoveAt(requests, k)) = n - 1
    BY <1>1, RemoveTyped
  <2> QED  BY <1>1, <2>1, Constants DEF Drop
<1> QED  BY <1>2, <1>3, <1>4

\* What a request makes of the file has no holes and saved globals.
LEMMA AppliedTyped ==
    ASSUME SectionsInv, NEW r \in RequestOf(Saved),
           Hole \notin ToSet(r.body.rules)
    PROVE  Applied(r) \in SectionOf(Saved, FileItem)
<1> DEFINE B == SectionOf(Saved, SolidItem)
<1>1. r.body \in B
  <2> HIDE DEF B
  <2> QED  BY DEF RequestOf, B
<1>2. CASE r.kind # "install"
  <2> DEFINE l == r.body.rules
  <2>1. l \in Seq(SolidItem) /\ Fits(l) /\ Hole \notin ToSet(l)
    <3>1. l \in ListOf(SolidItem)
      <4> HIDE DEF Saved
      <4> QED  BY <1>1 DEF SectionOf
    <3> QED  BY <3>1 DEF ListOf
  <2>2. \A i \in 1 .. Len(l) : l[i] \in FileItem
    <3> HIDE DEF l
    <3> TAKE i \in 1 .. Len(l)
    <3>1. l[i] \in SolidItem /\ i \in DOMAIN l  BY <2>1, ElementOfSeq
    <3>2. l[i] \in ToSet(l)  BY <3>1 DEF ToSet
    <3> QED  BY <2>1, <3>1, <3>2 DEF SolidItem
  <2>3. l \in ListOf(FileItem)
    <3> HIDE DEF l
    <3>1. l \in [1 .. Len(l) -> FileItem] /\ Len(l) \in Nat  BY <2>1, <2>2
    <3>2. l \in Seq(FileItem)  BY <3>1
    <3> QED  BY <2>1, <3>2 DEF ListOf
  <2>4. r.body \in SectionOf(Saved, FileItem)
    <3> HIDE DEF Saved
    <3> QED  BY <1>1, <2>3 DEF SectionOf
  <2> QED  BY <1>2, <2>4 DEF Applied
<1>3. CASE r.kind = "install"
  <2> DEFINE named == IF page = "route" THEN DefaultName ELSE NoName
             sets == IF page = "proxies" \/ r.stage = "second" THEN file.sets
                     ELSE Installed(file.sets, NoName)
             rules == IF page = "route" /\ r.stage = "sent" THEN file.rules
                      ELSE Installed(file.rules, named)
  <2>1. Applied(r) = [[file EXCEPT !.sets = sets] EXCEPT !.rules = rules]
    <3>1. file = [globals |-> file.globals, sets |-> file.sets,
                  rules |-> file.rules]
      <4> HIDE DEF Saved
      <4> QED  BY DEF SectionsInv, SectionOf
    <3> QED  BY <1>3, <3>1 DEF Applied
  <2>2. file.sets \in ListOf(SolidItem) /\ file.rules \in ListOf(FileItem)
        /\ file \in SectionOf(Saved, FileItem)
    <3> HIDE DEF Saved
    <3> QED  BY DEF SectionsInv, SectionOf
  <2>3. sets \in ListOf(SolidItem) /\ rules \in ListOf(FileItem)
    <3>1. named \in Called /\ NoName \in Called /\ FileItem \subseteq SolidItem
      BY DEF Called, SolidItem
    <3> HIDE DEF named
    <3>2. Installed(file.sets, NoName) \in ListOf(SolidItem)
      BY <2>2, <3>1, InstalledTyped
    <3>3. Installed(file.rules, named) \in ListOf(FileItem)
      BY <2>2, <3>1, InstalledTyped
    <3> QED  BY <2>2, <3>2, <3>3
  <2> HIDE DEF sets, rules, Saved
  <2> QED  BY <2>1, <2>2, <2>3 DEF SectionOf
<1> QED  BY <1>2, <1>3

\* The daemon saves a section, or an installation adds to the file.
LEMMA ServeStep ==
    ASSUME IInv, NEW k \in DOMAIN requests, NEW outcome \in Outcome,
           Serve(k, outcome)
    PROVE  IInv'
<1> DEFINE r == requests[k]
           stage == CASE outcome = "ok" /\ (/\ r.kind = "install"
                                           /\ page = "route"
                                           /\ r.stage = "sent") -> "second"
                      [] outcome = "lost" -> "error"
                      [] OTHER -> outcome
<1>1. /\ SpendFault(outcome # "ok")
      /\ Hole \in ToSet(r.body.rules) => outcome \notin {"ok", "lost"}
      /\ file' = IF outcome \in {"ok", "lost"} THEN Applied(r) ELSE file
      /\ \/ stored' = stored
         \/ /\ outcome \in {"ok", "lost"}
            /\ stored' = ApplyDefaultNames(stored, IdsOf(Applied(r).rules))
      /\ requests' = At(k, stage) /\ stray' \in BOOLEAN
      /\ UNCHANGED <<page, cache, names, draft, nameDraft, dialog, submitted>>
  BY DEF Serve, client, IInv, CountInv
<1>2. SectionsInv /\ RequestsInv /\ NamesInv /\ CountInv /\ DialogInv
  BY DEF IInv
<1>3. r \in RequestOf(Saved)
      /\ At(k, stage) \in Seq(RequestOf(Saved)) /\ Len(At(k, stage)) <= MaxRequests
  <2>1. stage \in {"second", "error", "ok", "rolled_back"}
    BY DEF Outcome, Answered
  <2> HIDE DEF stage, Saved
  <2>2. stage \in Answered \cup {"sent", "second", "naming", "named", "unnamed",
                                 "listing"}
        /\ stage \notin {"naming", "named", "unnamed"}
    BY <2>1 DEF Answered
  <2> QED  BY <1>2, <2>2, RequestMoves
<1>4. outcome \in {"ok", "lost"} => Applied(r) \in SectionOf(Saved, FileItem)
  <2> HIDE DEF r, Saved
  <2> QED  BY <1>1, <1>2, <1>3, AppliedTyped
<1> HIDE DEF r, stage
<1>5. Saved' = Saved /\ Drafted' = Drafted  BY <1>1 DEF Saved, Drafted
<1>6. SectionsInv'
  <2> HIDE DEF Saved, Drafted
  <2> QED  BY <1>1, <1>2, <1>4, <1>5 DEF SectionsInv
<1>7. RequestsInv'
  <2> HIDE DEF Saved
  <2> QED  BY <1>1, <1>3, <1>5 DEF RequestsInv
<1>8. NamesInv'
  <2>1. stored' \in Seq(Entry)
    <3>1. CASE stored' = stored  BY <1>2, <3>1 DEF NamesInv
    <3>2. CASE /\ outcome \in {"ok", "lost"}
               /\ stored' = ApplyDefaultNames(stored, IdsOf(Applied(r).rules))
      <4>1. IdsOf(Applied(r).rules) \in Seq(Id \cup {DefaultRule})
        <5> HIDE DEF Saved
        <5> QED  BY <1>4, <3>2, FileIds
      <4> QED  BY <1>2, <3>2, <4>1, DefaultNamesTyped DEF NamesInv
    <3> QED  BY <1>1, <3>1, <3>2
  <2> QED  BY <1>1, <1>2, <2>1 DEF NamesInv
<1>9. CountInv'
  <2>1. (outcome # "ok") \in BOOLEAN  OBVIOUS
  <2> QED  BY <1>1, <1>2, <2>1, SpentTyped DEF CountInv
<1>10. DialogInv'  BY <1>1, <1>2 DEF DialogInv, Open
<1> QED  BY <1>6, <1>7, <1>8, <1>9, <1>10 DEF IInv

\* An answer refreshes the cache, or leaves cache, draft and dialog alone.
LEMMA AnsweredStep ==
    ASSUME IInv, Refresh \/ UNCHANGED <<cache, draft, dialog, stray>>,
           UNCHANGED <<page, server, names, nameDraft, spent, submitted>>,
           requests' \in Seq(RequestOf(Saved)), Len(requests') <= MaxRequests
    PROVE  IInv'
<1>1. SectionsInv /\ RequestsInv /\ NamesInv /\ CountInv /\ DialogInv
  BY DEF IInv
<1>2. Saved' = Saved /\ Drafted' = Drafted /\ file' = file /\ stored' = stored
  BY DEF Saved, Drafted, server
<1>3. SectionsInv' /\ DialogInv' /\ stray' \in BOOLEAN
  <2>1. CASE Refresh
    BY <1>2, <2>1, RefreshStep
  <2>2. CASE UNCHANGED <<cache, draft, dialog, stray>>
    <3>1. SectionsInv'
      <4> HIDE DEF Saved, Drafted
      <4> QED  BY <1>1, <1>2, <2>2 DEF SectionsInv
    <3>2. DialogInv' /\ stray' \in BOOLEAN
      BY <1>1, <2>2 DEF DialogInv, Open, CountInv
    <3> QED  BY <3>1, <3>2
  <2> QED  BY <2>1, <2>2
<1>4. RequestsInv'
  <2> HIDE DEF Saved
  <2> QED  BY <1>2 DEF RequestsInv
<1>5. NamesInv' /\ CountInv'  BY <1>1, <1>2, <1>3 DEF NamesInv, CountInv
<1> QED  BY <1>3, <1>4, <1>5 DEF IInv

LEMMA AnswerStep ==
    ASSUME IInv, NEW k \in DOMAIN requests, Answer(k) PROVE IInv'
<1>1. /\ Refresh \/ UNCHANGED <<cache, draft, dialog, stray>>
      /\ \/ requests[k].names # NULL /\ requests' = At(k, "naming")
         \/ requests' = Drop(k)
      /\ UNCHANGED <<page, server, names, nameDraft, spent, submitted>>
  BY DEF Answer
<1>2. requests' \in Seq(RequestOf(Saved)) /\ Len(requests') <= MaxRequests
  <2> HIDE DEF Saved
  <2> QED  BY <1>1, RequestMoves DEF IInv
<1> QED  BY <1>1, <1>2, AnsweredStep

LEMMA AnswerInstallStep ==
    ASSUME IInv, NEW k \in DOMAIN requests, AnswerInstall(k) PROVE IInv'
<1>1. /\ Refresh \/ UNCHANGED <<cache, draft, dialog, stray>>
      /\ requests' = At(k, "listing") \/ requests' = Drop(k)
      /\ UNCHANGED <<page, server, names, nameDraft, spent, submitted>>
  BY DEF AnswerInstall
<1>2. requests' \in Seq(RequestOf(Saved)) /\ Len(requests') <= MaxRequests
  <2> HIDE DEF Saved
  <2> QED  BY <1>1, RequestMoves DEF IInv
<1> QED  BY <1>1, <1>2, AnsweredStep

\* A step that touches only requests and names.
LEMMA NamingStep ==
    ASSUME IInv, NamesInv', CountInv',
           requests' \in Seq(RequestOf(Saved)), Len(requests') <= MaxRequests,
           UNCHANGED <<page, file, cache, draft, dialog, submitted>>
    PROVE  IInv'
<1>1. SectionsInv /\ DialogInv  BY DEF IInv
<1>2. Saved' = Saved /\ Drafted' = Drafted  BY DEF Saved, Drafted
<1>3. SectionsInv' /\ RequestsInv'
  <2> HIDE DEF Saved, Drafted
  <2> QED  BY <1>1, <1>2 DEF SectionsInv, RequestsInv
<1>4. DialogInv'  BY <1>1 DEF DialogInv, Open
<1> QED  BY <1>3, <1>4 DEF IInv

\* UpdateRouteRuleMetadata writes names for the rules of the file, one each.
LEMMA ServeNamesStep ==
    ASSUME IInv, NEW k \in DOMAIN requests, NEW works \in BOOLEAN,
           ServeNames(k, works)
    PROVE  IInv'
<1> DEFINE r == requests[k]
           ids == IdsOf(file.rules)
<1>1. /\ r.stage = "naming" /\ SpendFault(~works)
      /\ \/ Accepts(ids, r.names) /\ stored' = Save(ids, r.names)
         \/ stored' = stored
      /\ requests' = At(k, "named") \/ requests' = At(k, "unnamed")
      /\ stray' \in BOOLEAN
      /\ UNCHANGED <<page, file, cache, names, draft, nameDraft, dialog, submitted>>
  BY DEF ServeNames, client, IInv, CountInv
<1>2. SectionsInv /\ RequestsInv /\ NamesInv /\ CountInv
  BY DEF IInv
<1>3. r \in RequestOf(Saved)
  <2> HIDE DEF Saved
  <2> QED  BY <1>2, RequestMoves
<1>4. r.names # NULL /\ r.names \in NameList
  BY <1>1, <1>3 DEF RequestOf
<1>5. requests' \in Seq(RequestOf(Saved)) /\ Len(requests') <= MaxRequests
  <2> HIDE DEF Saved
  <2> QED  BY <1>1, <1>2, <1>4, RequestMoves
<1>6. stored' \in Seq(Entry)
  <2>1. ids \in Seq(Id \cup {DefaultRule})
    <3> HIDE DEF Saved
    <3> QED  BY <1>2, FileIds DEF SectionsInv
  <2> HIDE DEF ids, r
  <2>2. CASE stored' = stored  BY <1>2, <2>2 DEF NamesInv
  <2>3. CASE Accepts(ids, r.names) /\ stored' = Save(ids, r.names)
    BY <1>4, <2>1, <2>3, TypesFit, SaveTyped DEF Accepts
  <2> QED  BY <1>1, <2>2, <2>3
<1>7. NamesInv'  BY <1>1, <1>2, <1>6 DEF NamesInv
<1>8. CountInv'  BY <1>1, <1>2, SpentTyped DEF CountInv
<1> QED  BY <1>1, <1>5, <1>7, <1>8, NamingStep

LEMMA AnswerNamesStep ==
    ASSUME IInv, NEW k \in DOMAIN requests, AnswerNames(k) PROVE IInv'
<1> DEFINE r == requests[k]
<1>1. /\ r.stage \in {"named", "unnamed"} /\ requests' = Drop(k)
      /\ \/ names' = r.names /\ nameDraft' \in {NULL, nameDraft}
         \/ names' = names /\ nameDraft' = nameDraft
      /\ UNCHANGED <<page, file, stored, cache, draft, dialog, spent, stray,
                     submitted>>
  BY DEF AnswerNames, server
<1>2. RequestsInv /\ NamesInv /\ CountInv  BY DEF IInv
<1>3. /\ r \in RequestOf(Saved)
      /\ requests' \in Seq(RequestOf(Saved)) /\ Len(requests') <= MaxRequests
  <2> HIDE DEF Saved
  <2> QED  BY <1>1, <1>2, RequestMoves
<1>4. r.names \in NameList  BY <1>1, <1>3 DEF RequestOf
<1>5. NamesInv'  BY <1>1, <1>2, <1>4 DEF NamesInv
<1>6. CountInv'  BY <1>1, <1>2 DEF CountInv
<1> QED  BY <1>1, <1>3, <1>5, <1>6, NamingStep

LEMMA RefreshMetadataStep ==
    ASSUME IInv, NEW k \in DOMAIN requests, NEW works \in BOOLEAN,
           refreshMetadata(k, works)
    PROVE  IInv'
<1>1. /\ names' \in {Listed, names} /\ nameDraft' \in {NULL, nameDraft}
      /\ requests' = Drop(k) /\ SpendFault(~works) /\ stray' \in BOOLEAN
      /\ UNCHANGED <<page, file, stored, cache, draft, dialog, submitted>>
  BY DEF refreshMetadata, server, IInv, CountInv
<1>2. SectionsInv /\ RequestsInv /\ NamesInv /\ CountInv  BY DEF IInv
<1>3. requests' \in Seq(RequestOf(Saved)) /\ Len(requests') <= MaxRequests
  <2> HIDE DEF Saved
  <2> QED  BY <1>1, <1>2, RequestMoves
<1>4. NamesInv'  BY <1>1, <1>2, ListedTyped DEF NamesInv
<1>5. CountInv'  BY <1>1, <1>2, SpentTyped DEF CountInv
<1> QED  BY <1>1, <1>3, <1>4, <1>5, NamingStep

-----------------------------------------------------------------------------
(* Every step. *)

\* The buttons of an idle editor.
LEMMA ButtonsStep == ASSUME IInv, draft # NULL, Operation PROVE IInv'
<1> DEFINE K == {"rules", "sets"}
<1>1. ASSUME NEW kind \in Lists, Edit(kind, 0) PROVE IInv'
  <2>1. kind \in K /\ page \in PolicyPages \cup {"proxies", "endpoints"}
    <3>1. page \in PolicyPages \cup {"proxies", "endpoints", "experimental", "raw"}
      BY PagesAssumption DEF IInv, SectionsInv
    <3> QED  BY <1>1, <3>1 DEF Lists
  <2> QED  BY <1>1, <2>1, EditStep
<1>2. ASSUME NEW kind \in K, NEW i \in DOMAIN draft[kind],
             page \in PolicyPages \cup {"proxies", "endpoints"},
             Edit(kind, i) \/ Copy(kind, i) \/ Delete(kind, i)
      PROVE  IInv'
  <2>1. CASE Edit(kind, i)  BY <1>2, <2>1, EditStep
  <2>2. CASE Copy(kind, i)  BY <1>2, <2>2, CopyStep DEF Copy
  <2>3. CASE Delete(kind, i)  BY <1>2, <2>3, DeleteStep DEF Delete
  <2> QED  BY <1>2, <2>1, <2>2, <2>3
<1>3. ASSUME NEW i \in DOMAIN draft.rules, RuleButtons(i) \/ ItemButtons(i)
      PROVE  IInv'
  <2>1. "rules" \in K /\ i \in DOMAIN draft["rules"]  OBVIOUS
  <2>2. page \in PolicyPages \cup {"proxies", "endpoints"}
    BY <1>3 DEF RuleButtons, ItemButtons
  <2>3. CASE Edit("rules", i) \/ Copy("rules", i) \/ Delete("rules", i)
    BY <1>2, <2>1, <2>2, <2>3
  <2>4. DOMAIN draft.rules = 1 .. Len(draft.rules) /\ Len(draft.rules) \in Nat
    <3>1. draft["rules"] \in Seq(SolidItem)
      BY <2>1, ListsBehind DEF IInv
    <3> QED  BY <3>1
  <2>5. CASE i > 1 /\ Move(i, i - 1)
    <3>1. i - 1 \in DOMAIN draft.rules  BY <2>4, <2>5
    <3> QED  BY <2>5, <3>1, MoveStep DEF Move
  <2>6. CASE i < Len(draft.rules) /\ Move(i, i + 1)
    <3>1. i + 1 \in DOMAIN draft.rules  BY <2>4, <2>6
    <3> QED  BY <2>6, <3>1, MoveStep DEF Move
  <2> QED  BY <1>3, <2>3, <2>5, <2>6 DEF RuleButtons, ItemButtons
<1>4. ASSUME NEW i \in DOMAIN draft.sets, SetButtons(i) PROVE IInv'
  <2>1. "sets" \in K /\ i \in DOMAIN draft["sets"]  OBVIOUS
  <2> QED  BY <1>2, <1>4, <2>1 DEF SetButtons
<1>5. ASSUME NEW g \in Global, EditGlobals(g) PROVE IInv'
  BY <1>5, EditGlobalsStep
<1> QED
  BY <1>1, <1>3, <1>4, <1>5, SaveGlobalStep, InstallStep DEF Operation

LEMMA UserStep == ASSUME IInv, User PROVE IInv'
<1>1. CASE draft # NULL /\ Operation  BY <1>1, ButtonsStep
<1>2. ASSUME NEW ready \in BOOLEAN, Input(ready) \/ InputJSON(ready)
      PROVE  IInv'
  BY <1>2, InputStep, InputJSONStep
<1>3. CASE Cancel
  <2>1. Becomes(NULL)  BY <1>3 DEF Cancel
  <2>2. NULL # NULL => Open(NULL, draft)  OBVIOUS
  <2> QED  BY <2>1, <2>2, DialogStep
<1>4. ASSUME NEW id \in Id, NEW n \in DialogNames, SaveDialog(id, n) PROVE IInv'
  BY <1>4, SaveDialogStep
<1>5. ASSUME NEW s \in Rewrites(IF draft = NULL THEN cache ELSE draft) \cup {NULL},
             EditJSON(s)
      PROVE  IInv'
  BY <1>5, EditJSONStep
<1> QED
  BY <1>1, <1>2, <1>3, <1>4, <1>5, ResetStep, ReopenStep DEF User

LEMMA DaemonStep == ASSUME IInv, Daemon PROVE IInv'
<1> SUFFICES ASSUME NEW k \in DOMAIN requests,
                    \/ \E outcome \in Outcome : Serve(k, outcome)
                    \/ Answer(k)
                    \/ \E works \in BOOLEAN :
                         ServeNames(k, works) \/ refreshMetadata(k, works)
                    \/ AnswerNames(k)
                    \/ AnswerInstall(k)
             PROVE  IInv'
  BY DEF Daemon
<1> QED
  BY ServeStep, AnswerStep, ServeNamesStep, AnswerNamesStep, AnswerInstallStep,
     RefreshMetadataStep

LEMMA NextIInv == IInv /\ [Next]_vars => IInv'
<1> SUFFICES ASSUME IInv, [Next]_vars PROVE IInv'  OBVIOUS
<1>1. CASE User  BY <1>1, UserStep
<1>2. CASE Daemon  BY <1>2, DaemonStep
<1>3. CASE \E s \in Rewrites(file) : ForeignWrite(s)  BY <1>3, ForeignStep
<1>4. CASE UNCHANGED vars
  <2> USE <1>4 DEF vars, server, client
  <2>1. SectionsInv'  BY DEF IInv, SectionsInv, Saved, Drafted
  <2>2. RequestsInv'  BY DEF IInv, RequestsInv, Saved
  <2>3. NamesInv' /\ CountInv'  BY DEF IInv, NamesInv, CountInv
  <2>4. DialogInv'  BY DEF IInv, DialogInv, Open
  <2> QED  BY <2>1, <2>2, <2>3, <2>4 DEF IInv
<1> QED
  BY <1>1, <1>2, <1>3, <1>4, RefetchStep, RefetchNamesStep DEF Next

-----------------------------------------------------------------------------
(* The names that are stored, and the names beside the rules. *)

\* A position at which an entry stands counts it once more.
LEMMA TimesGrow ==
    ASSUME NEW s, NEW j \in Nat, NEW i \in Nat, j < i
    PROVE  Times(s, j, s[i]) < Times(s, i, s[i])
<1> DEFINE A == {k \in 1 .. j : s[k] = s[i]}
           B == {k \in 1 .. i : s[k] = s[i]}
<1>1. IsFiniteSet(B)
  <2>1. IsFiniteSet(1 .. i)  BY FS_Interval
  <2>2. B \in SUBSET (1 .. i)  OBVIOUS
  <2> QED  BY <2>1, <2>2, FS_Subset
<1>2. A \in SUBSET B /\ i \in B /\ i \notin A  OBVIOUS
<1> HIDE DEF A, B
<1>3. /\ IsFiniteSet(A) /\ Cardinality(A) <= Cardinality(B)
      /\ Cardinality(A) # Cardinality(B)
  BY <1>1, <1>2, FS_Subset
<1>4. Cardinality(A) \in Nat /\ Cardinality(B) \in Nat
  BY <1>1, <1>3, FS_CardinalityType
<1> QED  BY <1>3, <1>4 DEF Times, A, B

\* A list of rules with others after them.
Prolongs(more, ids) ==
    /\ Len(ids) <= Len(more)
    /\ \A i \in 1 .. Len(ids) : more[i] = ids[i]
    /\ \A i \in 1 .. Len(more), j \in 1 .. Len(ids) :
         i > Len(ids) => more[i] # ids[j]

\* GetRouteRuleMetadata of what UpdateRouteRuleMetadata has saved: each rule
\* has its own name, also of equal rules, and a rule that has been added since
\* at the end has none.
LEMMA ListReads ==
    ASSUME NEW T, NEW ids \in Seq(T), NEW more \in Seq(T), NEW ns,
           Prolongs(more, ids)
    PROVE  List(Save(ids, ns), more) =
             [i \in 1 .. Len(more) |-> IF i <= Len(ids) THEN ns[i] ELSE NoName]
<1> USE DEF Prolongs
<1> DEFINE n == Len(ids)
           st == Save(ids, ns)
           fps == [j \in DOMAIN st |-> st[j].fp]
           taken == UNION {Matching(st, more, i) : i \in DOMAIN more}
           At_(i) == IF i \in DOMAIN st \ taken THEN {i} ELSE {}
           From(i) == IF Matching(st, more, i) # {} THEN Matching(st, more, i)
                      ELSE At_(i)
<1>1. /\ n \in Nat /\ Len(more) \in Nat /\ DOMAIN ids = 1 .. n
      /\ DOMAIN more = 1 .. Len(more)
  OBVIOUS
<1>2. st = [i \in 1 .. n |-> [fp |-> ids[i], name |-> ns[i]]]
  BY <1>1 DEF Save
<1> HIDE DEF n, st
<1>3. DOMAIN st = 1 .. n /\ \A j \in 1 .. n : st[j].fp = ids[j] /\ st[j].name = ns[j]
  BY <1>2
<1>4. fps = [j \in 1 .. n |-> ids[j]]  BY <1>3
<1>5. \A i : Matching(st, more, i) =
        {j \in 1 .. n : /\ fps[j] = more[i]
                        /\ Times(fps, j, more[i]) = Times(more, i, more[i])}
  BY <1>3 DEF Matching
<1> HIDE DEF fps
<1>6. ASSUME NEW i \in 1 .. n PROVE Matching(st, more, i) = {i}
  <2>1. \A j \in 1 .. n : fps[j] = more[j]  BY <1>4 DEF n
  <2>2. \A j \in 1 .. n : Times(fps, j, more[i]) = Times(more, j, more[i])
    <3> TAKE j \in 1 .. n
    <3>1. \A k \in 1 .. j : k \in 1 .. n  BY <1>1
    <3>2. {k \in 1 .. j : fps[k] = more[i]} = {k \in 1 .. j : more[k] = more[i]}
      BY <2>1, <3>1
    <3> QED  BY <3>2 DEF Times
  <2>3. ASSUME NEW j \in 1 .. n, fps[j] = more[i],
               Times(fps, j, more[i]) = Times(more, i, more[i])
        PROVE  j = i
    <3>1. Times(more, j, more[i]) = Times(more, i, more[i]) /\ more[j] = more[i]
      BY <2>1, <2>2, <2>3
    <3>2. j \in Nat /\ i \in Nat  BY <1>1
    <3>3. ~(j < i) /\ ~(i < j)
      <4>1. j < i => Times(more, j, more[i]) < Times(more, i, more[i])
        BY <3>2, TimesGrow
      <4>2. i < j => Times(more, i, more[j]) < Times(more, j, more[j])
        BY <3>2, TimesGrow
      <4>3. i < j => Times(more, i, more[i]) < Times(more, j, more[i])
        BY <3>1, <4>2
      <4>4. \A k \in Nat : Times(more, k, more[i]) \in Nat
        <5> TAKE k \in Nat
        <5>1. IsFiniteSet(1 .. k)  BY FS_Interval
        <5>2. {l \in 1 .. k : more[l] = more[i]} \in SUBSET (1 .. k)  OBVIOUS
        <5>3. IsFiniteSet({l \in 1 .. k : more[l] = more[i]})
          BY <5>1, <5>2, FS_Subset
        <5> QED  BY <5>3, FS_CardinalityType DEF Times
      <4>5. Times(more, i, more[i]) \in Nat /\ Times(more, j, more[i]) \in Nat
        BY <3>2, <4>4
      <4> QED  BY <3>1, <4>1, <4>3, <4>5
    <3> QED  BY <3>2, <3>3
  <2> QED  BY <1>5, <2>1, <2>2, <2>3
<1>7. ASSUME NEW i \in 1 .. Len(more), i > n PROVE Matching(st, more, i) = {}
  <2>1. \A j \in 1 .. n : fps[j] # more[i]  BY <1>4, <1>7 DEF n
  <2> QED  BY <1>5, <2>1
<1>8. \A i \in 1 .. n : i \in taken
  <2> TAKE i \in 1 .. n
  <2>1. i \in DOMAIN more  BY <1>1 DEF n
  <2> QED  BY <1>6, <2>1
<1> HIDE DEF taken
<1>9. \A i \in 1 .. Len(more) : From(i) = IF i <= n THEN {i} ELSE {}
  <2> TAKE i \in 1 .. Len(more)
  <2>1. CASE i <= n
    <3>1. i \in 1 .. n  BY <1>1, <2>1
    <3>2. Matching(st, more, i) = {i}  BY <1>6, <3>1
    <3> HIDE DEF At_
    <3> QED  BY <2>1, <3>2
  <2>2. CASE i > n
    <3>1. i \notin DOMAIN st  BY <1>1, <1>3, <2>2
    <3> QED  BY <1>1, <1>7, <2>2, <3>1
  <2> QED  BY <1>1, <2>1, <2>2
<1>10. List(st, more) = [i \in 1 .. Len(more) |->
         IF From(i) = {} THEN NoName ELSE st[CHOOSE j \in From(i) : TRUE].name]
  BY <1>1 DEF List, taken
<1> HIDE DEF From
<1>11. \A i \in 1 .. Len(more) :
         (IF From(i) = {} THEN NoName ELSE st[CHOOSE j \in From(i) : TRUE].name)
           = IF i <= n THEN ns[i] ELSE NoName
  <2> TAKE i \in 1 .. Len(more)
  <2>1. CASE i <= n
    <3>1. From(i) = {i} /\ i \in 1 .. n  BY <1>1, <1>9, <2>1
    <3>2. (CHOOSE j \in From(i) : TRUE) = i  BY <3>1
    <3> QED  BY <1>3, <2>1, <3>1, <3>2
  <2>2. CASE ~(i <= n)  BY <1>9, <2>2
  <2> QED  BY <2>1, <2>2
<1> QED  BY <1>10, <1>11 DEF n, st

\* What the lists are after an operation, entry by entry.
LEMMA RemoveReads ==
    ASSUME NEW S, NEW s \in Seq(S), NEW i \in DOMAIN s
    PROVE  \A k \in 1 .. Len(s) - 1 :
             RemoveAt(s, i)[k] = IF k < i THEN s[k] ELSE s[k + 1]
<1> DEFINE left == SubSeq(s, 1, i - 1)
           right == SubSeq(s, i + 1, Len(s))
<1>1. i \in 1 .. Len(s) /\ Len(s) \in Nat  OBVIOUS
<1>2. /\ left \in Seq(S) /\ Len(left) = i - 1
      /\ \A k \in 1 .. i - 1 : left[k] = s[k]
      /\ right \in Seq(S) /\ Len(right) = Len(s) - i
      /\ \A k \in 1 .. Len(s) - i : right[k] = s[i + k]
  <2>1. /\ left \in Seq(S)
        /\ Len(left) = IF 1 <= i - 1 THEN (i - 1) - 1 + 1 ELSE 0
        /\ \A k \in 1 .. (i - 1) - 1 + 1 : left[k] = s[1 + k - 1]
    BY <1>1, SubSeqProperties
  <2>2. /\ right \in Seq(S)
        /\ Len(right) = IF i + 1 <= Len(s) THEN Len(s) - (i + 1) + 1 ELSE 0
        /\ \A k \in 1 .. Len(s) - (i + 1) + 1 : right[k] = s[i + 1 + k - 1]
    BY <1>1, SubSeqProperties
  <2> HIDE DEF left, right
  <2>3. Len(left) = i - 1 /\ Len(right) = Len(s) - i
    BY <1>1, <2>1, <2>2
  <2>4. \A k \in 1 .. i - 1 : left[k] = s[k]
    <3> TAKE k \in 1 .. i - 1
    <3>1. k \in 1 .. (i - 1) - 1 + 1 /\ 1 + k - 1 = k  BY <1>1
    <3> QED  BY <2>1, <3>1
  <2>5. \A k \in 1 .. Len(s) - i : right[k] = s[i + k]
    <3> TAKE k \in 1 .. Len(s) - i
    <3>1. k \in 1 .. Len(s) - (i + 1) + 1 /\ i + 1 + k - 1 = i + k  BY <1>1
    <3> QED  BY <2>2, <3>1
  <2> QED  BY <2>1, <2>2, <2>3, <2>4, <2>5
<1>3. RemoveAt(s, i) = left \o right  BY DEF RemoveAt
<1> HIDE DEF left, right
<1>4. \A k \in 1 .. Len(left) + Len(right) : (left \o right)[k] =
        IF k <= Len(left) THEN left[k] ELSE right[k - Len(left)]
  BY <1>2, ConcatProperties
<1> TAKE k \in 1 .. Len(s) - 1
<1>5. k \in 1 .. Len(left) + Len(right)  BY <1>1, <1>2
<1>6. CASE k < i
  <2>1. k <= Len(left) /\ k \in 1 .. i - 1  BY <1>1, <1>2, <1>6
  <2> QED  BY <1>2, <1>3, <1>4, <1>5, <1>6, <2>1
<1>7. CASE ~(k < i)
  <2>1. ~(k <= Len(left)) /\ k - Len(left) \in 1 .. Len(s) - i
        /\ i + (k - Len(left)) = k + 1
    BY <1>1, <1>2, <1>7
  <2>2. right[k - Len(left)] = s[i + (k - Len(left))]  BY <1>2, <2>1
  <2>3. right[k - Len(left)] = s[k + 1]  BY <2>1, <2>2
  <2>4. (left \o right)[k] = right[k - Len(left)]  BY <1>4, <1>5, <2>1
  <2> QED  BY <1>3, <1>7, <2>3, <2>4
<1>8. k < i \/ ~(k < i)  OBVIOUS
<1> QED  BY <1>6, <1>7, <1>8

LEMMA CopiedReads ==
    ASSUME NEW S, NEW s \in Seq(S), NEW i \in DOMAIN s
    PROVE  \A k \in 1 .. Len(s) + 1 :
             Copied(s, i)[k] = IF k <= i THEN s[k] ELSE s[k - 1]
<1> DEFINE left == SubSeq(s, 1, (i + 1) - 1)
           right == SubSeq(s, i + 1, Len(s))
           mid == <<s[i]>>
<1>1. i \in 1 .. Len(s) /\ Len(s) \in Nat /\ s[i] \in S  OBVIOUS
<1>2. /\ left \in Seq(S) /\ Len(left) = i
      /\ \A k \in 1 .. i : left[k] = s[k]
      /\ right \in Seq(S) /\ Len(right) = Len(s) - i
      /\ \A k \in 1 .. Len(s) - i : right[k] = s[i + k]
  <2>1. /\ left \in Seq(S)
        /\ Len(left) = IF 1 <= (i + 1) - 1 THEN ((i + 1) - 1) - 1 + 1 ELSE 0
        /\ \A k \in 1 .. ((i + 1) - 1) - 1 + 1 : left[k] = s[1 + k - 1]
    BY <1>1, SubSeqProperties
  <2>2. /\ right \in Seq(S)
        /\ Len(right) = IF i + 1 <= Len(s) THEN Len(s) - (i + 1) + 1 ELSE 0
        /\ \A k \in 1 .. Len(s) - (i + 1) + 1 : right[k] = s[i + 1 + k - 1]
    BY <1>1, SubSeqProperties
  <2> HIDE DEF left, right
  <2>3. Len(left) = i /\ Len(right) = Len(s) - i
    BY <1>1, <2>1, <2>2
  <2>4. \A k \in 1 .. i : left[k] = s[k]
    <3> TAKE k \in 1 .. i
    <3>1. k \in 1 .. ((i + 1) - 1) - 1 + 1 /\ 1 + k - 1 = k  BY <1>1
    <3> QED  BY <2>1, <3>1
  <2>5. \A k \in 1 .. Len(s) - i : right[k] = s[i + k]
    <3> TAKE k \in 1 .. Len(s) - i
    <3>1. k \in 1 .. Len(s) - (i + 1) + 1 /\ i + 1 + k - 1 = i + k  BY <1>1
    <3> QED  BY <2>2, <3>1
  <2> QED  BY <2>1, <2>2, <2>3, <2>4, <2>5
<1>3. mid \in Seq(S) /\ Len(mid) = 1 /\ mid[1] = s[i]  BY <1>1
<1>4. Copied(s, i) = left \o mid \o right  BY DEF Copied, InsertAt
<1> HIDE DEF left, right, mid
<1> DEFINE front == left \o mid
<1>5. front \in Seq(S) /\ Len(front) = i + 1
      /\ \A k \in 1 .. i + 1 : front[k] = IF k <= i THEN s[k] ELSE s[i]
  <2>1. /\ front \in Seq(S) /\ Len(front) = Len(left) + Len(mid)
        /\ \A k \in 1 .. Len(left) + Len(mid) : front[k] =
             IF k <= Len(left) THEN left[k] ELSE mid[k - Len(left)]
    BY <1>2, <1>3, ConcatProperties
  <2> HIDE DEF front
  <2>2. \A k \in 1 .. i + 1 : front[k] = IF k <= i THEN s[k] ELSE s[i]
    <3> TAKE k \in 1 .. i + 1
    <3>1. CASE k <= i
      <4>1. k \in 1 .. i  BY <1>1, <3>1
      <4> QED  BY <1>2, <1>3, <2>1, <3>1, <4>1
    <3>2. CASE ~(k <= i)
      <4>1. k = i + 1 /\ k - i = 1  BY <1>1, <3>2
      <4> QED  BY <1>2, <1>3, <2>1, <3>2, <4>1
    <3> QED  BY <3>1, <3>2
  <2> QED  BY <1>1, <1>2, <1>3, <2>1, <2>2
<1>6. Copied(s, i) = front \o right  BY <1>4
<1> HIDE DEF front
<1>7. \A k \in 1 .. Len(front) + Len(right) : (front \o right)[k] =
        IF k <= Len(front) THEN front[k] ELSE right[k - Len(front)]
  BY <1>2, <1>5, ConcatProperties
<1> TAKE k \in 1 .. Len(s) + 1
<1>8. k \in 1 .. Len(front) + Len(right)  BY <1>1, <1>2, <1>5
<1>9. CASE k <= i + 1
  <2>1. k \in 1 .. i + 1 /\ (~(k <= i) => k - 1 = i)  BY <1>1, <1>9
  <2> QED  BY <1>5, <1>6, <1>7, <1>8, <1>9, <2>1
<1>10. CASE ~(k <= i + 1)
  <2> DEFINE l == k - (i + 1)
  <2>1. l \in 1 .. Len(s) - i /\ i + l = k - 1 /\ ~(k <= i)
    <3> DEFINE n == Len(s)
    <3>1. n \in Nat /\ k \in 1 .. n + 1 /\ i \in 1 .. n /\ k > i + 1
      BY <1>1, <1>10
    <3> HIDE DEF n
    <3>2. l \in 1 .. n - i /\ i + l = k - 1 /\ ~(k <= i)  BY <3>1
    <3> QED  BY <3>2 DEF n
  <2>2. k - Len(front) = l  BY <1>5
  <2> HIDE DEF l
  <2>3. right[l] = s[k - 1]
    <3>1. right[l] = s[i + l]  BY <1>2, <2>1
    <3> QED  BY <2>1, <3>1
  <2>4. (front \o right)[k] = right[l]  BY <1>5, <1>7, <1>8, <1>10, <2>2
  <2> QED  BY <1>6, <2>1, <2>3, <2>4
<1> QED  BY <1>9, <1>10

\* The names go along: an operation on the rules and the same one on their
\* names, as RuleSection.updateBoth does them.
LEMMA NamesGoAlong ==
    ASSUME NEW s \in Seq([id : Id \cup {DefaultRule, Blank}, name : Called]),
           NEW i \in DOMAIN s
    PROVE  /\ NamesOf(Copied(s, i)) = Copied(NamesOf(s), i)
           /\ NamesOf(RemoveAt(s, i)) = RemoveAt(NamesOf(s), i)
           /\ \A j \in DOMAIN s :
                NamesOf(moveItem(s, i, j)) = moveItem(NamesOf(s), i, j)
<1> DEFINE T == Id \cup {DefaultRule, Blank}
           N == Called
<1> HIDE DEF T, N
<1>0. s \in Seq([id : T, name : N])  BY DEF T, N
<1> DEFINE I == [id : T, name : N]
           ns == NamesOf(s)
           n == Len(s)
<1>1. n \in Nat /\ DOMAIN s = 1 .. n /\ i \in 1 .. n  OBVIOUS
<1>2. /\ ns \in Seq(N) /\ Len(ns) = n /\ DOMAIN ns = 1 .. n
      /\ \A k \in 1 .. n : ns[k] = s[k].name
  <2>1. ns \in Seq(N) /\ Len(ns) = n  BY <1>0, ReadTyped
  <2>2. \A k \in 1 .. n : ns[k] = s[k].name  BY <1>1 DEF NamesOf
  <2> HIDE DEF ns
  <2> QED  BY <1>1, <2>1, <2>2
<1>3. s \in Seq(I)  BY <1>0
<1> HIDE DEF n, ns, I
<1>4. ASSUME NEW l \in Seq(I), NEW m \in Seq(N), Len(l) = Len(m),
             \A k \in 1 .. Len(l) : m[k] = l[k].name
      PROVE  NamesOf(l) = m
  <2>1. NamesOf(l) = [k \in 1 .. Len(l) |-> l[k].name]  BY DEF NamesOf
  <2>2. m = [k \in 1 .. Len(l) |-> m[k]]  BY <1>4
  <2> QED  BY <1>4, <2>1, <2>2
<1>5. NamesOf(Copied(s, i)) = Copied(ns, i)
  <2> DEFINE l == Copied(s, i)
             m == Copied(ns, i)
  <2>1. l \in Seq(I) /\ Len(l) = n + 1 /\ m \in Seq(N) /\ Len(m) = n + 1
    BY <1>1, <1>2, <1>3, CopiedTyped DEF n
  <2>2. /\ \A k \in 1 .. n + 1 : l[k] = IF k <= i THEN s[k] ELSE s[k - 1]
        /\ \A k \in 1 .. n + 1 : m[k] = IF k <= i THEN ns[k] ELSE ns[k - 1]
    BY <1>1, <1>2, <1>3, CopiedReads DEF n
  <2> HIDE DEF l, m
  <2>3. \A k \in 1 .. n + 1 : m[k] = l[k].name
    <3> TAKE k \in 1 .. n + 1
    <3>1. CASE k <= i
      <4>1. k \in 1 .. n  BY <1>1, <3>1
      <4> QED  BY <1>2, <2>2, <3>1, <4>1
    <3>2. CASE ~(k <= i)
      <4>1. k - 1 \in 1 .. n  BY <1>1, <3>2
      <4> QED  BY <1>2, <2>2, <3>2, <4>1
    <3> QED  BY <3>1, <3>2
  <2>4. NamesOf(l) = m  BY <1>4, <2>1, <2>3
  <2> QED  BY <2>4 DEF l, m
<1>6. NamesOf(RemoveAt(s, i)) = RemoveAt(ns, i)
  <2> DEFINE l == RemoveAt(s, i)
             m == RemoveAt(ns, i)
  <2>1. l \in Seq(I) /\ Len(l) = n - 1 /\ m \in Seq(N) /\ Len(m) = n - 1
    BY <1>1, <1>2, <1>3, RemoveTyped DEF n
  <2>2. /\ \A k \in 1 .. n - 1 : l[k] = IF k < i THEN s[k] ELSE s[k + 1]
        /\ \A k \in 1 .. n - 1 : m[k] = IF k < i THEN ns[k] ELSE ns[k + 1]
    BY <1>1, <1>2, <1>3, RemoveReads DEF n
  <2> HIDE DEF l, m
  <2>3. \A k \in 1 .. n - 1 : m[k] = l[k].name
    <3> TAKE k \in 1 .. n - 1
    <3>1. k \in 1 .. n /\ k + 1 \in 1 .. n  BY <1>1
    <3> QED  BY <1>2, <2>2, <3>1
  <2>4. NamesOf(l) = m  BY <1>4, <2>1, <2>3
  <2> QED  BY <2>4 DEF l, m
<1>7. ASSUME NEW j \in DOMAIN s
      PROVE  NamesOf(moveItem(s, i, j)) = moveItem(ns, i, j)
  <2> j \in 1 .. n  BY <1>1, <1>7
  <2> DEFINE l == moveItem(s, i, j)
             m == moveItem(ns, i, j)
  <2>1. l \in Seq(I) /\ Len(l) = n /\ m \in Seq(N) /\ Len(m) = n
    <3>1. s \in Seq(I) /\ i \in DOMAIN s /\ j \in DOMAIN s  BY <1>1, <1>3, <1>7
    <3>2. ns \in Seq(N) /\ i \in DOMAIN ns /\ j \in DOMAIN ns  BY <1>1, <1>2, <1>7
    <3>3. l \in Seq(I) /\ Len(l) = Len(s)  BY <3>1, MovedTyped
    <3>4. m \in Seq(N) /\ Len(m) = Len(ns)  BY <3>2, MovedTyped
    <3> QED  BY <1>2, <3>3, <3>4 DEF n
  <2>2. \A k \in 1 .. n : m[k] = l[k].name
    <3>1. i \in 1 .. n /\ j \in 1 .. n  BY <1>1
    <3>2. \A k \in 1 .. n : l[k] = IF k = j THEN s[i] ELSE IF k = i THEN s[j] ELSE s[k]
      BY <1>1, <1>3, <3>1 DEF moveItem
    <3>3. \A k \in 1 .. n : m[k] = IF k = j THEN ns[i] ELSE IF k = i THEN ns[j]
                                   ELSE ns[k]
      BY <1>2, <3>1 DEF moveItem
    <3> HIDE DEF l, m
    <3> QED  BY <1>2, <3>1, <3>2, <3>3
  <2> HIDE DEF l, m
  <2>3. NamesOf(l) = m  BY <1>4, <2>1, <2>2
  <2> QED  BY <2>3 DEF l, m
<1> QED  BY <1>5, <1>6, <1>7 DEF ns

LEMMA NamesReplaced ==
    ASSUME NEW T, NEW N, NEW s \in Seq([id : T, name : N]), NEW x \in T, NEW y \in N,
           NEW i \in Nat, i = 0 \/ i \in DOMAIN s
    PROVE  NamesOf(replaceOrAppend(s, i, [id |-> x, name |-> y]))
             = replaceOrAppend(NamesOf(s), i, y)
<1> DEFINE I == [id : T, name : N]
           ns == NamesOf(s)
           e == [id |-> x, name |-> y]
           n == Len(s)
<1>1. n \in Nat /\ DOMAIN s = 1 .. n /\ s \in Seq(I)
  OBVIOUS
<1>2. /\ ns \in Seq(N) /\ Len(ns) = n /\ DOMAIN ns = 1 .. n
      /\ \A k \in 1 .. n : ns[k] = s[k].name
  <2>1. ns \in Seq(N) /\ Len(ns) = n  BY ReadTyped
  <2>2. \A k \in 1 .. n : ns[k] = s[k].name  BY <1>1 DEF NamesOf
  <2> HIDE DEF ns
  <2> QED  BY <1>1, <2>1, <2>2
<1>3. e \in I /\ e.name = y  OBVIOUS
<1> HIDE DEF ns, n, e, I
<1>4. CASE i = 0
  <2> DEFINE l == Append(s, e)
             m == Append(ns, y)
  <2>1. l \in Seq(I) /\ Len(l) = n + 1
        /\ \A k \in 1 .. n + 1 : l[k] = IF k = n + 1 THEN e ELSE s[k]
    BY <1>1, <1>3 DEF n
  <2>2. m \in Seq(N) /\ Len(m) = n + 1
        /\ \A k \in 1 .. n + 1 : m[k] = IF k = n + 1 THEN y ELSE ns[k]
    BY <1>1, <1>2
  <2> HIDE DEF l, m
  <2>3. NamesOf(l) = [k \in 1 .. n + 1 |-> l[k].name]  BY <1>1, <2>1 DEF NamesOf
  <2>4. \A k \in 1 .. n + 1 : l[k].name = m[k]
    <3> TAKE k \in 1 .. n + 1
    <3>1. CASE k = n + 1  BY <1>3, <2>1, <2>2, <3>1
    <3>2. CASE k # n + 1
      <4>1. k \in 1 .. n  BY <1>1, <3>2
      <4> QED  BY <1>2, <2>1, <2>2, <3>2, <4>1
    <3> QED  BY <3>1, <3>2
  <2>5. m = [k \in 1 .. n + 1 |-> m[k]]  BY <1>1, <2>2
  <2>6. NamesOf(l) = m  BY <2>3, <2>4, <2>5
  <2> QED  BY <1>4, <2>6 DEF replaceOrAppend, l, m, ns, e
<1>5. CASE i # 0
  <2>1. Max({i, n}) = n /\ i \in 1 .. n
    <3>1. i \in 1 .. n  BY <1>1, <1>5 DEF n
    <3> QED  BY <1>1, <3>1, LargerOfTwo
  <2>2. replaceOrAppend(s, i, e) =
          [k \in 1 .. n |-> IF k = i THEN e ELSE IF k <= n THEN s[k] ELSE Hole]
    BY <1>5, <2>1 DEF replaceOrAppend, n
  <2>3. replaceOrAppend(ns, i, y) =
          [k \in 1 .. n |-> IF k = i THEN y ELSE IF k <= n THEN ns[k] ELSE Hole]
    BY <1>2, <1>5, <2>1 DEF replaceOrAppend
  <2> DEFINE l == replaceOrAppend(s, i, e)
             m == replaceOrAppend(ns, i, y)
  <2> HIDE DEF l, m
  <2>4. NamesOf(l) = [k \in 1 .. n |-> l[k].name]  BY <2>2 DEF NamesOf, l
  <2>5. \A k \in 1 .. n : l[k].name = IF k = i THEN y ELSE IF k <= n THEN ns[k] ELSE Hole
    BY <1>1, <1>2, <1>3, <2>2 DEF l
  <2>6. NamesOf(l) = m  BY <2>3, <2>4, <2>5 DEF m
  <2> QED  BY <2>6 DEF l, m, ns, e
<1> QED  BY <1>4, <1>5

-----------------------------------------------------------------------------
(* The names and the rules.  Outside the cases in stray the route page is  *)
(* in one of three situations.  Level: the file, the cache, the draft and  *)
(* what is in flight have the same rules, and the names everywhere are     *)
(* theirs.  Moved: operations on the rules are on their way; each takes    *)
(* its names along, and until the last of these is written the file's      *)
(* names may be behind.  Installing: the defaults are being installed.     *)
(*                                                                         *)
(* f and c are the sections of the file and of the cache, st the stored    *)
(* entries, d the draft's rules, m the names beside them, q the requests.  *)

Metadata == IF nameDraft # NULL THEN nameDraft ELSE names

NamingStages == {"naming", "named", "unnamed"}

\* A save that takes the names of its rules along.
Bearing(r) == r.kind = "rules" /\ r.names # <<>>

\* A save that reaches the daemon after another one which has not been
\* answered: that it fails is one of the cases in stray.
Skipping(r) == r.stage = "sent" /\ r.skips

\* The last request is the one whose callbacks will run.
Waiting(q) == Len(q) > 0 /\ q[Len(q)].latest

Exact(f, st) == st = Save(IdsOf(f.rules), NamesOf(f.rules))

\* Saves reach the daemon in their order.
Ordered(q) ==
    /\ \A j, k \in 1 .. Len(q) :
         j < k /\ q[j].stage = "sent" => Skipping(q[k])
    /\ \A k \in 1 .. Len(q) :
         /\ q[k].kind \in {"rules", "global"}
         /\ q[k].stage \notin {"second", "listing"}
         /\ q[k].kind = "rules" => q[k].names # NULL
         /\ q[k].latest => k = Len(q)
         /\ k = Len(q) /\ q[k].stage = "sent" => q[k].latest
         /\ q[k].stage \in {"rolled_back", "error"} => ~q[k].skips
         /\ q[k].stage \in NamingStages => q[k].names \notin {NULL, <<>>}

\* The cache has the file, or an answer that will bring it is under way.
Current(f, c, q) ==
    \/ c = f
    \/ /\ Waiting(q)
       /\ \E k \in 1 .. Len(q) : /\ q[k].stage = "ok"
                                 /\ \A j \in k + 1 .. Len(q) : Skipping(q[j])

Level(f, st, c, d, m, q) ==
    /\ c.rules = f.rules /\ IdsOf(d) = IdsOf(f.rules)
    /\ m = NamesOf(f.rules) /\ Exact(f, st)
    /\ \A k \in 1 .. Len(q) : /\ q[k].body.rules = f.rules
                              /\ q[k].names \in {NULL, <<>>, NamesOf(f.rules)}

\* Whatever names the request i writes, others that belong to the rules of
\* the file are to be written after it.
Repaired(f, q, i) ==
    \/ \E k \in 1 .. Len(q) : /\ k > i /\ q[k].stage = "naming"
                              /\ q[k].body.rules = f.rules
    \/ Waiting(q) /\ Len(q) > i /\ (q[Len(q)].stage = "ok" \/ Skipping(q[Len(q)]))

\* The names on the screen are those of the draft's rules, or of the cache's
\* that have the same JSON.
Beside(c, d, m) == m = NamesOf(d) \/ (m = NamesOf(c.rules) /\ IdsOf(d) = IdsOf(c.rules))

Unanswered(q) == Waiting(q) /\ q[Len(q)].stage \notin NamingStages

Screen(c, d, m, q) ==
    IF Unanswered(q)
      THEN LET r == q[Len(q)]
           IN  /\ m = NamesOf(r.body.rules)
               /\ d = r.body.rules \/ (r.skips /\ IdsOf(d) = IdsOf(c.rules))
      ELSE Beside(c, d, m)

Moved(f, st, c, d, m, q) ==
    /\ \A k \in 1 .. Len(q) :
         /\ q[k].latest \/ q[k].stage \in NamingStages => Bearing(q[k])
         /\ Bearing(q[k]) => q[k].names = NamesOf(q[k].body.rules)
         /\ ~Bearing(q[k]) /\ q[k].stage = "sent" =>
              \A j \in 1 .. k : q[j].stage = "sent" => q[j].body.rules = f.rules
         /\ q[k].stage = "naming" =>
              q[k].body.rules = f.rules \/ Repaired(f, q, k)
    /\ Waiting(q) /\ q[Len(q)].stage = "ok" => q[Len(q)].body.rules = f.rules
    /\ Exact(f, st) \/ Repaired(f, q, 0)
    /\ Screen(c, d, m, q)

Installing(f, st, c, d, m, q) ==
    /\ Len(q) = 1 /\ q[1].kind = "install" /\ q[1].here /\ ~q[1].skips
    /\ q[1].stage \in Answered \cup {"sent", "second", "listing"}
    /\ IdsOf(d) = IdsOf(c.rules) /\ Exact(f, st)
    /\ q[1].stage \in {"sent", "rolled_back", "error", "listing"} => c = f
    /\ q[1].stage = "second" => c.rules = f.rules
    /\ q[1].stage \notin {"ok", "listing"} => m = NamesOf(f.rules)

\* edited: there are edited names.
Together(f, st, c, d, m, edited, q) ==
    \/ Installing(f, st, c, d, m, q)
    \/ /\ Ordered(q) /\ Current(f, c, q)
       /\ Level(f, st, c, d, m, q) \/ (edited /\ Moved(f, st, c, d, m, q))

Follows ==
    /\ draft # NULL
    /\ Together(file, stored, cache, draft.rules, Metadata, nameDraft # NULL,
                requests)

FollowInv == (page = "route" /\ ~stray) => Follows

-----------------------------------------------------------------------------
(* What a step does to the requests. *)

\* What a step does to the requests: one gets another stage, one leaves, or
\* one is sent.
Restaged(q, p, k, stage) ==
    /\ Len(p) = Len(q)
    /\ \A j \in 1 .. Len(q) :
         /\ p[j].kind = q[j].kind /\ p[j].body = q[j].body
         /\ p[j].names = q[j].names /\ p[j].here = q[j].here
         /\ p[j].latest = q[j].latest /\ p[j].skips = q[j].skips
         /\ p[j].stage = IF j = k THEN stage ELSE q[j].stage

Dropped(q, p, k) ==
    /\ Len(p) = Len(q) - 1
    /\ \A j \in 1 .. Len(p) : p[j] = IF j < k THEN q[j] ELSE q[j + 1]

Added(q, p) ==
    /\ Len(p) = Len(q) + 1
    /\ \A j \in 1 .. Len(q) :
         /\ p[j].kind = q[j].kind /\ p[j].body = q[j].body
         /\ p[j].names = q[j].names /\ p[j].skips = q[j].skips
         /\ p[j].stage = q[j].stage /\ ~p[j].latest
    /\ LET r == p[Len(p)]
       IN  /\ r.kind \in {"rules", "global"} /\ r.stage = "sent" /\ r.latest
           /\ r.kind = "rules" => r.names # NULL
           /\ r.skips <=> \E j \in 1 .. Len(q) : Pending(q[j])

\* A save that is sent comes last, and skips what the cache waits for.
LEMMA SentInOrder ==
    ASSUME NEW f, NEW c, NEW q, NEW p, Len(q) \in Nat, Added(q, p),
           Ordered(q), Current(f, c, q)
    PROVE  /\ Ordered(p) /\ Current(f, c, p) /\ Unanswered(p)
           /\ \A i \in 0 .. Len(q) : Repaired(f, q, i) => Repaired(f, p, i)
<1> DEFINE n == Len(q)
           r == p[n + 1]
<1>1. /\ n \in Nat /\ Len(p) = n + 1
      /\ r.kind \in {"rules", "global"} /\ r.stage = "sent" /\ r.latest
      /\ r.kind = "rules" => r.names # NULL
      /\ r.skips <=> \E j \in 1 .. n : Pending(q[j])
  BY DEF Added
<1>2. \A j \in 1 .. n :
         /\ p[j].kind = q[j].kind /\ p[j].body = q[j].body
         /\ p[j].names = q[j].names /\ p[j].skips = q[j].skips
         /\ p[j].stage = q[j].stage /\ ~p[j].latest
  BY DEF Added
<1> HIDE DEF n
<1>3. ASSUME NEW j \in 1 .. n, q[j].stage = "sent" PROVE Skipping(r)
  <2>1. q[n].stage = "sent"
    <3>1. CASE j = n  BY <1>3, <3>1
    <3>2. CASE j # n
      <4>1. j < n /\ n \in 1 .. n  BY <1>1, <3>2
      <4> QED  BY <1>3, <4>1 DEF Ordered, n, Skipping
    <3> QED  BY <3>1, <3>2
  <2>2. n \in 1 .. n  BY <1>1
  <2>3. q[n].latest  BY <2>1, <2>2 DEF Ordered, n
  <2>4. Pending(q[n])  BY <2>1, <2>3 DEF Pending
  <2> QED  BY <1>1, <2>2, <2>4 DEF Skipping
<1>4. Waiting(q) /\ (q[n].stage = "ok" \/ q[n].stage = "sent") => Skipping(r)
  <2> SUFFICES ASSUME Waiting(q), q[n].stage = "ok" \/ q[n].stage = "sent"
               PROVE  Skipping(r)
    OBVIOUS
  <2>1. n \in 1 .. n /\ q[n].latest  BY <1>1 DEF Waiting, n
  <2>2. Pending(q[n])  BY <2>1 DEF Pending, Answered
  <2> QED  BY <1>1, <2>1, <2>2 DEF Skipping
<1>5. Ordered(p)
  <2>1. ASSUME NEW j \in 1 .. n + 1, NEW k \in 1 .. n + 1, j < k,
               p[j].stage = "sent"
        PROVE  Skipping(p[k])
    <3>1. j \in 1 .. n  BY <1>1, <2>1
    <3>2. q[j].stage = "sent"  BY <1>2, <2>1, <3>1
    <3>3. CASE k = n + 1  BY <1>3, <3>1, <3>2, <3>3
    <3>4. CASE k # n + 1
      <4>1. k \in 1 .. n  BY <1>1, <3>4
      <4>2. Skipping(q[k])  BY <2>1, <3>1, <3>2, <4>1 DEF Ordered, n
      <4> QED  BY <1>2, <4>1, <4>2 DEF Skipping
    <3> QED  BY <3>3, <3>4
  <2>2. ASSUME NEW k \in 1 .. n + 1
        PROVE  /\ p[k].kind \in {"rules", "global"}
               /\ p[k].stage \notin {"second", "listing"}
               /\ p[k].kind = "rules" => p[k].names # NULL
               /\ p[k].latest => k = n + 1
               /\ k = n + 1 /\ p[k].stage = "sent" => p[k].latest
               /\ p[k].stage \in {"rolled_back", "error"} => ~p[k].skips
               /\ p[k].stage \in NamingStages => p[k].names \notin {NULL, <<>>}
    <3>1. CASE k = n + 1  BY <1>1, <3>1 DEF NamingStages
    <3>2. CASE k # n + 1
      <4>1. k \in 1 .. n  BY <1>1, <3>2
      <4> QED  BY <1>2, <3>2, <4>1 DEF Ordered, n
    <3> QED  BY <3>1, <3>2
  <2> QED  BY <1>1, <2>1, <2>2 DEF Ordered
<1>6. Unanswered(p)
  BY <1>1 DEF Unanswered, Waiting, NamingStages
<1>7. Current(f, c, p)
  <2>1. CASE c = f  BY <2>1 DEF Current
  <2>2. CASE c # f
    <3>1. Waiting(q)  BY <2>2 DEF Current
    <3>2. PICK k \in 1 .. n : /\ q[k].stage = "ok"
                              /\ \A j \in k + 1 .. n : Skipping(q[j])
      BY <2>2 DEF Current, n
    <3>3. q[n].stage = "ok" \/ q[n].stage = "sent"
      <4>1. CASE k = n  BY <3>2, <4>1
      <4>2. CASE k # n
        <5>1. n \in k + 1 .. n  BY <1>1, <4>2
        <5> QED  BY <3>2, <5>1 DEF Skipping
      <4> QED  BY <4>1, <4>2
    <3>4. Skipping(r)  BY <1>4, <3>1, <3>3
    <3>5. \A j \in k + 1 .. n + 1 : Skipping(p[j])
      <4> TAKE j \in k + 1 .. n + 1
      <4>1. CASE j = n + 1  BY <3>4, <4>1
      <4>2. CASE j # n + 1
        <5>1. j \in k + 1 .. n /\ j \in 1 .. n  BY <1>1, <4>2
        <5> QED  BY <1>2, <3>2, <5>1 DEF Skipping
      <4> QED  BY <4>1, <4>2
    <3>6. k \in 1 .. n + 1 /\ p[k].stage = "ok"  BY <1>1, <1>2, <3>2
    <3> QED  BY <1>1, <1>6, <3>5, <3>6 DEF Current, Unanswered
  <2> QED  BY <2>1, <2>2
<1>8. ASSUME NEW i \in 0 .. n, Repaired(f, q, i) PROVE Repaired(f, p, i)
  <2>1. CASE \E k \in 1 .. n : /\ k > i /\ q[k].stage = "naming"
                               /\ q[k].body.rules = f.rules
    <3>1. PICK k \in 1 .. n : /\ k > i /\ q[k].stage = "naming"
                              /\ q[k].body.rules = f.rules
      BY <2>1
    <3>2. k \in 1 .. n + 1 /\ p[k].stage = "naming" /\ p[k].body.rules = f.rules
      BY <1>1, <1>2, <3>1
    <3> QED  BY <1>1, <3>1, <3>2 DEF Repaired
  <2>2. CASE Waiting(q) /\ n > i /\ (q[n].stage = "ok" \/ Skipping(q[n]))
    <3>1. Skipping(r)  BY <1>4, <2>2 DEF Skipping
    <3>2. n + 1 > i  BY <1>1
    <3> QED  BY <1>1, <1>6, <3>1, <3>2 DEF Repaired, Unanswered
  <2> QED  BY <1>8, <2>1, <2>2 DEF Repaired, n
<1> QED  BY <1>5, <1>6, <1>7, <1>8 DEF n

\* A save of the rules of the file, with their names or with none.
LEMMA LevelSends ==
    ASSUME NEW f, NEW st, NEW c, NEW d, NEW m, NEW q, NEW p, NEW e,
           Len(q) \in Nat, Added(q, p), Level(f, st, c, d, m, q),
           IdsOf(e) = IdsOf(d), p[Len(p)].body.rules = f.rules,
           p[Len(p)].names \in {NULL, <<>>, NamesOf(f.rules)}
    PROVE  Level(f, st, c, e, m, p)
<1>1. ASSUME NEW k \in 1 .. Len(p)
      PROVE  /\ p[k].body.rules = f.rules
             /\ p[k].names \in {NULL, <<>>, NamesOf(f.rules)}
  <2>1. CASE k = Len(p)  BY <2>1
  <2>2. CASE k # Len(p)
    <3>1. k \in 1 .. Len(q)  BY <2>2 DEF Added
    <3> QED  BY <3>1 DEF Added, Level
  <2> QED  BY <2>1, <2>2
<1> QED  BY <1>1 DEF Level

\* A save of other rules that takes their names along.
LEMMA MovedSends ==
    ASSUME NEW f, NEW st, NEW c, NEW d, NEW m, NEW q, NEW p,
           Len(q) \in Nat, Added(q, p), Ordered(q), Current(f, c, q),
           Level(f, st, c, d, m, q) \/ Moved(f, st, c, d, m, q),
           \A k \in 1 .. Len(q) :
             q[k].kind = "global" => q[k].stage \notin NamingStages,
           Bearing(p[Len(p)]),
           p[Len(p)].names = NamesOf(p[Len(p)].body.rules)
    PROVE  Moved(f, st, c, p[Len(p)].body.rules, p[Len(p)].names, p)
<1> DEFINE n == Len(q)
           r == p[n + 1]
<1>1. /\ n \in Nat /\ Len(p) = n + 1 /\ r.stage = "sent" /\ r.latest
      /\ Bearing(r) /\ r.names = NamesOf(r.body.rules)
  BY DEF Added
<1>2. \A j \in 1 .. n :
         /\ p[j].kind = q[j].kind /\ p[j].body = q[j].body
         /\ p[j].names = q[j].names /\ p[j].skips = q[j].skips
         /\ p[j].stage = q[j].stage /\ ~p[j].latest
         /\ (Bearing(p[j]) <=> Bearing(q[j]))
  BY DEF Added, Bearing
<1>3. /\ Ordered(p) /\ Unanswered(p)
      /\ \A i \in 0 .. n : Repaired(f, q, i) => Repaired(f, p, i)
  BY SentInOrder
<1> HIDE DEF n
<1>4. ASSUME NEW k \in 1 .. n
      PROVE  /\ q[k].stage \in NamingStages => Bearing(q[k]) \/ q[k].kind # "rules"
             /\ Bearing(q[k]) => q[k].names = NamesOf(q[k].body.rules)
             /\ ~Bearing(q[k]) /\ q[k].stage = "sent" =>
                  \A j \in 1 .. k : q[j].stage = "sent" => q[j].body.rules = f.rules
             /\ q[k].stage = "naming" =>
                  q[k].body.rules = f.rules \/ Repaired(f, q, k)
  <2>1. CASE Moved(f, st, c, d, m, q)
    <3> HIDE DEF Bearing, Repaired
    <3> QED  BY <2>1 DEF Moved, n
  <2>2. CASE Level(f, st, c, d, m, q)
    <3>1. \A j \in 1 .. n : /\ q[j].body.rules = f.rules
                            /\ q[j].names \in {NULL, <<>>, NamesOf(f.rules)}
      BY <2>2 DEF Level, n
    <3>2. \A j \in 1 .. k : j \in 1 .. n  BY <1>1
    <3>3. /\ q[k].kind = "rules" => q[k].names # NULL
          /\ q[k].stage \in NamingStages => q[k].names \notin {NULL, <<>>}
      BY <1>4 DEF Ordered, n
    <3> HIDE DEF Repaired
    <3> QED  BY <3>1, <3>2, <3>3 DEF Bearing
  <2> QED  BY <2>1, <2>2
<1>5. ASSUME NEW k \in 1 .. n + 1
      PROVE  /\ p[k].latest \/ p[k].stage \in NamingStages => Bearing(p[k])
             /\ Bearing(p[k]) => p[k].names = NamesOf(p[k].body.rules)
             /\ ~Bearing(p[k]) /\ p[k].stage = "sent" =>
                  \A j \in 1 .. k : p[j].stage = "sent" => p[j].body.rules = f.rules
             /\ p[k].stage = "naming" =>
                  p[k].body.rules = f.rules \/ Repaired(f, p, k)
  <2>1. CASE k = n + 1
    <3>1. p[k].stage # "naming"  BY <1>1, <2>1
    <3> HIDE DEF Bearing, Repaired
    <3> QED  BY <1>1, <2>1, <3>1
  <2>2. CASE k # n + 1
    <3>1. k \in 1 .. n /\ k \in 0 .. n /\ \A j \in 1 .. k : j \in 1 .. n
      BY <1>1, <2>2
    <3>2. q[k].stage \in NamingStages => Bearing(q[k])
      <4>1. CASE Moved(f, st, c, d, m, q)
        <5> HIDE DEF Bearing
        <5> QED  BY <3>1, <4>1 DEF Moved, n
      <4>2. CASE Level(f, st, c, d, m, q)
        <5>1. q[k].kind # "global" \/ q[k].stage \notin NamingStages
          BY <3>1 DEF n
        <5>2. q[k].stage \in NamingStages => q[k].names \notin {NULL, <<>>}
          BY <3>1 DEF Ordered, n
        <5>3. q[k].kind \in {"rules", "global"}  BY <3>1 DEF Ordered, n
        <5> QED  BY <5>1, <5>2, <5>3 DEF Bearing
      <4> QED  BY <4>1, <4>2
    <3> HIDE DEF Bearing, Repaired
    <3> QED  BY <1>2, <1>3, <1>4, <3>1, <3>2
  <2> QED  BY <2>1, <2>2
<1>6. Exact(f, st) \/ Repaired(f, p, 0)
  <2>1. CASE Moved(f, st, c, d, m, q)
    <3>1. 0 \in 0 .. n  BY <1>1
    <3> QED  BY <1>3, <2>1, <3>1 DEF Moved
  <2>2. CASE Level(f, st, c, d, m, q)  BY <2>2 DEF Level
  <2> QED  BY <2>1, <2>2
<1>7. Screen(c, r.body.rules, r.names, p)
  BY <1>1, <1>3 DEF Screen
<1> HIDE DEF Bearing, Repaired, Screen
<1> QED  BY <1>1, <1>5, <1>6, <1>7 DEF Moved

\* A refetch brings the file into the cache, and into the draft when the
\* JSON has changed.
LEMMA CacheMoves ==
    ASSUME NEW f, NEW st, NEW c, NEW d, NEW m, NEW edited, NEW q, NEW e,
           Len(q) \in Nat, Together(f, st, c, d, m, edited, q),
           e = f.rules \/ (e = d /\ IdsOf(f.rules) = IdsOf(c.rules)),
           c = f => e = d
    PROVE  Together(f, st, f, e, m, edited, q)
<1>1. CASE Installing(f, st, c, d, m, q)
  <2>1. Installing(f, st, f, e, m, q)  BY <1>1 DEF Installing
  <2> QED  BY <2>1 DEF Together
<1>2. CASE /\ Ordered(q) /\ Current(f, c, q)
           /\ Level(f, st, c, d, m, q) \/ (edited /\ Moved(f, st, c, d, m, q))
  <2>1. Current(f, f, q)  BY DEF Current
  <2>2. CASE Level(f, st, c, d, m, q)
    <3>1. Level(f, st, f, e, m, q)  BY <2>2 DEF Level
    <3> QED  BY <1>2, <2>1, <3>1 DEF Together
  <2>3. CASE edited /\ Moved(f, st, c, d, m, q)
    <3>1. Screen(c, d, m, q)  BY <2>3 DEF Moved
    <3>2. Screen(f, e, m, q)
      <4>1. CASE c = f  BY <3>1, <4>1
      <4>2. CASE c # f
        <5>1. Waiting(q)  BY <1>2, <4>2 DEF Current
        <5>2. PICK k \in 1 .. Len(q) :
                /\ q[k].stage = "ok"
                /\ \A j \in k + 1 .. Len(q) : Skipping(q[j])
          BY <1>2, <4>2 DEF Current
        <5>3. q[Len(q)].stage = "ok" \/ Skipping(q[Len(q)])
          <6>1. CASE k = Len(q)  BY <5>2, <6>1
          <6>2. CASE k # Len(q)
            <7>1. Len(q) \in k + 1 .. Len(q)  BY <6>2
            <7> QED  BY <5>2, <7>1
          <6> QED  BY <6>1, <6>2
        <5>4. Unanswered(q)  BY <5>1, <5>3 DEF Unanswered, NamingStages, Skipping
        <5> DEFINE r == q[Len(q)]
        <5>5. /\ m = NamesOf(r.body.rules)
              /\ d = r.body.rules \/ (r.skips /\ IdsOf(d) = IdsOf(c.rules))
          BY <3>1, <5>4 DEF Screen
        <5>6. r.stage = "ok" => r.body.rules = f.rules
          BY <2>3, <5>1 DEF Moved
        <5>7. r.stage = "ok" \/ r.skips  BY <5>3 DEF Skipping
        <5> HIDE DEF r
        <5>8. e = r.body.rules \/ (r.skips /\ IdsOf(e) = IdsOf(f.rules))
          BY <5>5, <5>6, <5>7
        <5> QED  BY <5>4, <5>5, <5>8 DEF Screen, r
      <4> QED  BY <4>1, <4>2
    <3>3. Moved(f, st, f, e, m, q)
      <4> HIDE DEF Screen, Repaired, Bearing
      <4> QED  BY <2>3, <3>2 DEF Moved
    <3> QED  BY <1>2, <2>1, <2>3, <3>3 DEF Together
  <2> QED  BY <1>2, <2>2, <2>3
<1> QED  BY <1>1, <1>2 DEF Together

\* Rules with the same JSON and the same names are the same.
LEMMA SameRules ==
    ASSUME NEW T, NEW N, NEW a \in Seq([id : T, name : N]),
           NEW b \in Seq([id : T, name : N]),
           IdsOf(a) = IdsOf(b), NamesOf(a) = NamesOf(b)
    PROVE  a = b
<1>1. DOMAIN IdsOf(a) = DOMAIN a /\ DOMAIN IdsOf(b) = DOMAIN b  BY DEF IdsOf
<1>2. DOMAIN a = DOMAIN b  BY <1>1
<1>4. /\ DOMAIN a = 1 .. Len(a) /\ Len(a) \in Nat
      /\ DOMAIN b = 1 .. Len(b) /\ Len(b) \in Nat
  OBVIOUS
<1>3. ASSUME NEW i \in DOMAIN a PROVE a[i] = b[i]
  <2>1. IdsOf(a)[i] = a[i].id /\ IdsOf(b)[i] = b[i].id  BY <1>2 DEF IdsOf
  <2>2. NamesOf(a)[i] = a[i].name /\ NamesOf(b)[i] = b[i].name
    BY <1>2 DEF NamesOf
  <2>3. a[i] \in [id : T, name : N] /\ b[i] \in [id : T, name : N]
    <3>1. i \in 1 .. Len(a) /\ i \in 1 .. Len(b)  BY <1>2, <1>4
    <3> QED  BY <3>1, ElementOfSeq
  <2>4. a[i].id = b[i].id /\ a[i].name = b[i].name  BY <2>1, <2>2
  <2> QED  BY <2>3, <2>4
<1>5. Len(a) = Len(b)
  <2>1. ASSUME NEW x \in Nat, NEW y \in Nat, 1 .. x = 1 .. y PROVE x = y
    BY <2>1
  <2>2. 1 .. Len(a) = 1 .. Len(b)  BY <1>2, <1>4
  <2> QED  BY <1>4, <2>1, <2>2
<1> QED  BY <1>3, <1>4, <1>5, SeqEqual

\* A new editor takes the rules of the file: the edited names beside it are
\* theirs if those rules were on the screen.
LEMMA EditorReplaced ==
    ASSUME SectionsInv, RequestsInv, draft # NULL, NEW edited,
           Together(file, stored, cache, draft.rules, Metadata, edited, requests),
           edited => Seen = file.rules
    PROVE  Together(file, stored, file, file.rules, Metadata, edited, requests)
<1> DEFINE c == cache.rules
           d == draft.rules
           e == file.rules
           m == Metadata
           aligned == alignedMetadata(d)
           T(x) == Together(file, stored, file, x, m, edited, requests)
<1>1. Len(requests) \in Nat  BY DEF RequestsInv
<1>2. Seen = IF IdsOf(d) = IdsOf(c) /\ aligned = NamesOf(c) THEN c ELSE d
  BY DEF Seen
<1>3. ASSUME e = d PROVE T(e)
  <2> HIDE DEF d, m
  <2>1. e = file.rules \/ (e = d /\ IdsOf(file.rules) = IdsOf(c))  OBVIOUS
  <2> QED  BY <1>1, <1>3, <2>1, CacheMoves DEF d, m
<1>4. CASE Installing(file, stored, cache, d, m, requests)
  <2>1. Installing(file, stored, file, e, m, requests)
    BY <1>4 DEF Installing
  <2> QED  BY <2>1 DEF Together
<1>5. CASE /\ Ordered(requests) /\ Current(file, cache, requests)
           /\ Level(file, stored, cache, d, m, requests)
  <2>1. Level(file, stored, file, e, m, requests)  BY <1>5 DEF Level
  <2>2. Current(file, file, requests)  BY DEF Current
  <2> QED  BY <1>5, <2>1, <2>2 DEF Together
<1>6. CASE /\ Ordered(requests) /\ Current(file, cache, requests)
           /\ edited /\ Moved(file, stored, cache, d, m, requests)
  <2>1. Seen = e  BY <1>6
  <2>2. CASE Seen = d  BY <1>3, <2>1, <2>2
  <2>3. CASE Seen # d
    <3>1. e = c /\ IdsOf(d) = IdsOf(e) /\ aligned = NamesOf(e)
      BY <1>2, <2>1, <2>3
    <3>2. ASSUME m = NamesOf(d) PROVE m = NamesOf(e) /\ d = e
      <4>1. aligned = NamesOf(d)
        BY <3>2 DEF alignedMetadata, Metadata, NamesOf
      <4>2. NamesOf(d) = NamesOf(e)  BY <3>1, <4>1
      <4>3. d \in Seq(Item) /\ e \in Seq(Item)
        <5>1. /\ draft \in SectionOf(Drafted, SolidItem)
              /\ file \in SectionOf(Drafted, SolidItem)
          BY Objects DEF SectionsInv
        <5>2. d \in Seq(SolidItem) /\ e \in Seq(SolidItem)
          <6> HIDE DEF Drafted, SolidItem
          <6> QED  BY <5>1 DEF SectionOf, ListOf
        <5>3. SolidItem \subseteq Item  BY TypesFit
        <5> HIDE DEF d, e, SolidItem, Item
        <5> QED  BY <5>2, <5>3, SeqMonotonic
      <4>4. d = e
        <5> HIDE DEF d, e
        <5> QED  BY <3>1, <4>2, <4>3, SameRules DEF Item
      <4> QED  BY <3>2, <4>2, <4>4
    <3>3. Screen(file, e, m, requests)
      <4>1. Screen(cache, d, m, requests)  BY <1>6 DEF Moved
      <4> HIDE DEF aligned, d, e, m
      <4>2. CASE Unanswered(requests)
        <5> DEFINE r == requests[Len(requests)]
        <5>1. m = NamesOf(r.body.rules)
              /\ (d = r.body.rules \/ (r.skips /\ IdsOf(d) = IdsOf(c)))
          BY <4>1, <4>2 DEF Screen
        <5>2. e = r.body.rules \/ r.skips  BY <3>2, <5>1
        <5> QED  BY <4>2, <5>1, <5>2 DEF Screen, e
      <4>3. CASE ~Unanswered(requests)
        <5>1. m = NamesOf(d) \/ m = NamesOf(c)
          BY <4>1, <4>3 DEF Screen, Beside
        <5>2. m = NamesOf(e)  BY <3>1, <3>2, <5>1
        <5> QED  BY <4>3, <5>2 DEF Screen, Beside
      <4> QED  BY <4>2, <4>3
    <3>4. Moved(file, stored, file, e, m, requests)
      <4> HIDE DEF Screen, Repaired, Bearing, e, d, m
      <4> QED  BY <1>6, <3>3 DEF Moved
    <3>5. Current(file, file, requests)  BY DEF Current
    <3> QED  BY <1>6, <3>4, <3>5 DEF Together
  <2> QED  BY <2>2, <2>3
<1> QED  BY <1>4, <1>5, <1>6 DEF Together

\* No request before k is at the stage.
Foremost(q, k, stage) == \A j \in 1 .. k - 1 : q[j].stage # stage

\* The stage at which a request stands does not disturb the order, as long as
\* no request falls behind one that is still to be served.
LEMMA StageInOrder ==
    ASSUME NEW q, NEW p, Len(q) \in Nat, NEW k \in 1 .. Len(q), NEW s,
           Restaged(q, p, k, s), Ordered(q),
           s \notin {"sent", "second", "listing"},
           q[k].stage = "sent" =>
             \A j \in 1 .. k - 1 : q[j].stage # "sent",
           s \in {"rolled_back", "error"} => ~q[k].skips,
           s \in NamingStages => q[k].names \notin {NULL, <<>>}
    PROVE  Ordered(p)
<1> DEFINE n == Len(q)
<1>1. /\ n \in Nat /\ Len(p) = n /\ k \in 1 .. n
      /\ \A j \in 1 .. n :
         /\ p[j].kind = q[j].kind /\ p[j].names = q[j].names
         /\ p[j].latest = q[j].latest /\ p[j].skips = q[j].skips
         /\ p[j].stage = IF j = k THEN s ELSE q[j].stage
  BY DEF Restaged
<1>2. ASSUME NEW i \in 1 .. n, NEW j \in 1 .. n, i < j, p[i].stage = "sent"
      PROVE  Skipping(p[j])
  <2>1. i # k /\ q[i].stage = "sent"  BY <1>1, <1>2
  <2>2. Skipping(q[j])  BY <1>2, <2>1 DEF Ordered
  <2>3. j # k
    <3> SUFFICES ASSUME j = k PROVE FALSE  OBVIOUS
    <3>1. q[k].stage = "sent" /\ i \in 1 .. k - 1  BY <1>1, <1>2, <2>2 DEF Skipping
    <3> QED  BY <2>1, <3>1
  <2> QED  BY <1>1, <2>2, <2>3 DEF Skipping
<1>3. ASSUME NEW j \in 1 .. n
      PROVE  /\ p[j].kind \in {"rules", "global"}
             /\ p[j].stage \notin {"second", "listing"}
             /\ p[j].kind = "rules" => p[j].names # NULL
             /\ p[j].latest => j = n
             /\ j = n /\ p[j].stage = "sent" => p[j].latest
             /\ p[j].stage \in {"rolled_back", "error"} => ~p[j].skips
             /\ p[j].stage \in NamingStages => p[j].names \notin {NULL, <<>>}
  <2>1. /\ q[j].kind \in {"rules", "global"}
        /\ q[j].stage \notin {"second", "listing"}
        /\ q[j].kind = "rules" => q[j].names # NULL
        /\ q[j].latest => j = n
        /\ j = n /\ q[j].stage = "sent" => q[j].latest
        /\ q[j].stage \in {"rolled_back", "error"} => ~q[j].skips
        /\ q[j].stage \in NamingStages => q[j].names \notin {NULL, <<>>}
    BY DEF Ordered
  <2>2. CASE j = k  BY <1>1, <2>1, <2>2
  <2>3. CASE j # k  BY <1>1, <2>1, <2>3
  <2> QED  BY <2>2, <2>3
<1> HIDE DEF n
<1> QED  BY <1>1, <1>2, <1>3 DEF Ordered

\* A save is written to the file.
LEMMA Served ==
    ASSUME NEW f, NEW st, NEW c, NEW d, NEW m, NEW q, NEW p, Len(q) \in Nat,
           NEW k \in 1 .. Len(q), Restaged(q, p, k, "ok"), q[k].stage = "sent",
           Foremost(q, k, "sent"),
           Ordered(q), NEW g, g = q[k].body
    PROVE  /\ Ordered(p) /\ Current(g, c, p)
           /\ Level(f, st, c, d, m, q) => Level(g, st, c, d, m, p)
           /\ Moved(f, st, c, d, m, q) => Moved(g, st, c, d, m, p)
<1> USE DEF Foremost
<1> DEFINE n == Len(q)
<1>1. /\ n \in Nat /\ Len(p) = n /\ k \in 1 .. n
      /\ \A j \in 1 .. n :
         /\ p[j].kind = q[j].kind /\ p[j].body = q[j].body
         /\ p[j].names = q[j].names
         /\ p[j].latest = q[j].latest /\ p[j].skips = q[j].skips
         /\ p[j].stage = (IF j = k THEN "ok" ELSE q[j].stage)
         /\ (Bearing(p[j]) <=> Bearing(q[j]))
  BY DEF Restaged, Bearing
<1>2. Ordered(p)  BY StageInOrder DEF NamingStages
<1>3. \A j \in k + 1 .. n : Skipping(q[j]) /\ Skipping(p[j])
  <2> TAKE j \in k + 1 .. n
  <2>1. j \in 1 .. n /\ k < j  BY <1>1
  <2>2. Skipping(q[j])  BY <2>1 DEF Ordered
  <2> QED  BY <1>1, <2>1, <2>2 DEF Skipping
<1>4. Waiting(p) /\ Waiting(q)
      /\ \/ p[n].stage = "ok" /\ k = n
         \/ Skipping(p[n]) /\ k # n
  <2>1. CASE k = n
    <3>1. n \in 1 .. n /\ n > 0  BY <1>1, <2>1
    <3>2. q[n].latest  BY <2>1, <3>1 DEF Ordered
    <3>3. p[n].latest /\ p[n].stage = "ok"  BY <1>1, <2>1, <3>1, <3>2
    <3>4. Waiting(q)  BY <3>1, <3>2 DEF Waiting
    <3>5. Waiting(p)
      <4>1. Len(p) = n  BY <1>1
      <4> HIDE DEF n
      <4> QED  BY <3>1, <3>3, <4>1 DEF Waiting
    <3> QED  BY <2>1, <3>3, <3>4, <3>5
  <2>2. CASE k # n
    <3>1. n \in k + 1 .. n /\ n \in 1 .. n  BY <1>1, <2>2
    <3>2. Skipping(q[n]) /\ Skipping(p[n])  BY <1>3, <3>1
    <3>3. q[n].latest  BY <3>1, <3>2 DEF Ordered, Skipping
    <3> QED  BY <1>1, <2>2, <3>1, <3>2, <3>3 DEF Waiting
  <2> QED  BY <2>1, <2>2
<1> HIDE DEF n
<1>5. Current(g, c, p)
  BY <1>1, <1>3, <1>4 DEF Current
<1>6. ASSUME Level(f, st, c, d, m, q) PROVE Level(g, st, c, d, m, p)
  <2>1. g.rules = f.rules  BY <1>1, <1>6 DEF Level, n
  <2>2. \A j \in 1 .. n : /\ p[j].body.rules = f.rules
                          /\ p[j].names \in {NULL, <<>>, NamesOf(f.rules)}
    BY <1>1, <1>6 DEF Level, n
  <2> QED  BY <1>1, <1>6, <2>1, <2>2 DEF Level, Exact
<1>7. ASSUME Moved(f, st, c, d, m, q) PROVE Moved(g, st, c, d, m, p)
  <2>1. \A i \in 0 .. n - 1 : Repaired(g, p, i)
    <3> TAKE i \in 0 .. n - 1
    <3>1. n > i  BY <1>1
    <3> QED  BY <1>1, <1>4, <3>1 DEF Repaired
  <2>2. ASSUME NEW j \in 1 .. n
        PROVE  /\ p[j].latest \/ p[j].stage \in NamingStages => Bearing(p[j])
               /\ Bearing(p[j]) => p[j].names = NamesOf(p[j].body.rules)
               /\ ~Bearing(p[j]) /\ p[j].stage = "sent" =>
                    \A i \in 1 .. j : p[i].stage = "sent" => p[i].body.rules = g.rules
               /\ p[j].stage = "naming" =>
                    p[j].body.rules = g.rules \/ Repaired(g, p, j)
    <3>1. /\ q[j].latest \/ q[j].stage \in NamingStages => Bearing(q[j])
          /\ Bearing(q[j]) => q[j].names = NamesOf(q[j].body.rules)
          /\ ~Bearing(q[j]) /\ q[j].stage = "sent" =>
               \A i \in 1 .. j : q[i].stage = "sent" => q[i].body.rules = f.rules
      <4> HIDE DEF Bearing
      <4> QED  BY <1>7 DEF Moved, n
    <3>2. p[j].latest \/ p[j].stage \in NamingStages => Bearing(p[j])
      <4>1. "ok" \notin NamingStages  BY DEF NamingStages
      <4> HIDE DEF Bearing, NamingStages
      <4> QED  BY <1>1, <3>1, <4>1
    <3>3. Bearing(p[j]) => p[j].names = NamesOf(p[j].body.rules)
      <4> HIDE DEF Bearing
      <4> QED  BY <1>1, <3>1
    <3>4. ASSUME ~Bearing(p[j]), p[j].stage = "sent", NEW i \in 1 .. j,
                 p[i].stage = "sent"
          PROVE  p[i].body.rules = g.rules
      <4>1. j # k /\ q[j].stage = "sent" /\ ~Bearing(q[j])
        <5> HIDE DEF Bearing
        <5> QED  BY <1>1, <3>4
      <4>2. k \in 1 .. j
        <5>1. ~(j \in 1 .. k - 1)  BY <4>1
        <5> QED  BY <1>1, <4>1, <5>1
      <4>3. q[k].body.rules = f.rules  BY <3>1, <4>1, <4>2
      <4>4. i \in 1 .. n /\ q[i].stage = "sent"  BY <1>1, <3>4
      <4>5. q[i].body.rules = f.rules  BY <3>1, <4>1, <4>4
      <4> QED  BY <1>1, <4>3, <4>4, <4>5
    <3>5. ASSUME p[j].stage = "naming" PROVE Repaired(g, p, j)
      <4>1. j # n
        <5>1. p[n].stage = "ok" \/ p[n].stage = "sent"  BY <1>4 DEF Skipping
        <5> QED  BY <3>5, <5>1
      <4>2. j \in 0 .. n - 1  BY <1>1, <4>1
      <4> QED  BY <2>1, <4>2
    <3> QED  BY <3>2, <3>3, <3>4, <3>5
  <2>3. Waiting(p) /\ p[n].stage = "ok" => p[n].body.rules = g.rules
    <3>1. p[n].stage = "ok" => k = n  BY <1>4 DEF Skipping
    <3> QED  BY <1>1, <3>1
  <2>4. Repaired(g, p, 0)
    <3>1. 0 \in 0 .. n - 1  BY <1>1
    <3> QED  BY <2>1, <3>1
  <2>5. Screen(c, d, m, p)
    <3>1. n \in 1 .. n  BY <1>1
    <3>2. q[n].stage = "sent"
      <4>1. CASE k = n  BY <4>1
      <4>2. CASE k # n
        <5>1. n \in k + 1 .. n  BY <1>1, <4>2
        <5> QED  BY <1>3, <5>1 DEF Skipping
      <4> QED  BY <4>1, <4>2
    <3>3. Unanswered(q)  BY <1>4, <3>2 DEF Unanswered, NamingStages, n
    <3>4. Unanswered(p)
      BY <1>1, <1>4 DEF Unanswered, NamingStages, Skipping
    <3>5. /\ m = NamesOf(q[n].body.rules)
          /\ d = q[n].body.rules \/ (q[n].skips /\ IdsOf(d) = IdsOf(c.rules))
      BY <1>7, <3>3 DEF Moved, Screen, n
    <3> QED  BY <1>1, <3>1, <3>4, <3>5 DEF Screen
  <2> HIDE DEF Bearing, Repaired, Screen
  <2> QED  BY <1>1, <2>2, <2>3, <2>4, <2>5 DEF Moved
<1> QED  BY <1>2, <1>5, <1>6, <1>7

\* The first two parts of Moved, about each request by itself.
LEMMA StageBears ==
    ASSUME NEW f, NEW st, NEW c, NEW d, NEW m, NEW q, NEW p, Len(q) \in Nat,
           NEW k \in 1 .. Len(q), NEW s, Restaged(q, p, k, s),
           s \in NamingStages => Bearing(q[k]), Moved(f, st, c, d, m, q)
    PROVE  /\ \A j \in 1 .. Len(q) :
                /\ p[j].latest \/ p[j].stage \in NamingStages => Bearing(p[j])
                /\ Bearing(p[j]) => p[j].names = NamesOf(p[j].body.rules)
                /\ p[j].stage = (IF j = k THEN s ELSE q[j].stage)
                /\ p[j].body = q[j].body /\ (Bearing(p[j]) <=> Bearing(q[j]))
                /\ p[j].names = q[j].names
                /\ p[j].latest = q[j].latest /\ p[j].skips = q[j].skips
           /\ Len(p) = Len(q)
           /\ Waiting(p) <=> Waiting(q)
<1>1. ASSUME NEW j \in 1 .. Len(q)
      PROVE  /\ p[j].stage = (IF j = k THEN s ELSE q[j].stage)
             /\ p[j].body = q[j].body /\ (Bearing(p[j]) <=> Bearing(q[j]))
             /\ p[j].names = q[j].names
             /\ p[j].latest = q[j].latest /\ p[j].skips = q[j].skips
  BY DEF Restaged, Bearing
<1>2. ASSUME NEW j \in 1 .. Len(q)
      PROVE  /\ q[j].latest \/ q[j].stage \in NamingStages => Bearing(q[j])
             /\ Bearing(q[j]) => q[j].names = NamesOf(q[j].body.rules)
  <2> HIDE DEF Bearing
  <2> QED  BY DEF Moved
<1>3. Len(p) = Len(q)  BY DEF Restaged
<1>4. Waiting(p) <=> Waiting(q)
  <2>1. Len(q) > 0 => Len(q) \in 1 .. Len(q)  OBVIOUS
  <2>2. Len(q) > 0 => (p[Len(q)].latest <=> q[Len(q)].latest)  BY <1>1, <2>1
  <2> QED  BY <1>3, <2>2 DEF Waiting
<1>5. ASSUME NEW j \in 1 .. Len(q)
      PROVE  /\ p[j].latest \/ p[j].stage \in NamingStages => Bearing(p[j])
             /\ Bearing(p[j]) => p[j].names = NamesOf(p[j].body.rules)
  <2> HIDE DEF Bearing, NamingStages
  <2> QED  BY <1>1, <1>2
<1> HIDE DEF Bearing
<1> QED  BY <1>1, <1>3, <1>4, <1>5

\* The same for Level.
LEMMA StageLevel ==
    ASSUME NEW f, NEW st, NEW c, NEW d, NEW m, NEW q, NEW p,
           NEW k, NEW s, Restaged(q, p, k, s), Level(f, st, c, d, m, q)
    PROVE  Level(f, st, c, d, m, p)
BY DEF Level, Restaged

\* A save is rolled back, or fails, with no other before it: the cache has
\* the file.
LEMMA Refused ==
    ASSUME NEW f, NEW st, NEW c, NEW d, NEW m, NEW q, NEW p, Len(q) \in Nat,
           NEW k \in 1 .. Len(q), NEW s \in {"rolled_back", "error"},
           Restaged(q, p, k, s), q[k].stage = "sent", ~q[k].skips,
           Foremost(q, k, "sent"),
           Ordered(q), Current(f, c, q)
    PROVE  /\ Ordered(p) /\ Current(f, c, p)
           /\ Level(f, st, c, d, m, q) => Level(f, st, c, d, m, p)
           /\ Moved(f, st, c, d, m, q) => Moved(f, st, c, d, m, p)
<1> USE DEF Foremost
<1> DEFINE n == Len(q)
<1>1. Ordered(p)  BY StageInOrder DEF NamingStages
<1>2. c = f
  <2> SUFFICES ASSUME c # f PROVE FALSE  OBVIOUS
  <2>1. PICK i \in 1 .. n : /\ q[i].stage = "ok"
                            /\ \A j \in i + 1 .. n : Skipping(q[j])
    BY DEF Current
  <2>2. i # k /\ ~(k > i)
    <3>1. k > i => k \in i + 1 .. n  OBVIOUS
    <3> QED  BY <2>1, <3>1 DEF Skipping
  <2>3. k < i  BY <2>2
  <2> QED  BY <2>1, <2>3 DEF Ordered, Skipping
<1>3. ASSUME Moved(f, st, c, d, m, q) PROVE Moved(f, st, c, d, m, p)
  <2> s \notin NamingStages /\ s # "sent" /\ s # "naming" /\ s # "ok"
    BY DEF NamingStages
  <2>1. /\ \A j \in 1 .. n :
             /\ p[j].latest \/ p[j].stage \in NamingStages => Bearing(p[j])
             /\ Bearing(p[j]) => p[j].names = NamesOf(p[j].body.rules)
             /\ p[j].stage = (IF j = k THEN s ELSE q[j].stage)
             /\ p[j].body = q[j].body /\ (Bearing(p[j]) <=> Bearing(q[j]))
             /\ p[j].latest = q[j].latest /\ p[j].skips = q[j].skips
        /\ Len(p) = n /\ (Waiting(p) <=> Waiting(q))
    BY <1>3, StageBears
  <2> HIDE DEF n
  <2>2. \A i \in 0 .. n : Repaired(f, q, i) => Repaired(f, p, i)
    <3> SUFFICES ASSUME NEW i \in 0 .. n, Repaired(f, q, i)
                 PROVE  Repaired(f, p, i)
      OBVIOUS
    <3>1. CASE \E j \in 1 .. n : /\ j > i /\ q[j].stage = "naming"
                                 /\ q[j].body.rules = f.rules
      <4>1. PICK j \in 1 .. n : /\ j > i /\ q[j].stage = "naming"
                                /\ q[j].body.rules = f.rules
        BY <3>1
      <4>2. p[j].stage = "naming" /\ p[j].body.rules = f.rules  BY <2>1, <4>1
      <4> QED  BY <2>1, <4>1, <4>2 DEF Repaired
    <3>2. CASE Waiting(q) /\ n > i /\ (q[n].stage = "ok" \/ Skipping(q[n]))
      <4>1. n \in 1 .. n /\ n # k  BY <3>2 DEF Skipping, n
      <4>2. p[n].stage = "ok" \/ Skipping(p[n])  BY <2>1, <3>2, <4>1 DEF Skipping
      <4> QED  BY <2>1, <3>2, <4>2 DEF Repaired
    <3> QED  BY <3>1, <3>2 DEF Repaired, n
  <2>3. ASSUME NEW j \in 1 .. n
        PROVE  /\ ~Bearing(p[j]) /\ p[j].stage = "sent" =>
                    \A i \in 1 .. j : p[i].stage = "sent" => p[i].body.rules = f.rules
               /\ p[j].stage = "naming" =>
                    p[j].body.rules = f.rules \/ Repaired(f, p, j)
    <3>1. /\ ~Bearing(q[j]) /\ q[j].stage = "sent" =>
               \A i \in 1 .. j : q[i].stage = "sent" => q[i].body.rules = f.rules
          /\ q[j].stage = "naming" =>
               q[j].body.rules = f.rules \/ Repaired(f, q, j)
      <4> HIDE DEF Bearing, Repaired
      <4> QED  BY <1>3 DEF Moved, n
    <3>2. j \in 0 .. n /\ \A i \in 1 .. j : i \in 1 .. n  BY DEF n
    <3> HIDE DEF Bearing, Repaired
    <3> QED  BY <2>1, <2>2, <3>1, <3>2
  <2>4. Waiting(p) /\ p[n].stage = "ok" => p[n].body.rules = f.rules
    <3>1. Waiting(q) => n \in 1 .. n  BY DEF Waiting, n
    <3>2. Waiting(q) /\ q[n].stage = "ok" => q[n].body.rules = f.rules
      BY <1>3 DEF Moved, n
    <3> QED  BY <2>1, <3>1, <3>2
  <2>5. Exact(f, st) \/ Repaired(f, p, 0)
    <3>1. 0 \in 0 .. n  BY DEF n
    <3> QED  BY <1>3, <2>2, <3>1 DEF Moved
  <2>6. Screen(c, d, m, p)
    <3>1. Waiting(q) => n \in 1 .. n  BY DEF Waiting, n
    <3>2. Unanswered(p) <=> Unanswered(q)
      <4>1. q[k].stage \notin NamingStages  BY DEF NamingStages
      <4> HIDE DEF NamingStages
      <4> QED  BY <2>1, <3>1, <4>1 DEF Unanswered, n
    <3>3. Unanswered(q) => p[n].body = q[n].body /\ p[n].skips = q[n].skips
      BY <2>1, <3>1 DEF Unanswered
    <3>4. Screen(c, d, m, q)  BY <1>3 DEF Moved
    <3> HIDE DEF Beside, Unanswered
    <3> QED  BY <2>1, <3>2, <3>3, <3>4 DEF Screen, n
  <2> HIDE DEF Bearing, Repaired, Screen
  <2> QED  BY <2>1, <2>3, <2>4, <2>5, <2>6 DEF Moved
<1>4. Level(f, st, c, d, m, q) => Level(f, st, c, d, m, p)  BY StageLevel
<1> QED  BY <1>1, <1>2, <1>3, <1>4 DEF Current

\* The answer to a save has brought the file, and its names follow.
LEMMA NamesLeave ==
    ASSUME NEW f, NEW st, NEW d, NEW m, NEW q, NEW p, Len(q) \in Nat,
           NEW k \in 1 .. Len(q), Restaged(q, p, k, "naming"),
           q[k].stage = "ok", q[k].latest, q[k].names \notin {NULL, <<>>},
           Ordered(q)
    PROVE  /\ Ordered(p) /\ Current(f, f, p)
           /\ Level(f, st, f, d, m, q) => Level(f, st, f, d, m, p)
           /\ Moved(f, st, f, d, m, q) => Moved(f, st, f, d, m, p)
<1> DEFINE n == Len(q)
<1>1. Ordered(p)  BY StageInOrder DEF NamingStages
<1>2. k = n  BY DEF Ordered
<1>3. \A j \in 1 .. n : q[j].stage # "sent"
  <2> SUFFICES ASSUME NEW j \in 1 .. n, q[j].stage = "sent" PROVE FALSE
    OBVIOUS
  <2>1. j < k  BY <1>2
  <2>2. Skipping(q[k])  BY <2>1 DEF Ordered
  <2> QED  BY <2>2 DEF Skipping
<1>4. ASSUME Moved(f, st, f, d, m, q) PROVE Moved(f, st, f, d, m, p)
  <2>1. Bearing(q[k])
    <3> HIDE DEF Bearing
    <3> QED  BY <1>4 DEF Moved
  <2>2. /\ \A j \in 1 .. n :
             /\ p[j].latest \/ p[j].stage \in NamingStages => Bearing(p[j])
             /\ Bearing(p[j]) => p[j].names = NamesOf(p[j].body.rules)
             /\ p[j].stage = (IF j = k THEN "naming" ELSE q[j].stage)
             /\ p[j].body = q[j].body /\ (Bearing(p[j]) <=> Bearing(q[j]))
             /\ p[j].latest = q[j].latest /\ p[j].skips = q[j].skips
        /\ Len(p) = n /\ (Waiting(p) <=> Waiting(q))
    <3> HIDE DEF Bearing
    <3> QED  BY <1>4, <2>1, StageBears
  <2>3. Waiting(q)  BY <1>2 DEF Waiting
  <2> HIDE DEF n
  <2>4. p[k].stage = "naming" /\ p[k].body.rules = f.rules
    <3>1. q[k].body.rules = f.rules  BY <1>2, <1>4, <2>3 DEF Moved, n
    <3> QED  BY <2>2, <3>1 DEF n
  <2>5. \A i \in 0 .. n - 1 : Repaired(f, p, i)
    <3> TAKE i \in 0 .. n - 1
    <3>1. k \in 1 .. n /\ k > i  BY <1>2 DEF n
    <3> QED  BY <2>2, <2>4, <3>1 DEF Repaired
  <2>6. ASSUME NEW j \in 1 .. n
        PROVE  /\ p[j].stage # "sent"
               /\ p[j].body.rules = f.rules \/ Repaired(f, p, j)
    <3>1. CASE j = k  BY <2>2, <2>4, <3>1
    <3>2. CASE j # k
      <4>1. j \in 0 .. n - 1  BY <1>2, <3>2 DEF n
      <4> QED  BY <1>3, <2>2, <2>5, <3>2, <4>1
    <3> QED  BY <3>1, <3>2
  <2>7. ~Unanswered(p) /\ p[n].stage = "naming"
    BY <1>2, <2>2, <2>4 DEF Unanswered, NamingStages
  <2>8. Repaired(f, p, 0)
    <3>1. 0 \in 0 .. n - 1  BY <1>2 DEF n
    <3> QED  BY <2>5, <3>1
  <2>9. Screen(f, d, m, p)
    <3>1. Unanswered(q)
      BY <1>2, <2>3 DEF Unanswered, NamingStages, n
    <3>2. /\ m = NamesOf(q[k].body.rules) /\ q[k].body.rules = f.rules
          /\ d = q[k].body.rules \/ IdsOf(d) = IdsOf(f.rules)
      BY <1>2, <1>4, <2>3, <3>1 DEF Moved, Screen, n
    <3>3. Beside(f, d, m)  BY <3>2 DEF Beside
    <3> QED  BY <2>7, <3>3 DEF Screen
  <2> HIDE DEF Bearing, Repaired, Screen
  <2> QED  BY <2>2, <2>6, <2>7, <2>8, <2>9 DEF Moved
<1>5. Level(f, st, f, d, m, q) => Level(f, st, f, d, m, p)  BY StageLevel
<1> QED  BY <1>1, <1>4, <1>5 DEF Current

\* The entries after a list of names has arrived for a file.
Written(f, st, ns) ==
    IF Accepts(IdsOf(f.rules), ns) THEN Save(IdsOf(f.rules), ns) ELSE st

\* The names are written, after those of the requests before.
LEMMA NamesWritten ==
    ASSUME NEW f, NEW st, NEW c, NEW d, NEW m, NEW q, NEW p, Len(q) \in Nat,
           NEW k \in 1 .. Len(q), NEW s \in {"named", "unnamed"},
           Restaged(q, p, k, s), q[k].stage = "naming",
           Foremost(q, k, "naming"),
           NEW edited, Together(f, st, c, d, m, edited, q),
           Accepts(IdsOf(f.rules), NamesOf(f.rules)), NEW tt,
           tt = Written(f, st, q[k].names)
    PROVE  Together(f, tt, c, d, m, edited, p)
<1> USE DEF Written, Foremost
<1>8. ~Installing(f, st, c, d, m, q)
  <2> SUFFICES ASSUME Installing(f, st, c, d, m, q) PROVE FALSE  OBVIOUS
  <2>1. k = 1  BY DEF Installing
  <2> QED  BY <2>1 DEF Installing, Answered
<1>9. /\ Ordered(q) /\ Current(f, c, q)
      /\ Level(f, st, c, d, m, q) \/ (edited /\ Moved(f, st, c, d, m, q))
  <2> HIDE DEF Written, Foremost
  <2> QED  BY <1>8 DEF Together
<1> USE <1>9
<1> DEFINE n == Len(q)
<1>1. q[k].names \notin {NULL, <<>>}  BY DEF Ordered, NamingStages
<1>2. Ordered(p)  BY <1>1, StageInOrder DEF NamingStages
<1>3. /\ n \in Nat /\ Len(p) = n /\ k \in 1 .. n
      /\ \A j \in 1 .. n :
         /\ p[j].kind = q[j].kind /\ p[j].body = q[j].body
         /\ p[j].names = q[j].names
         /\ p[j].latest = q[j].latest /\ p[j].skips = q[j].skips
         /\ p[j].stage = (IF j = k THEN s ELSE q[j].stage)
  BY DEF Restaged
<1> HIDE DEF n
<1>4. Waiting(p) <=> Waiting(q)
  <2>1. n > 0 => n \in 1 .. n  BY <1>3
  <2> QED  BY <1>3, <2>1 DEF Waiting, n
<1>5. Current(f, c, p)
  <2>1. CASE c = f  BY <2>1 DEF Current
  <2>2. CASE c # f
    <3>1. PICK i \in 1 .. n : /\ q[i].stage = "ok"
                              /\ \A j \in i + 1 .. n : Skipping(q[j])
      BY <2>2 DEF Current, n
    <3>2. i # k /\ \A j \in i + 1 .. n : j # k /\ j \in 1 .. n
      BY <1>3, <3>1 DEF Skipping
    <3>3. \A j \in i + 1 .. n : Skipping(p[j])  BY <1>3, <3>1, <3>2 DEF Skipping
    <3>4. Waiting(p)  BY <1>4, <2>2 DEF Current
    <3> QED  BY <1>3, <3>1, <3>2, <3>3, <3>4 DEF Current
  <2> QED  BY <2>1, <2>2
<1>6. ASSUME Level(f, st, c, d, m, q) PROVE Level(f, tt, c, d, m, p)
  <2>1. q[k].names = NamesOf(f.rules)  BY <1>1, <1>3, <1>6 DEF Level, n
  <2>2. Exact(f, tt)  BY <2>1 DEF Exact
  <2>3. Level(f, st, c, d, m, p)  BY <1>6, StageLevel
  <2> QED  BY <2>2, <2>3 DEF Level
<1>7. ASSUME Moved(f, st, c, d, m, q) PROVE Moved(f, tt, c, d, m, p)
  <2> s \in NamingStages /\ s # "sent" /\ s # "naming" /\ s # "ok"
      /\ "naming" \in NamingStages
    BY DEF NamingStages
  <2>1. Bearing(q[k]) /\ q[k].names = NamesOf(q[k].body.rules)
    <3> HIDE DEF Bearing, NamingStages
    <3> QED  BY <1>3, <1>7 DEF Moved, n
  <2>2. \A j \in 1 .. n :
             /\ p[j].latest \/ p[j].stage \in NamingStages => Bearing(p[j])
             /\ Bearing(p[j]) => p[j].names = NamesOf(p[j].body.rules)
             /\ (Bearing(p[j]) <=> Bearing(q[j]))
    <3> HIDE DEF Bearing
    <3> QED  BY <1>7, <2>1, StageBears DEF n
  <2>3. \A i \in k .. n : Repaired(f, q, i) => Repaired(f, p, 0) /\ Repaired(f, p, i)
    <3> SUFFICES ASSUME NEW i \in k .. n, Repaired(f, q, i)
                 PROVE  Repaired(f, p, 0) /\ Repaired(f, p, i)
      OBVIOUS
    <3>1. CASE \E j \in 1 .. n : /\ j > i /\ q[j].stage = "naming"
                                 /\ q[j].body.rules = f.rules
      <4>1. PICK j \in 1 .. n : /\ j > i /\ q[j].stage = "naming"
                                /\ q[j].body.rules = f.rules
        BY <3>1
      <4>2. j # k /\ j > 0  BY <1>3, <4>1
      <4>3. p[j].stage = "naming" /\ p[j].body.rules = f.rules  BY <1>3, <4>1, <4>2
      <4> QED  BY <1>3, <4>1, <4>2, <4>3 DEF Repaired
    <3>2. CASE Waiting(q) /\ n > i /\ (q[n].stage = "ok" \/ Skipping(q[n]))
      <4>1. n \in 1 .. n /\ n # k /\ n > 0 /\ n > i  BY <1>3, <3>2
      <4>2. p[n].stage = "ok" \/ Skipping(p[n])  BY <1>3, <3>2, <4>1 DEF Skipping
      <4> QED  BY <1>3, <1>4, <3>2, <4>1, <4>2 DEF Repaired
    <3> QED  BY <3>1, <3>2 DEF Repaired, n
  <2>4. ASSUME NEW j \in 1 .. n
        PROVE  /\ ~Bearing(p[j]) /\ p[j].stage = "sent" =>
                    \A i \in 1 .. j : p[i].stage = "sent" => p[i].body.rules = f.rules
               /\ p[j].stage = "naming" =>
                    p[j].body.rules = f.rules \/ Repaired(f, p, j)
    <3>1. /\ ~Bearing(q[j]) /\ q[j].stage = "sent" =>
               \A i \in 1 .. j : q[i].stage = "sent" => q[i].body.rules = f.rules
          /\ q[j].stage = "naming" =>
               q[j].body.rules = f.rules \/ Repaired(f, q, j)
      <4> HIDE DEF Bearing, Repaired
      <4> QED  BY <1>7 DEF Moved, n
    <3>2. \A i \in 1 .. j : i \in 1 .. n  BY <1>3
    <3>3. p[j].stage = "naming" => q[j].stage = "naming" /\ j \in k .. n
      <4> SUFFICES ASSUME p[j].stage = "naming"
                   PROVE  q[j].stage = "naming" /\ j \in k .. n
        OBVIOUS
      <4>1. j # k /\ q[j].stage = "naming"  BY <1>3
      <4>2. ~(j \in 1 .. k - 1)  BY <4>1
      <4> QED  BY <1>3, <4>1, <4>2
    <3> HIDE DEF Bearing, Repaired
    <3> QED  BY <1>3, <2>2, <2>3, <3>1, <3>2, <3>3
  <2>5. Waiting(p) /\ p[n].stage = "ok" => p[n].body.rules = f.rules
    <3>1. Waiting(q) => n \in 1 .. n  BY DEF Waiting, n
    <3>2. Waiting(q) /\ q[n].stage = "ok" => q[n].body.rules = f.rules
      BY <1>7 DEF Moved, n
    <3> QED  BY <1>3, <1>4, <3>1, <3>2
  <2>6. Exact(f, tt) \/ Repaired(f, p, 0)
    <3>1. q[k].body.rules = f.rules \/ Repaired(f, q, k)
      <4> HIDE DEF Repaired
      <4> QED  BY <1>3, <1>7 DEF Moved, n
    <3>2. CASE q[k].body.rules = f.rules  BY <2>1, <3>2 DEF Exact
    <3>3. CASE Repaired(f, q, k)
      <4>1. k \in k .. n  BY <1>3
      <4> QED  BY <2>3, <3>3, <4>1
    <3> QED  BY <3>1, <3>2, <3>3
  <2>7. Screen(c, d, m, p)
    <3>1. Waiting(q) => n \in 1 .. n  BY DEF Waiting, n
    <3>2. Unanswered(p) <=> Unanswered(q)
      <4> HIDE DEF NamingStages
      <4> QED  BY <1>3, <1>4, <3>1 DEF Unanswered, n
    <3>3. Unanswered(q) => p[n].body = q[n].body /\ p[n].skips = q[n].skips
      BY <1>3, <3>1 DEF Unanswered
    <3>4. Screen(c, d, m, q)  BY <1>7 DEF Moved
    <3> HIDE DEF Beside, Unanswered
    <3> QED  BY <1>3, <3>2, <3>3, <3>4 DEF Screen, n
  <2> HIDE DEF Bearing, Repaired, Screen
  <2> QED  BY <1>3, <2>2, <2>4, <2>5, <2>6, <2>7 DEF Moved
<1> HIDE DEF Written, Foremost
<1> QED  BY <1>2, <1>5, <1>6, <1>7, <1>9 DEF Together

\* A request is done with: the cache has what it wrote, and its names, if it
\* had any, are written.
LEMMA RequestLeaves ==
    ASSUME NEW f, NEW st, NEW c, NEW d, NEW m, NEW q, NEW p, Len(q) \in Nat,
           NEW k \in 1 .. Len(q), Dropped(q, p, k),
           q[k].stage \in Answered \cup {"named", "unnamed"},
           q[k].stage = "ok" => c = f,
           Ordered(q), Current(f, c, q)
    PROVE  /\ Ordered(p) /\ Current(f, c, p)
           /\ Level(f, st, c, d, m, q) => Level(f, st, c, d, m, p)
           /\ Moved(f, st, c, d, m, q) /\ (q[k].stage = "ok" => ~q[k].latest)
                => Moved(f, st, c, d, m, p)
<1> DEFINE n == Len(q)
           Old(j) == IF j < k THEN j ELSE j + 1
           New(j) == IF j < k THEN j ELSE j - 1
<1>1. /\ n \in Nat /\ Len(p) = n - 1 /\ k \in 1 .. n /\ Len(p) \in Nat
      /\ \A j \in 1 .. n - 1 : p[j] = q[Old(j)]
  BY DEF Dropped
<1>2. q[k].stage # "sent" /\ q[k].stage # "naming"  BY DEF Answered
<1> HIDE DEF n
<1>3. \A j \in 1 .. n - 1 : /\ Old(j) \in 1 .. n /\ Old(j) # k
                            /\ (k < n => (j = n - 1 <=> Old(j) = n))
                            /\ \A i \in 1 .. n - 1 : i < j <=> Old(i) < Old(j)
  BY <1>1
<1>4. \A j \in 1 .. n : j # k => New(j) \in 1 .. n - 1 /\ p[New(j)] = q[j]
  <2> TAKE j \in 1 .. n
  <2> HAVE j # k
  <2>1. New(j) \in 1 .. n - 1 /\ Old(New(j)) = j  BY <1>1
  <2> QED  BY <1>1, <2>1
<1> HIDE DEF Old
<1>5. k < n => n - 1 \in 1 .. n - 1 /\ p[n - 1] = q[n]
  <2> SUFFICES ASSUME k < n PROVE n - 1 \in 1 .. n - 1 /\ p[n - 1] = q[n]
    OBVIOUS
  <2>1. n - 1 \in 1 .. n - 1  BY <1>1
  <2>2. Old(n - 1) = n  BY <1>3, <2>1
  <2> QED  BY <1>1, <2>1, <2>2
<1>6. \A j \in 1 .. n - 1 : p[j].latest => k < n /\ j = n - 1
  <2> SUFFICES ASSUME NEW j \in 1 .. n - 1, p[j].latest
               PROVE  k < n /\ j = n - 1
    OBVIOUS
  <2>1. q[Old(j)].latest /\ Old(j) \in 1 .. n /\ Old(j) # k  BY <1>1, <1>3
  <2>2. Old(j) = n  BY <2>1 DEF Ordered, n
  <2> QED  BY <1>1, <1>3, <2>1, <2>2
<1>7. Waiting(p) <=> (k < n /\ Waiting(q))
  <2>1. ASSUME Waiting(p) PROVE k < n /\ Waiting(q)
    <3>1. n - 1 \in 1 .. n - 1 /\ p[n - 1].latest  BY <1>1, <2>1 DEF Waiting
    <3>2. k < n  BY <1>6, <3>1
    <3>3. q[n].latest  BY <1>5, <3>1, <3>2
    <3> QED  BY <1>1, <3>2, <3>3 DEF Waiting, n
  <2>2. ASSUME k < n, Waiting(q) PROVE Waiting(p)
    <3>1. p[n - 1].latest  BY <1>5, <2>2 DEF Waiting, n
    <3> QED  BY <1>1, <1>5, <2>2, <3>1 DEF Waiting
  <2> QED  BY <2>1, <2>2
<1>8. Ordered(p)
  <2>1. ASSUME NEW i \in 1 .. n - 1, NEW j \in 1 .. n - 1, i < j,
               p[i].stage = "sent"
        PROVE  Skipping(p[j])
    <3>1. Old(i) \in 1 .. n /\ Old(j) \in 1 .. n /\ Old(i) < Old(j)
      BY <1>3, <2>1
    <3>2. Skipping(q[Old(j)])  BY <1>1, <2>1, <3>1 DEF Ordered, n
    <3> QED  BY <1>1, <3>2
  <2>2. ASSUME NEW j \in 1 .. n - 1
        PROVE  /\ p[j].kind \in {"rules", "global"}
               /\ p[j].stage \notin {"second", "listing"}
               /\ p[j].kind = "rules" => p[j].names # NULL
               /\ p[j].latest => j = n - 1
               /\ j = n - 1 /\ p[j].stage = "sent" => p[j].latest
               /\ p[j].stage \in {"rolled_back", "error"} => ~p[j].skips
               /\ p[j].stage \in NamingStages => p[j].names \notin {NULL, <<>>}
    <3>1. Old(j) \in 1 .. n /\ p[j] = q[Old(j)]  BY <1>1, <1>3
    <3>2. j = n - 1 /\ p[j].stage = "sent" => p[j].latest
      <4> SUFFICES ASSUME j = n - 1, p[j].stage = "sent" PROVE p[j].latest
        OBVIOUS
      <4>1. k < n
        <5> SUFFICES ASSUME k = n PROVE FALSE  BY <1>1
        <5>1. Old(j) < n  BY <1>1, <3>1, <1>3
        <5>2. n \in 1 .. n  BY <1>1
        <5>3. Skipping(q[n])  BY <3>1, <5>1, <5>2 DEF Ordered, n
        <5> QED  BY <1>2, <5>3 DEF Skipping
      <4>2. Old(j) = n  BY <1>3, <4>1
      <4>3. q[n].stage = "sent" => q[n].latest
        BY <3>1, <4>2 DEF Ordered, n
      <4> QED  BY <3>1, <4>2, <4>3
    <3>3. /\ q[Old(j)].kind \in {"rules", "global"}
          /\ q[Old(j)].stage \notin {"second", "listing"}
          /\ q[Old(j)].kind = "rules" => q[Old(j)].names # NULL
          /\ q[Old(j)].stage \in {"rolled_back", "error"} => ~q[Old(j)].skips
          /\ q[Old(j)].stage \in NamingStages => q[Old(j)].names \notin {NULL, <<>>}
      BY <3>1 DEF Ordered, n
    <3> QED  BY <1>6, <3>1, <3>2, <3>3
  <2> QED  BY <1>1, <2>1, <2>2 DEF Ordered
<1>9. Current(f, c, p)
  <2>1. CASE c = f  BY <2>1 DEF Current
  <2>2. CASE c # f
    <3>1. PICK i \in 1 .. n : /\ q[i].stage = "ok"
                              /\ \A j \in i + 1 .. n : Skipping(q[j])
      BY <2>2 DEF Current, n
    <3>2. k < i
      <4>1. k # i  BY <2>2, <3>1
      <4>2. k > i => k \in i + 1 .. n  BY <1>1
      <4> QED  BY <1>1, <1>2, <3>1, <4>1, <4>2 DEF Skipping
    <3>3. k < n /\ Waiting(q)  BY <1>1, <2>2, <3>2 DEF Current
    <3>4. i - 1 \in 1 .. n - 1 /\ p[i - 1] = q[i]
      <4>1. New(i) = i - 1 /\ i # k  BY <1>1, <3>2
      <4> HIDE DEF New
      <4> QED  BY <1>4, <4>1
    <3>5. \A j \in (i - 1) + 1 .. n - 1 : Skipping(p[j])
      <4> TAKE j \in (i - 1) + 1 .. n - 1
      <4>1. j \in 1 .. n - 1 /\ i - 1 < j  BY <1>1
      <4>2. Old(i - 1) < Old(j) /\ Old(j) \in 1 .. n  BY <1>3, <3>4, <4>1
      <4>3. Old(i - 1) = i  BY <1>1, <3>2 DEF Old
      <4>4. Old(j) \in i + 1 .. n  BY <1>1, <4>2, <4>3
      <4> QED  BY <1>1, <3>1, <4>1, <4>4
    <3>6. Waiting(p)  BY <1>7, <3>3
    <3> QED  BY <1>1, <3>1, <3>4, <3>5, <3>6 DEF Current
  <2> QED  BY <2>1, <2>2
<1>10. Level(f, st, c, d, m, q) => Level(f, st, c, d, m, p)
  BY <1>1, <1>3 DEF Level, n
<1>11. ASSUME Moved(f, st, c, d, m, q), q[k].stage = "ok" => ~q[k].latest
       PROVE  Moved(f, st, c, d, m, p)
  <2>1. Waiting(q) /\ (q[n].stage = "ok" \/ Skipping(q[n])) => k < n
    <3> SUFFICES ASSUME Waiting(q), q[n].stage = "ok" \/ Skipping(q[n]), k = n
                 PROVE  FALSE
      BY <1>1
    <3> QED  BY <1>2, <1>11 DEF Waiting, Skipping, n
  <2>2. \A j \in 0 .. n, i \in 0 .. n - 1 :
          Repaired(f, q, j) /\ ((j = i /\ i = 0) \/ (i \in 1 .. n - 1 /\ j = Old(i)))
            => Repaired(f, p, i)
    <3> SUFFICES ASSUME NEW j \in 0 .. n, NEW i \in 0 .. n - 1, Repaired(f, q, j),
                        (j = i /\ i = 0) \/ (i \in 1 .. n - 1 /\ j = Old(i))
                 PROVE  Repaired(f, p, i)
      OBVIOUS
    <3>1. CASE \E l \in 1 .. n : /\ l > j /\ q[l].stage = "naming"
                                 /\ q[l].body.rules = f.rules
      <4>1. PICK l \in 1 .. n : /\ l > j /\ q[l].stage = "naming"
                                /\ q[l].body.rules = f.rules
        BY <3>1
      <4>2. l # k  BY <1>2, <4>1
      <4>3. New(l) \in 1 .. n - 1 /\ p[New(l)] = q[l]  BY <1>4, <4>2
      <4>4. New(l) > i  BY <1>1, <1>3, <4>1, <4>2 DEF Old
      <4> HIDE DEF New
      <4> QED  BY <1>1, <4>1, <4>3, <4>4 DEF Repaired
    <3>2. CASE Waiting(q) /\ n > j /\ (q[n].stage = "ok" \/ Skipping(q[n]))
      <4>1. k < n  BY <2>1, <3>2
      <4>2. n - 1 \in 1 .. n - 1 /\ p[n - 1] = q[n]  BY <1>5, <4>1
      <4>3. n - 1 > i  BY <1>1, <1>3, <3>2, <4>1 DEF Old
      <4> QED  BY <1>1, <1>7, <3>2, <4>1, <4>2, <4>3 DEF Repaired
    <3> QED  BY <3>1, <3>2 DEF Repaired, n
  <2>3. ASSUME NEW j \in 1 .. n - 1
        PROVE  /\ p[j].latest \/ p[j].stage \in NamingStages => Bearing(p[j])
               /\ Bearing(p[j]) => p[j].names = NamesOf(p[j].body.rules)
               /\ ~Bearing(p[j]) /\ p[j].stage = "sent" =>
                    \A i \in 1 .. j : p[i].stage = "sent" => p[i].body.rules = f.rules
               /\ p[j].stage = "naming" =>
                    p[j].body.rules = f.rules \/ Repaired(f, p, j)
    <3>1. Old(j) \in 1 .. n /\ p[j] = q[Old(j)]  BY <1>1, <1>3
    <3>2. /\ q[Old(j)].latest \/ q[Old(j)].stage \in NamingStages
               => Bearing(q[Old(j)])
          /\ Bearing(q[Old(j)]) => q[Old(j)].names = NamesOf(q[Old(j)].body.rules)
          /\ ~Bearing(q[Old(j)]) /\ q[Old(j)].stage = "sent" =>
               \A i \in 1 .. Old(j) : q[i].stage = "sent" => q[i].body.rules = f.rules
          /\ q[Old(j)].stage = "naming" =>
               q[Old(j)].body.rules = f.rules \/ Repaired(f, q, Old(j))
      <4> HIDE DEF Bearing, Repaired
      <4> QED  BY <1>11, <3>1 DEF Moved, n
    <3>3. \A i \in 1 .. j : /\ Old(i) \in 1 .. Old(j) /\ p[i] = q[Old(i)]
      <4> TAKE i \in 1 .. j
      <4>1. i \in 1 .. n - 1 /\ (i = j \/ i < j)  BY <1>1
      <4> QED  BY <1>1, <1>3, <3>1, <4>1
    <3>4. Repaired(f, q, Old(j)) => Repaired(f, p, j)
      <4>1. Old(j) \in 0 .. n /\ j \in 0 .. n - 1  BY <1>1, <3>1
      <4> QED  BY <2>2, <4>1
    <3> HIDE DEF Bearing, Repaired
    <3> QED  BY <3>1, <3>2, <3>3, <3>4
  <2>4. Waiting(p) /\ p[n - 1].stage = "ok" => p[n - 1].body.rules = f.rules
    <3>1. Waiting(q) /\ q[n].stage = "ok" => q[n].body.rules = f.rules
      BY <1>11 DEF Moved, n
    <3> QED  BY <1>5, <1>7, <3>1
  <2>5. Exact(f, st) \/ Repaired(f, p, 0)
    <3>1. 0 \in 0 .. n /\ 0 \in 0 .. n - 1  BY <1>1
    <3>2. Exact(f, st) \/ Repaired(f, q, 0)  BY <1>11 DEF Moved
    <3> HIDE DEF Exact, Repaired
    <3> QED  BY <2>2, <3>1, <3>2
  <2>6. Screen(c, d, m, p)
    <3>1. Screen(c, d, m, q)  BY <1>11 DEF Moved
    <3>2. CASE k < n
      <4>1. Unanswered(p) <=> Unanswered(q)
        <5> HIDE DEF NamingStages
        <5> QED  BY <1>1, <1>5, <1>7, <3>2 DEF Unanswered, n
      <4> HIDE DEF Unanswered, Beside
      <4> QED  BY <1>1, <1>5, <3>1, <3>2, <4>1 DEF Screen, n
    <3>3. CASE k = n
      <4>1. ~Unanswered(p)  BY <1>1, <1>7, <3>3 DEF Unanswered
      <4>2. Beside(c, d, m)
        <5>1. CASE ~Unanswered(q)  BY <3>1, <5>1 DEF Screen
        <5>2. CASE Unanswered(q)
          <6>1. q[n].latest /\ q[n].stage \notin NamingStages
            BY <5>2 DEF Unanswered, Waiting, n
          <6>2. q[n].stage \in {"rolled_back", "error"}
            BY <1>11, <3>3, <6>1 DEF Answered, NamingStages
          <6>3. n \in 1 .. n  BY <1>1, <3>3
          <6>4. ~q[n].skips  BY <6>2, <6>3 DEF Ordered, n
          <6> QED  BY <3>1, <5>2, <6>4 DEF Screen, Beside, n
        <5> QED  BY <5>1, <5>2
      <4> QED  BY <4>1, <4>2 DEF Screen
    <3> QED  BY <1>1, <3>2, <3>3
  <2> HIDE DEF Bearing, Repaired, Screen
  <2> QED  BY <1>1, <2>3, <2>4, <2>5, <2>6 DEF Moved
<1> QED  BY <1>8, <1>9, <1>10, <1>11

-----------------------------------------------------------------------------
(* The names on the screen. *)

\* The names on the screen belong to the rules on the screen.
LEMMA ShownNames ==
    ASSUME SectionsInv, RequestsInv, draft # NULL,
           \/ Level(file, stored, cache, draft.rules, Metadata, requests)
           \/ Moved(file, stored, cache, draft.rules, Metadata, requests) /\ ~Misled
    PROVE  /\ alignedMetadata(draft.rules) = NamesOf(Seen)
           /\ Metadata = NamesOf(Seen)
           /\ Level(file, stored, cache, draft.rules, Metadata, requests)
                => Seen = cache.rules
<1> DEFINE d == draft.rules
           q == requests
           aligned == alignedMetadata(d)
<1>1. IdsOf(Seen) = IdsOf(d)  BY EditorTyped
<1>2. DOMAIN q = 1 .. Len(q) /\ Len(q) \in Nat  BY DEF RequestsInv
<1>3. ASSUME NEW r, IdsOf(r) = IdsOf(d), Metadata = NamesOf(r)
      PROVE  aligned = NamesOf(r) /\ Metadata = NamesOf(r)
  <2>1. DOMAIN r = DOMAIN d
    <3>1. DOMAIN IdsOf(r) = DOMAIN r /\ DOMAIN IdsOf(d) = DOMAIN d  BY DEF IdsOf
    <3> QED  BY <1>3, <3>1
  <2>2. aligned = [i \in DOMAIN d |-> IF i \in DOMAIN Metadata THEN Metadata[i]
                                      ELSE NoName]
    BY DEF alignedMetadata, Metadata
  <2> HIDE DEF d, aligned
  <2> QED  BY <1>3, <2>1, <2>2 DEF NamesOf
<1>4. Seen = IF IdsOf(d) = IdsOf(cache.rules) /\ aligned = NamesOf(cache.rules)
               THEN cache.rules ELSE d
  BY DEF Seen
<1>5. ASSUME Level(file, stored, cache, d, Metadata, q)
      PROVE  aligned = NamesOf(Seen) /\ Metadata = aligned /\ Seen = cache.rules
  <2>1. Metadata = NamesOf(cache.rules) /\ IdsOf(cache.rules) = IdsOf(d)
    BY <1>5 DEF Level
  <2>2. aligned = NamesOf(cache.rules)  BY <1>3, <2>1
  <2>3. Seen = cache.rules  BY <1>4, <2>1, <2>2
  <2> HIDE DEF aligned, d
  <2> QED  BY <2>1, <2>2, <2>3
<1>6. CASE Moved(file, stored, cache, d, Metadata, q) /\ ~Misled
  <2>1. Screen(cache, d, Metadata, q)  BY <1>6 DEF Moved
  <2>2. ASSUME Beside(cache, d, Metadata)
        PROVE  aligned = NamesOf(Seen) /\ Metadata = aligned
    <3>1. CASE Metadata = NamesOf(d)
      <4>1. aligned = NamesOf(d)  BY <1>3, <3>1
      <4> HIDE DEF aligned, d
      <4> QED  BY <1>4, <3>1, <4>1
    <3>2. CASE Metadata = NamesOf(cache.rules) /\ IdsOf(d) = IdsOf(cache.rules)
      <4>1. aligned = NamesOf(cache.rules)  BY <1>3, <3>2
      <4> HIDE DEF aligned, d
      <4> QED  BY <1>4, <3>2, <4>1
    <3> QED  BY <2>2, <3>1, <3>2 DEF Beside
  <2>3. ASSUME ~Unanswered(q) PROVE aligned = NamesOf(Seen) /\ Metadata = aligned
    <3>1. Beside(cache, d, Metadata)
      <4> HIDE DEF d, q
      <4> QED  BY <2>1, <2>3 DEF Screen
    <3> QED  BY <2>2, <3>1
  <2>4. ASSUME Unanswered(q) PROVE aligned = NamesOf(Seen) /\ Metadata = aligned
    <3>1. Len(q) \in DOMAIN q /\ q[Len(q)].latest
      BY <1>2, <2>4 DEF Unanswered, Waiting
    <3>2. q[Len(q)].kind = "rules"  BY <1>2, <1>6, <3>1 DEF Moved, Bearing
    <3>3. q[Len(q)].body.rules = Seen
      <4> HIDE DEF d, aligned
      <4> QED  BY <1>6, <3>1, <3>2 DEF Misled
    <3>4. Metadata = NamesOf(q[Len(q)].body.rules)
      <4> HIDE DEF d, q
      <4> QED  BY <2>1, <2>4 DEF Screen
    <3>5. Metadata = NamesOf(Seen)  BY <3>3, <3>4
    <3> QED  BY <1>1, <1>3, <3>5
  <2>5. Level(file, stored, cache, d, Metadata, q) => Seen = cache.rules
    <3> SUFFICES ASSUME Level(file, stored, cache, d, Metadata, q)
                 PROVE  Seen = cache.rules
      OBVIOUS
    <3> QED  BY <1>5
  <2> QED  BY <2>3, <2>4, <2>5
<1> QED  BY <1>5, <1>6

\* With nothing in flight the cache has the file and the names are stored;
\* what is on the screen may still be what a failed save has left there.
LEMMA Quiet ==
    ASSUME SectionsInv, RequestsInv, draft # NULL, requests = <<>>, NEW edited,
           Together(file, stored, cache, draft.rules, Metadata, edited, requests)
    PROVE  /\ cache = file /\ Exact(file, stored)
           /\ alignedMetadata(draft.rules) = NamesOf(Seen)
           /\ Ordered(requests) /\ Current(file, cache, requests)
           /\ Seen = cache.rules =>
                Level(file, stored, cache, draft.rules, Metadata, requests)
<1> DEFINE d == draft.rules
<1>1. Len(requests) = 0 /\ \A k : k \notin 1 .. Len(requests)  OBVIOUS
<1>2. /\ ~Waiting(requests) /\ ~Unanswered(requests)
      /\ \A i : ~Repaired(file, requests, i)
  BY <1>1 DEF Waiting, Unanswered, Repaired
<1>3. ~Misled  BY DEF Misled
<1>4. /\ Ordered(requests) /\ Current(file, cache, requests)
      /\ \/ Level(file, stored, cache, d, Metadata, requests)
         \/ Moved(file, stored, cache, d, Metadata, requests)
  BY <1>1 DEF Together, Installing
<1>5. cache = file  BY <1>2, <1>4 DEF Current
<1>6. Exact(file, stored)  BY <1>2, <1>4 DEF Level, Moved
<1>7. alignedMetadata(d) = NamesOf(Seen)  BY <1>3, <1>4, ShownNames
<1>8. ASSUME Seen = cache.rules
      PROVE  Level(file, stored, cache, d, Metadata, requests)
  <2>1. IdsOf(Seen) = IdsOf(d)  BY EditorTyped
  <2>2. CASE Moved(file, stored, cache, d, Metadata, requests)
    <3>1. Beside(cache, d, Metadata)  BY <1>2, <2>2 DEF Moved, Screen
    <3>2. Metadata = NamesOf(cache.rules)
      <4>1. CASE Metadata = NamesOf(d)
        <5>1. alignedMetadata(d) = NamesOf(d)
          BY <4>1 DEF alignedMetadata, Metadata, NamesOf
        <5> QED  BY <1>7, <1>8, <4>1, <5>1
      <4> QED  BY <3>1, <4>1 DEF Beside
    <3> QED  BY <1>1, <1>5, <1>6, <1>8, <2>1, <3>2 DEF Level
  <2> QED  BY <1>4, <2>2
<1> QED  BY <1>4, <1>5, <1>6, <1>7, <1>8

\* What the daemon lists are the names it has stored.
LEMMA ListedNames ==
    ASSUME SectionsInv, Exact(file, stored)
    PROVE  Listed = NamesOf(file.rules)
<1> DEFINE ids == IdsOf(file.rules)
           ns == NamesOf(file.rules)
           T == Id \cup {DefaultRule}
<1>1. ids \in Seq(T) /\ Len(ids) = Len(file.rules) /\ Len(file.rules) \in Nat
  <2> HIDE DEF Saved
  <2> QED  BY FileIds DEF SectionsInv
<1>2. DOMAIN file.rules = 1 .. Len(ids)
  <2>1. DOMAIN ids = DOMAIN file.rules /\ DOMAIN ids = 1 .. Len(ids)
    BY <1>1 DEF IdsOf
  <2> QED  BY <2>1
<1>3. ns = [i \in 1 .. Len(ids) |-> ns[i]]  BY <1>2 DEF NamesOf
<1> HIDE DEF ids, ns, T
<1>4. List(Save(ids, ns), ids) =
        [i \in 1 .. Len(ids) |-> IF i <= Len(ids) THEN ns[i] ELSE NoName]
  BY <1>1, ListReads DEF Prolongs
<1>5. List(Save(ids, ns), ids) = [i \in 1 .. Len(ids) |-> ns[i]]
  BY <1>4
<1> QED  BY <1>3, <1>5 DEF Listed, Exact, ids, ns

LEMMA AtRestages ==
    ASSUME RequestsInv, NEW k \in DOMAIN requests, NEW s
    PROVE  /\ Restaged(requests, At(k, s), k, s)
           /\ k \in 1 .. Len(requests) /\ Len(requests) \in Nat
<1> DEFINE n == Len(requests)
           R == RequestOf(Saved)
<1>1. requests \in Seq(R) /\ n \in Nat /\ DOMAIN requests = 1 .. n
  BY DEF RequestsInv
<1>2. \A j \in 1 .. n : requests[j] \in R
  <2> HIDE DEF R
  <2> QED  BY <1>1, ElementOfSeq
<1>3. \A j \in 1 .. n :
        requests[j] = [kind |-> requests[j].kind, body |-> requests[j].body,
                       names |-> requests[j].names, here |-> requests[j].here,
                       latest |-> requests[j].latest, skips |-> requests[j].skips,
                       stage |-> requests[j].stage]
  <2> TAKE j \in 1 .. n
  <2> DEFINE r == requests[j]
  <2>1. r \in R  BY <1>2
  <2> HIDE DEF r, Saved
  <2> DEFINE B == SectionOf(Saved, SolidItem)
  <2>2. r \in [kind : {"rules", "global", "install"},
            body : B, names : NameList \cup {NULL},
            here : BOOLEAN, latest : BOOLEAN, skips : BOOLEAN,
            stage : Answered \cup {"sent", "second", "naming", "named",
                                   "unnamed", "listing"}]
    BY <2>1 DEF RequestOf
  <2> HIDE DEF B
  <2>3. r = [kind |-> r.kind, body |-> r.body, names |-> r.names, here |-> r.here,
             latest |-> r.latest, skips |-> r.skips, stage |-> r.stage]
    BY <2>2
  <2> QED  BY <2>3 DEF r
<1>4. At(k, s) = [j \in 1 .. n |-> IF j = k THEN [requests[j] EXCEPT !.stage = s]
                                   ELSE requests[j]]
  BY <1>1 DEF At
<1>5. Len(At(k, s)) = n
  <2> HIDE DEF n
  <2> QED  BY <1>1, <1>4
<1>6. k \in 1 .. n  BY <1>1
<1> HIDE DEF n, R
<1>7. ASSUME NEW j \in 1 .. n
      PROVE  /\ At(k, s)[j].kind = requests[j].kind
             /\ At(k, s)[j].body = requests[j].body
             /\ At(k, s)[j].names = requests[j].names
             /\ At(k, s)[j].here = requests[j].here
             /\ At(k, s)[j].latest = requests[j].latest
             /\ At(k, s)[j].skips = requests[j].skips
             /\ At(k, s)[j].stage = IF j = k THEN s ELSE requests[j].stage
  <2> DEFINE r == requests[j]
  <2>1. r = [kind |-> r.kind, body |-> r.body, names |-> r.names, here |-> r.here,
             latest |-> r.latest, skips |-> r.skips, stage |-> r.stage]
    BY <1>3
  <2>2. At(k, s)[j] = IF j = k THEN [r EXCEPT !.stage = s] ELSE r
    BY <1>4
  <2> HIDE DEF r
  <2>3. [r EXCEPT !.stage = s] =
          [kind |-> r.kind, body |-> r.body, names |-> r.names, here |-> r.here,
           latest |-> r.latest, skips |-> r.skips, stage |-> s]
    BY <2>1
  <2> QED  BY <2>2, <2>3 DEF r
<1> QED  BY <1>1, <1>5, <1>6, <1>7 DEF Restaged, n

LEMMA DropDrops ==
    ASSUME RequestsInv, NEW k \in DOMAIN requests
    PROVE  Dropped(requests, Drop(k), k)
<1> DEFINE R == RequestOf(Saved)
<1>1. requests \in Seq(R)  BY DEF RequestsInv
<1> HIDE DEF R
<1>2. Len(RemoveAt(requests, k)) = Len(requests) - 1  BY <1>1, RemoveTyped
<1>3. \A j \in 1 .. Len(requests) - 1 :
        RemoveAt(requests, k)[j] = IF j < k THEN requests[j] ELSE requests[j + 1]
  BY <1>1, RemoveReads
<1> QED  BY <1>2, <1>3 DEF Dropped, Drop

\* The last request is the one that was sent.
Newest(p) == p[Len(p)]

LEMMA SendAdds ==
    ASSUME RequestsInv, Ordered(requests), NEW kind \in {"rules", "global"},
           NEW body, NEW ns, kind = "rules" => ns # NULL, Send(kind, body, ns)
    PROVE  /\ Added(requests, requests') /\ Len(requests) \in Nat
           /\ Newest(requests').kind = kind /\ Newest(requests').body = body
           /\ Newest(requests').names = ns
<1> DEFINE n == Len(requests)
           S == \E k \in DOMAIN requests : Pending(requests[k])
           old == [k \in DOMAIN requests |->
                     IF requests[k].kind = "install" THEN requests[k]
                     ELSE [requests[k] EXCEPT !.latest = FALSE]]
           r == [kind |-> kind, body |-> body, names |-> ns, here |-> TRUE,
                 latest |-> TRUE, skips |-> S, stage |-> "sent"]
<1>1. n \in Nat /\ DOMAIN requests = 1 .. n  BY DEF RequestsInv
<1>2. requests' = Append(old, r)  BY DEF Send
<1>3. S <=> \E k \in 1 .. n : Pending(requests[k])  BY <1>1
<1>4. /\ r.kind = kind /\ r.body = body /\ r.names = ns /\ r.latest
      /\ r.stage = "sent" /\ (r.skips <=> S)
  <2> HIDE DEF S
  <2> QED  OBVIOUS
<1>5. ASSUME NEW j \in 1 .. n
      PROVE  /\ old[j].kind = requests[j].kind /\ old[j].body = requests[j].body
             /\ old[j].names = requests[j].names
             /\ old[j].skips = requests[j].skips
             /\ old[j].stage = requests[j].stage /\ ~old[j].latest
  <2> DEFINE q == requests[j]
             R == RequestOf(Saved)
             B == SectionOf(Saved, SolidItem)
  <2>1. q \in R
    <3> HIDE DEF R
    <3> QED  BY <1>1, ElementOfSeq DEF RequestsInv, R
  <2>2. q.kind # "install"  BY DEF Ordered
  <2>3. old[j] = [q EXCEPT !.latest = FALSE]  BY <1>1, <2>2
  <2> HIDE DEF q, Saved
  <2>4. q \in [kind : {"rules", "global", "install"},
            body : B, names : NameList \cup {NULL},
            here : BOOLEAN, latest : BOOLEAN, skips : BOOLEAN,
            stage : Answered \cup {"sent", "second", "naming", "named",
                                   "unnamed", "listing"}]
    BY <2>1 DEF RequestOf
  <2> HIDE DEF B, R, old
  <2> QED  BY <2>3, <2>4 DEF q
<1>6. DOMAIN old = 1 .. n  BY <1>1
<1> HIDE DEF r, S, old, n
<1>7. Len(old) = n  BY <1>1, <1>6
<1>8. Len(Append(old, r)) = n + 1 /\ Append(old, r)[n + 1] = r
      /\ \A j \in 1 .. n : Append(old, r)[j] = old[j]
  BY <1>1, <1>6, <1>7 DEF old
<1>9. /\ Len(requests') = n + 1 /\ requests'[n + 1] = r
      /\ \A j \in 1 .. n : requests'[j] = old[j]
  BY <1>2, <1>8
<1>10. Added(requests, requests')
  BY <1>1, <1>3, <1>4, <1>5, <1>9 DEF Added, n
<1> QED  BY <1>1, <1>4, <1>9, <1>10 DEF Newest, n

-----------------------------------------------------------------------------
(* The steps keep the names with their rules. *)

\* What leaves the lists, the names and the requests alone.
LEMMA NothingMoves ==
    ASSUME Follows, draft' # NULL, draft'.rules = draft.rules,
           UNCHANGED <<file, stored, cache, names, nameDraft, requests>>
    PROVE  Follows'
BY DEF Follows, Metadata

\* A refetch, by itself or after an answer.
LEMMA RefreshFollows ==
    ASSUME SectionsInv, RequestsInv, Follows, Refresh, page = "route", ~stray',
           UNCHANGED <<file, stored>>
    PROVE  /\ draft' # NULL /\ cache' = file
           /\ Together(file, stored, file, draft'.rules, Metadata,
                       nameDraft # NULL, requests)
<1> DEFINE e == draft'.rules
<1>1. cache' = file
      /\ \/ draft' = draft /\ JSON(file) = JSON(cache)
         \/ draft' = file /\ JSON(file) # JSON(cache)
         \/ draft' = file /\ (nameDraft # NULL => Seen = file.rules)
  BY DEF Refresh, Remount
<1>2. file # NULL  BY Objects
<1>3. draft # NULL
      /\ Together(file, stored, cache, draft.rules, Metadata, nameDraft # NULL,
                  requests)
  BY DEF Follows
<1>4. JSON(file) = JSON(cache) => IdsOf(file.rules) = IdsOf(cache.rules)
  <2> HIDE DEF Saved
  <2>1. /\ file = [globals |-> file.globals, sets |-> file.sets, rules |-> file.rules]
        /\ cache = [globals |-> cache.globals, sets |-> cache.sets,
                    rules |-> cache.rules]
    BY DEF SectionsInv, SectionOf
  <2>2. JSON(file).rules = IdsOf(file.rules) /\ JSON(cache).rules = IdsOf(cache.rules)
    BY <2>1 DEF JSON
  <2> QED  BY <2>2
<1>5. Len(requests) \in Nat  BY DEF RequestsInv
<1>7. Together(file, stored, file, e, Metadata, nameDraft # NULL, requests)
  <2>1. CASE draft' = file /\ (nameDraft # NULL => Seen = file.rules)
    BY <1>3, <2>1, EditorReplaced
  <2>2. CASE \/ draft' = draft /\ JSON(file) = JSON(cache)
             \/ draft' = file /\ JSON(file) # JSON(cache)
    <3>1. /\ e = file.rules
             \/ (e = draft.rules /\ IdsOf(file.rules) = IdsOf(cache.rules))
          /\ cache = file => e = draft.rules
      BY <1>4, <2>2
    <3> HIDE DEF e
    <3> QED  BY <1>3, <1>5, <3>1, CacheMoves
  <2> QED  BY <1>1, <2>1, <2>2
<1> HIDE DEF e
<1> QED  BY <1>1, <1>2, <1>3, <1>7 DEF e

LEMMA RefetchFollows ==
    ASSUME IInv, Follows, page = "route", ~stray', Refetch PROVE Follows'
<1>1. Refresh /\ UNCHANGED <<file, stored, names, nameDraft, requests>>
  BY DEF Refetch, server
<1>2. /\ draft' # NULL /\ cache' = file
      /\ Together(file, stored, file, draft'.rules, Metadata, nameDraft # NULL,
                  requests)
  BY <1>1, RefreshFollows DEF IInv
<1> QED  BY <1>1, <1>2 DEF Follows, Metadata

\* The page is opened again with nothing in flight.
LEMMA ReopenFollows ==
    ASSUME IInv, Follows, page = "route", ~stray', Reopen PROVE Follows'
<1>1. /\ draft' = cache /\ nameDraft' = NULL
      /\ requests = <<>> /\ names = NamesOf(cache.rules)
      /\ UNCHANGED <<file, stored, cache, names>>
  BY DEF Reopen, StaleNames, server
<1>2. requests' = <<>>
  <2>1. requests' = [k \in DOMAIN requests |->
                       [requests[k] EXCEPT !.here = FALSE, !.latest = FALSE]]
    BY DEF Reopen
  <2> QED  BY <1>1, <2>1
<1>3. SectionsInv /\ RequestsInv /\ draft # NULL
      /\ Together(file, stored, cache, draft.rules, Metadata, nameDraft # NULL,
                  requests)
  BY DEF IInv, Follows
<1>4. /\ cache = file /\ Exact(file, stored)
      /\ Ordered(requests) /\ Current(file, cache, requests)
  BY <1>1, <1>3, Quiet
<1>5. Level(file, stored, cache, cache.rules, names, requests)
  <2>1. \A k : k \notin 1 .. Len(requests)  BY <1>1
  <2> QED  BY <1>1, <1>4, <2>1 DEF Level
<1>6. cache # NULL  BY <1>3, Objects
<1>7. Together(file, stored, cache, cache.rules, names, FALSE, requests)
  BY <1>4, <1>5 DEF Together
<1> QED  BY <1>1, <1>2, <1>6, <1>7 DEF Follows, Metadata

\* The defaults are installed when nothing else is in flight.
LEMMA InstallFollows ==
    ASSUME IInv, Follows, page = "route", ~stray', Install PROVE Follows'
<1> DEFINE r == [kind |-> "install", body |-> cache, names |-> NULL,
                 here |-> TRUE, latest |-> TRUE, skips |-> FALSE, stage |-> "sent"]
<1>1. /\ requests = <<>> /\ Seen = cache.rules
      /\ requests' = Append(requests, r)
      /\ UNCHANGED <<file, stored, cache, names, draft, nameDraft>>
  BY DEF Install, Crossed, server, client
<1>2. Len(requests') = 1 /\ requests'[1] = r
  <2> HIDE DEF r
  <2> QED  BY <1>1
<1>3. SectionsInv /\ RequestsInv /\ draft # NULL
      /\ Together(file, stored, cache, draft.rules, Metadata, nameDraft # NULL,
                  requests)
  BY DEF IInv, Follows
<1>4. cache = file /\ Exact(file, stored)
      /\ Level(file, stored, cache, draft.rules, Metadata, requests)
  BY <1>1, <1>3, Quiet
<1>5. Installing(file, stored, cache, draft.rules, Metadata, requests')
  BY <1>2, <1>4 DEF Installing, Level
<1> QED  BY <1>1, <1>3, <1>5 DEF Follows, Metadata, Together

\* The names are listed again.
LEMMA RefetchNamesFollows ==
    ASSUME IInv, Follows, page = "route", RefetchNames PROVE Follows'
<1>1. /\ names' = Listed
      /\ UNCHANGED <<file, stored, cache, draft, nameDraft, requests>>
  BY DEF RefetchNames, server
<1> DEFINE T(m) == Together(file, stored, cache, draft.rules, m, nameDraft # NULL,
                            requests)
<1>2. SectionsInv /\ draft # NULL /\ T(Metadata)  BY DEF IInv, Follows
<1>3. Exact(file, stored) => Listed = NamesOf(file.rules)  BY <1>2, ListedNames
<1>4. Metadata' = IF nameDraft # NULL THEN Metadata ELSE Listed
  BY <1>1 DEF Metadata
<1>5. T(Metadata')
  <2>1. CASE nameDraft # NULL  BY <1>2, <1>4, <2>1
  <2>2. CASE nameDraft = NULL
    <3>1. CASE Installing(file, stored, cache, draft.rules, Metadata, requests)
      <4>1. Metadata' = NamesOf(file.rules)
        BY <1>3, <1>4, <2>2, <3>1 DEF Installing
      <4>2. Installing(file, stored, cache, draft.rules, Metadata', requests)
        BY <3>1, <4>1 DEF Installing
      <4> QED  BY <4>2 DEF Together
    <3>2. CASE /\ Ordered(requests) /\ Current(file, cache, requests)
               /\ Level(file, stored, cache, draft.rules, Metadata, requests)
      <4>1. Metadata' = Metadata  BY <1>3, <1>4, <2>2, <3>2 DEF Level
      <4> QED  BY <1>2, <4>1
    <3> QED  BY <1>2, <2>2, <3>1, <3>2 DEF Together
  <2> QED  BY <2>1, <2>2
<1> QED  BY <1>1, <1>2, <1>5 DEF Follows

\* The names in flight belong to saves of their rules.
LEMMA Kinds ==
    ASSUME RequestsInv, Follows, NEW k \in DOMAIN requests
    PROVE  /\ k \in 1 .. Len(requests) /\ Len(requests) \in Nat
           /\ requests[k].kind = "install" =>
                /\ k = 1
                /\ Installing(file, stored, cache, draft.rules, Metadata, requests)
           /\ requests[k].kind # "install" =>
                /\ Ordered(requests) /\ Current(file, cache, requests)
                /\ \/ Level(file, stored, cache, draft.rules, Metadata, requests)
                   \/ /\ nameDraft # NULL
                      /\ Moved(file, stored, cache, draft.rules, Metadata, requests)
<1>1. k \in 1 .. Len(requests) /\ Len(requests) \in Nat  BY DEF RequestsInv
<1>2. CASE Installing(file, stored, cache, draft.rules, Metadata, requests)
  <2>1. k = 1 /\ requests[k].kind = "install"  BY <1>1, <1>2 DEF Installing
  <2> QED  BY <1>1, <1>2, <2>1
<1>3. CASE /\ Ordered(requests) /\ Current(file, cache, requests)
           /\ \/ Level(file, stored, cache, draft.rules, Metadata, requests)
              \/ /\ nameDraft # NULL
                 /\ Moved(file, stored, cache, draft.rules, Metadata, requests)
  <2>1. requests[k].kind # "install"  BY <1>1, <1>3 DEF Ordered
  <2> QED  BY <1>1, <1>3, <2>1
<1> QED  BY <1>2, <1>3 DEF Follows, Together

LEMMA AnswerFollows ==
    ASSUME IInv, Follows, page = "route", ~stray', NEW k \in DOMAIN requests,
           Answer(k)
    PROVE  Follows'
<1> DEFINE r == requests[k]
           follow == /\ r.latest /\ r.stage = "ok" /\ r.names \notin {NULL, <<>>}
           c == cache'
           d == draft'.rules
<1>1. /\ r.kind # "install" /\ r.stage \in Answered
      /\ \/ r.stage \in {"ok", "rolled_back"} /\ Refresh
         \/ r.stage = "error" /\ cache' = cache /\ draft' = draft
      /\ requests' = IF follow THEN At(k, "naming") ELSE Drop(k)
      /\ UNCHANGED <<file, stored, names, nameDraft>>
  BY DEF Answer, server, Answered
<1>2. SectionsInv /\ RequestsInv  BY DEF IInv
<1>3. /\ k \in 1 .. Len(requests) /\ Len(requests) \in Nat /\ Ordered(requests)
  BY <1>1, <1>2, Kinds
<1>4. /\ draft' # NULL /\ (r.stage = "ok" => c = file)
      /\ Together(file, stored, c, d, Metadata, nameDraft # NULL, requests)
  <2>1. CASE Refresh  BY <1>1, <1>2, <2>1, RefreshFollows
  <2>2. CASE r.stage = "error" /\ cache' = cache /\ draft' = draft
    BY <2>2 DEF Follows
  <2> QED  BY <1>1, <2>1, <2>2
<1> HIDE DEF c, d
<1>5. /\ Current(file, c, requests)
      /\ \/ Level(file, stored, c, d, Metadata, requests)
         \/ /\ nameDraft # NULL
            /\ Moved(file, stored, c, d, Metadata, requests)
  <2>1. ~Installing(file, stored, c, d, Metadata, requests)
    BY <1>1, <1>3 DEF Installing
  <2> QED  BY <1>4, <2>1 DEF Together
<1>6. Together(file, stored, c, d, Metadata, nameDraft # NULL, requests')
  <2>1. CASE follow
    <3>1. Restaged(requests, requests', k, "naming")
      <4>1. requests' = At(k, "naming")  BY <1>1, <2>1
      <4> QED  BY <1>2, <4>1, AtRestages
    <3>2. c = file  BY <1>4, <2>1
    <3> HIDE DEF r
    <3>3. /\ Ordered(requests') /\ Current(file, file, requests')
          /\ Level(file, stored, file, d, Metadata, requests)
               => Level(file, stored, file, d, Metadata, requests')
          /\ Moved(file, stored, file, d, Metadata, requests)
               => Moved(file, stored, file, d, Metadata, requests')
      BY <1>3, <2>1, <3>1, NamesLeave DEF r
    <3> QED  BY <1>5, <3>2, <3>3 DEF Together
  <2>2. CASE ~follow
    <3>1. Dropped(requests, requests', k)
      <4>1. requests' = Drop(k)  BY <1>1, <2>2
      <4> QED  BY <1>2, <4>1, DropDrops
    <3>2. r.stage \in Answered \cup {"named", "unnamed"}  BY <1>1
    <3> HIDE DEF r, follow
    <3>3. /\ Ordered(requests') /\ Current(file, c, requests')
          /\ Level(file, stored, c, d, Metadata, requests)
               => Level(file, stored, c, d, Metadata, requests')
          /\ Moved(file, stored, c, d, Metadata, requests)
               /\ (r.stage = "ok" => ~r.latest)
               => Moved(file, stored, c, d, Metadata, requests')
      BY <1>3, <1>4, <1>5, <3>1, <3>2, RequestLeaves DEF r
    <3>4. ASSUME Moved(file, stored, c, d, Metadata, requests), r.stage = "ok",
                 r.latest
          PROVE  FALSE
      <4>1. Bearing(r)
        <5> HIDE DEF Bearing
        <5> QED  BY <1>3, <3>4 DEF Moved, r
      <4>2. r.names \notin {NULL, <<>>}
        BY <1>3, <4>1 DEF Bearing, Ordered, r
      <4> QED  BY <2>2, <3>4, <4>2 DEF follow
    <3> QED  BY <1>5, <3>3, <3>4 DEF Together
  <2> QED  BY <2>1, <2>2
<1> QED  BY <1>1, <1>4, <1>6 DEF Follows, Metadata, c, d

LEMMA ServeNamesFollows ==
    ASSUME IInv, Follows, page = "route", ~stray', NEW k \in DOMAIN requests,
           NEW works \in BOOLEAN, ServeNames(k, works)
    PROVE  Follows'
<1> DEFINE r == requests[k]
           ids == IdsOf(file.rules)
           s == IF Accepts(ids, r.names) THEN "named" ELSE "unnamed"
           d == draft.rules
           m == Metadata
<1>1. /\ r.stage = "naming"
      /\ stored' = IF Accepts(ids, r.names) THEN Save(ids, r.names) ELSE stored
      /\ requests' = At(k, s)
      /\ \A j \in 1 .. k - 1 : requests[j].stage # "naming"
      /\ UNCHANGED <<file, cache, names, draft, nameDraft>>
  BY DEF ServeNames, client
<1>2. SectionsInv /\ RequestsInv  BY DEF IInv
<1>3. k \in 1 .. Len(requests) /\ Len(requests) \in Nat
  BY <1>2, Kinds
<1>4. draft # NULL
      /\ Together(file, stored, cache, d, m, nameDraft # NULL, requests)
  BY DEF Follows
<1>5. Restaged(requests, requests', k, s)
  <2> HIDE DEF s
  <2> QED  BY <1>1, <1>2, AtRestages
<1>6. Accepts(ids, NamesOf(file.rules))
  <2> HIDE DEF Saved
  <2> QED  BY <1>2, FileIds DEF SectionsInv, Accepts
<1>7. s \in {"named", "unnamed"}  OBVIOUS
<1> HIDE DEF d, m, s
<1>8. /\ stored' = Written(file, stored, requests[k].names)
      /\ requests[k].stage = "naming" /\ Foremost(requests, k, "naming")
  BY <1>1 DEF Written, Foremost
<1>9. Together(file, stored', cache, d, m, nameDraft # NULL, requests')
  <2> HIDE DEF r
  <2> QED  BY <1>3, <1>4, <1>5, <1>6, <1>7, <1>8, NamesWritten
<1> QED  BY <1>1, <1>4, <1>9 DEF Follows, Metadata, d, m

LEMMA AnswerNamesFollows ==
    ASSUME IInv, Follows, page = "route", NEW k \in DOMAIN requests, AnswerNames(k)
    PROVE  Follows'
<1> DEFINE r == requests[k]
           d == draft.rules
           m == Metadata
<1>1. /\ r.stage \in {"named", "unnamed"} /\ requests' = Drop(k)
      /\ \/ /\ r.kind = "global" /\ names' = r.names
            /\ nameDraft' \in {NULL, nameDraft}
         \/ names' = names /\ nameDraft' = nameDraft
      /\ UNCHANGED <<file, stored, cache, draft>>
  BY DEF AnswerNames, server
<1>2. RequestsInv  BY DEF IInv
<1>3. k \in 1 .. Len(requests) /\ Len(requests) \in Nat
  BY <1>2, Kinds
<1>4. /\ Ordered(requests) /\ Current(file, cache, requests)
      /\ \/ Level(file, stored, cache, d, m, requests)
         \/ nameDraft # NULL /\ Moved(file, stored, cache, d, m, requests)
  <2>1. r.kind # "install"
    <3> SUFFICES ASSUME r.kind = "install" PROVE FALSE  OBVIOUS
    <3>1. k = 1 /\ Installing(file, stored, cache, d, m, requests)
      BY <1>2, Kinds
    <3> QED  BY <1>1, <3>1 DEF Installing, Answered
  <2> QED  BY <1>2, <2>1, Kinds
<1>5. Dropped(requests, requests', k)  BY <1>1, <1>2, DropDrops
<1>6. r.stage \in Answered \cup {"named", "unnamed"} /\ r.stage # "ok"
  BY <1>1
<1> HIDE DEF d, m
<1>7. /\ Ordered(requests') /\ Current(file, cache, requests')
      /\ Level(file, stored, cache, d, m, requests)
           => Level(file, stored, cache, d, m, requests')
      /\ Moved(file, stored, cache, d, m, requests)
           => Moved(file, stored, cache, d, m, requests')
  BY <1>3, <1>4, <1>5, <1>6, RequestLeaves
<1>8. "named" \in NamingStages /\ "unnamed" \in NamingStages  BY DEF NamingStages
<1>9. CASE Level(file, stored, cache, d, m, requests)
  <2>1. Metadata' = m
    <3>1. CASE names' = names /\ nameDraft' = nameDraft
      BY <3>1 DEF Metadata, m
    <3>2. CASE names' = r.names /\ nameDraft' \in {NULL, nameDraft}
      <4>1. r.names = NamesOf(file.rules)
        <5>1. r.names \in {NULL, <<>>, NamesOf(file.rules)}
          BY <1>3, <1>9 DEF Level
        <5>2. r.names \notin {NULL, <<>>}
          BY <1>1, <1>3, <1>4, <1>8 DEF Ordered
        <5> QED  BY <5>1, <5>2
      <4>2. m = NamesOf(file.rules)  BY <1>9 DEF Level
      <4> QED  BY <3>2, <4>1, <4>2 DEF Metadata, m
    <3> QED  BY <1>1, <3>1, <3>2
  <2> QED  BY <1>1, <1>7, <1>9, <2>1 DEF Follows, Together, d
<1>10. CASE nameDraft # NULL /\ Moved(file, stored, cache, d, m, requests)
  <2>1. r.kind = "rules"
    <3>1. Bearing(r)
      <4> HIDE DEF Bearing, NamingStages
      <4> QED  BY <1>1, <1>3, <1>8, <1>10 DEF Moved
    <3> QED  BY <3>1 DEF Bearing
  <2>2. names' = names /\ nameDraft' = nameDraft  BY <1>1, <2>1
  <2>3. Metadata' = m  BY <2>2 DEF Metadata, m
  <2> QED  BY <1>1, <1>7, <1>10, <2>2, <2>3 DEF Follows, Together, d
<1> QED  BY <1>4, <1>9, <1>10

\* The installation is answered: a success is followed by a list of names.
LEMMA AnswerInstallFollows ==
    ASSUME IInv, Follows, page = "route", ~stray', NEW k \in DOMAIN requests,
           AnswerInstall(k)
    PROVE  Follows'
<1> DEFINE r == requests[k]
           d == draft.rules
<1>1. /\ r.kind = "install" /\ r.stage \in Answered
      /\ IF r.stage = "ok" THEN Refresh ELSE cache' = cache /\ draft' = draft
      /\ requests' = IF r.stage = "ok" THEN At(k, "listing") ELSE Drop(k)
      /\ UNCHANGED <<file, stored, names, nameDraft>>
  BY DEF AnswerInstall, server
<1>2. SectionsInv /\ RequestsInv /\ draft # NULL  BY DEF IInv, Follows
<1>3. k = 1 /\ Installing(file, stored, cache, d, Metadata, requests)
  BY <1>1, <1>2, Kinds
<1>4. CASE r.stage = "ok"
  <2>1. /\ draft' # NULL /\ cache' = file
        /\ Together(file, stored, file, draft'.rules, Metadata, nameDraft # NULL,
                    requests)
    BY <1>1, <1>2, <1>4, RefreshFollows
  <2>2. Installing(file, stored, file, draft'.rules, Metadata, requests)
    <3>1. ~Ordered(requests)  BY <1>1, <1>3 DEF Ordered, Installing
    <3> QED  BY <2>1, <3>1 DEF Together
  <2>3. Restaged(requests, requests', 1, "listing")
    BY <1>1, <1>2, <1>3, <1>4, AtRestages
  <2> HIDE DEF r
  <2>4. Installing(file, stored, file, draft'.rules, Metadata, requests')
    BY <2>2, <2>3 DEF Installing, Restaged
  <2>5. Together(file, stored, file, draft'.rules, Metadata, nameDraft # NULL,
                 requests')
    BY <2>4 DEF Together
  <2> QED  BY <1>1, <2>1, <2>5 DEF Follows, Metadata
<1>5. CASE r.stage # "ok"
  <2>1. Len(requests') = 0
    <3>1. Dropped(requests, requests', k)  BY <1>1, <1>2, <1>5, DropDrops
    <3> QED  BY <1>3, <3>1 DEF Dropped, Installing
  <2>2. r.stage \in {"rolled_back", "error"}  BY <1>1, <1>5 DEF Answered
  <2>3. /\ cache = file /\ Metadata = NamesOf(file.rules) /\ Exact(file, stored)
        /\ IdsOf(d) = IdsOf(cache.rules)
    BY <1>3, <2>2 DEF Installing
  <2>4. \A j : j \notin 1 .. Len(requests')  BY <2>1
  <2>5. Level(file, stored, cache, d, Metadata, requests')
    BY <2>3, <2>4 DEF Level
  <2>6. Ordered(requests') /\ Current(file, cache, requests')
    BY <2>3, <2>4 DEF Ordered, Current
  <2>7. Together(file, stored, cache, d, Metadata, nameDraft # NULL, requests')
    BY <2>5, <2>6 DEF Together
  <2> QED  BY <1>1, <1>2, <1>5, <2>7 DEF Follows, Metadata
<1> QED  BY <1>4, <1>5

LEMMA RefreshMetadataFollows ==
    ASSUME IInv, Follows, page = "route", ~stray', NEW k \in DOMAIN requests,
           NEW works \in BOOLEAN, refreshMetadata(k, works)
    PROVE  Follows'
<1> DEFINE r == requests[k]
           d == draft.rules
<1>1. /\ r.stage = "listing" /\ names' = Listed
      /\ nameDraft' = IF r.here THEN NULL ELSE nameDraft
      /\ requests' = Drop(k)
      /\ UNCHANGED <<file, stored, cache, draft>>
  BY DEF refreshMetadata, server
<1>2. SectionsInv /\ RequestsInv /\ draft # NULL  BY DEF IInv, Follows
<1>3. k = 1 /\ Installing(file, stored, cache, d, Metadata, requests)
  <2>1. r.kind = "install"
    <3> SUFFICES ASSUME r.kind # "install" PROVE FALSE  OBVIOUS
    <3>1. k \in 1 .. Len(requests) /\ Ordered(requests)  BY <1>2, Kinds
    <3> QED  BY <1>1, <3>1 DEF Ordered
  <2> QED  BY <1>2, <2>1, Kinds
<1>4. /\ cache = file /\ Exact(file, stored) /\ r.here
      /\ IdsOf(d) = IdsOf(cache.rules)
  BY <1>1, <1>3 DEF Installing
<1>5. names' = NamesOf(file.rules) /\ nameDraft' = NULL
  BY <1>1, <1>2, <1>4, ListedNames
<1>6. Len(requests') = 0
  <2>1. Dropped(requests, requests', k)  BY <1>1, <1>2, DropDrops
  <2> QED  BY <1>3, <2>1 DEF Dropped, Installing
<1>7. \A j : j \notin 1 .. Len(requests')  BY <1>6
<1>8. Metadata' = NamesOf(file.rules)  BY <1>5 DEF Metadata
<1>9. Level(file, stored, cache, d, Metadata', requests')
  BY <1>4, <1>7, <1>8 DEF Level
<1>10. Ordered(requests') /\ Current(file, cache, requests')
  BY <1>4, <1>7 DEF Ordered, Current
<1>11. Together(file, stored, cache, d, Metadata', FALSE, requests')
  BY <1>9, <1>10 DEF Together
<1> QED  BY <1>1, <1>2, <1>5, <1>11 DEF Follows

\* What is read off the rules of a file.
LEMMA RulesRead ==
    ASSUME NEW rules \in Seq(FileItem)
    PROVE  /\ IdsOf(rules) \in Seq(Id \cup {DefaultRule})
           /\ Len(IdsOf(rules)) = Len(rules)
           /\ NamesOf(rules) \in Seq(Called)
           /\ Len(NamesOf(rules)) = Len(rules)
  BY ReadTyped DEF FileItem

\* The names that an installation stores are those of the rules it leaves.
LEMMA DefaultsNamed ==
    ASSUME SectionsInv, Exact(file, stored), NEW rules,
           rules = Installed(file.rules, DefaultName)
    PROVE  ApplyDefaultNames(stored, IdsOf(rules)) = Save(IdsOf(rules), NamesOf(rules))
<1> DEFINE l == file.rules
           n == Len(l)
           ids == IdsOf(l)
           ns == NamesOf(l)
           more == IdsOf(rules)
           T == Id \cup {DefaultRule}
           named == [i \in DOMAIN l |->
                       IF l[i].id = DefaultRule /\ l[i].name = NoName
                         THEN [l[i] EXCEPT !.name = DefaultName] ELSE l[i]]
           last == [id |-> DefaultRule, name |-> DefaultName]
           there == \E i \in DOMAIN l : l[i].id = DefaultRule
<1>1. l \in Seq(FileItem) /\ n \in Nat /\ DOMAIN l = 1 .. n
  <2>1. l \in ListOf(FileItem)
    <3> HIDE DEF Saved
    <3> QED  BY DEF SectionsInv, SectionOf
  <2>2. l \in Seq(FileItem)  BY <2>1 DEF ListOf
  <2> HIDE DEF l
  <2> QED  BY <2>2
<1>2. ids \in Seq(T) /\ Len(ids) = n /\ \A i \in 1 .. n : ids[i] = l[i].id
  <2>1. ids \in Seq(T) /\ Len(ids) = n
    <3> HIDE DEF Saved
    <3> QED  BY FileIds DEF SectionsInv
  <2> QED  BY <1>1, <2>1 DEF IdsOf
<1>3. \A i \in 1 .. n : ns[i] = l[i].name  BY <1>1 DEF NamesOf
<1>4. \A i \in 1 .. n : l[i] \in FileItem
  <2> HIDE DEF l
  <2> QED  BY <1>1, ElementOfSeq
<1>5. rules = IF there THEN named ELSE Append(named, last)
  <2>1. Installed(l, DefaultName) = IF there THEN named ELSE Append(l, last)
    BY DEF Installed
  <2>2. ~there => named = l
    <3> SUFFICES ASSUME ~there PROVE named = l  OBVIOUS
    <3>1. \A i \in DOMAIN l : named[i] = l[i]  OBVIOUS
    <3> HIDE DEF l
    <3> QED  BY <1>1, <3>1
  <2> HIDE DEF there, named, l
  <2> QED  BY <2>1, <2>2 DEF l
<1>6. \A i \in 1 .. n :
        /\ named[i] \in FileItem /\ named[i].id = l[i].id
        /\ named[i].name = IF l[i].id = DefaultRule /\ l[i].name = NoName
                             THEN DefaultName ELSE l[i].name
  <2> TAKE i \in 1 .. n
  <2> DEFINE x == l[i]
  <2>1. x \in FileItem /\ DefaultName \in Called  BY <1>4 DEF Called
  <2>2. named[i] = IF x.id = DefaultRule /\ x.name = NoName
                     THEN [x EXCEPT !.name = DefaultName] ELSE x
    BY <1>1
  <2> HIDE DEF x, named
  <2> QED  BY <2>1, <2>2 DEF FileItem, x
<1>7. named \in Seq(FileItem) /\ Len(named) = n
  <2>1. DOMAIN named = 1 .. n  BY <1>1
  <2>2. named \in [1 .. n -> FileItem]
    <3>1. named = [i \in 1 .. n |-> named[i]]  BY <1>1
    <3> HIDE DEF named, n, l
    <3> QED  BY <1>6, <3>1
  <2> HIDE DEF named, n, l
  <2> QED  BY <1>1, <2>1, <2>2
<1>8. last \in FileItem  BY DEF FileItem, Called
<1> HIDE DEF l, n, ids, ns, named, last, T
<1> DEFINE k == IF there THEN n ELSE n + 1
<1>9. /\ rules \in Seq(FileItem) /\ Len(rules) = k /\ k \in Nat /\ DOMAIN rules = 1 .. k
      /\ \A i \in 1 .. n : rules[i] = named[i]
      /\ ~there => rules[n + 1] = last
  <2>1. CASE there
    <3> HIDE DEF there
    <3> QED  BY <1>1, <1>5, <1>7, <2>1
  <2>2. CASE ~there
    <3> HIDE DEF there
    <3>1. rules = Append(named, last)  BY <1>5, <2>2
    <3>2. /\ Append(named, last) \in Seq(FileItem)
          /\ Len(Append(named, last)) = n + 1
          /\ Append(named, last)[n + 1] = last
          /\ \A i \in 1 .. n : Append(named, last)[i] = named[i]
      BY <1>1, <1>7, <1>8
    <3> QED  BY <1>1, <2>2, <3>1, <3>2
  <2> QED  BY <2>1, <2>2
<1>10. /\ more \in Seq(T) /\ Len(more) = k /\ DOMAIN more = 1 .. k
       /\ \A i \in 1 .. k : more[i] = rules[i].id
  <2>1. more \in Seq(T) /\ Len(more) = k
    <3>1. rules \in Seq(FileItem)  BY <1>9
    <3>2. /\ IdsOf(rules) \in Seq(Id \cup {DefaultRule})
          /\ Len(IdsOf(rules)) = Len(rules)
          /\ NamesOf(rules) \in Seq(Called)
          /\ Len(NamesOf(rules)) = Len(rules)
      BY <3>1, RulesRead
    <3> QED  BY <1>9, <3>2 DEF T
  <2> QED  BY <1>9, <2>1 DEF IdsOf
<1>11. \A i \in 1 .. k : (i <= n => more[i] = ids[i]) /\ (i > n => more[i] = DefaultRule)
  <2> TAKE i \in 1 .. k
  <2>1. CASE i <= n
    <3>1. i \in 1 .. n  BY <1>1, <2>1
    <3> QED  BY <1>1, <1>2, <1>6, <1>9, <1>10, <3>1
  <2>2. CASE i > n
    <3>1. ~there /\ i = n + 1  BY <1>1, <2>2
    <3> QED  BY <1>9, <1>10, <2>2, <3>1, <1>1 DEF last
  <2> QED  BY <1>1, <2>1, <2>2
<1>12. List(stored, more) = [i \in 1 .. k |-> IF i <= n THEN ns[i] ELSE NoName]
  <2>1. stored = Save(ids, ns)  BY DEF Exact, ids, ns, l
  <2>2. n <= k  BY <1>1
  <2>3. \A i \in 1 .. n : more[i] = ids[i]
    <3> TAKE i \in 1 .. n
    <3>1. i \in 1 .. k /\ i <= n  BY <1>1
    <3> QED  BY <1>11, <3>1
  <2>4. \A i \in 1 .. k, j \in 1 .. n : i > n => more[i] # ids[j]
    <3> SUFFICES ASSUME NEW i \in 1 .. k, NEW j \in 1 .. n, i > n
                 PROVE  more[i] # ids[j]
      OBVIOUS
    <3>1. ~there /\ more[i] = DefaultRule  BY <1>1, <1>11
    <3>2. l[j].id # DefaultRule  BY <1>1, <3>1
    <3> QED  BY <1>2, <3>1, <3>2
  <2> HIDE DEF more, k
  <2>5. List(Save(ids, ns), more) =
          [i \in 1 .. Len(more) |-> IF i <= Len(ids) THEN ns[i] ELSE NoName]
    <3>1. Prolongs(more, ids)
      BY <1>2, <1>10, <2>2, <2>3, <2>4 DEF Prolongs
    <3>2. ids \in Seq(T) /\ more \in Seq(T)  BY <1>2, <1>10
    <3> QED  BY <3>1, <3>2, ListReads
  <2> QED  BY <1>2, <1>10, <2>1, <2>5
<1> DEFINE listed == List(stored, more)
           given == [i \in DOMAIN more |->
                       IF listed[i] # NoName THEN listed[i]
                       ELSE defaultRouteRuleName(more[i])]
<1>13. given = NamesOf(rules)
  <2>1. ASSUME NEW i \in 1 .. k PROVE given[i] = rules[i].name
    <3>1. given[i] = IF listed[i] # NoName THEN listed[i]
                     ELSE IF more[i] = DefaultRule THEN DefaultName ELSE NoName
      BY <1>10 DEF defaultRouteRuleName
    <3>2. listed[i] = IF i <= n THEN ns[i] ELSE NoName  BY <1>12
    <3> HIDE DEF given, listed
    <3>3. CASE i <= n
      <4>1. i \in 1 .. n  BY <1>1, <3>3
      <4>2. /\ more[i] = l[i].id /\ listed[i] = l[i].name
            /\ rules[i].name = IF l[i].id = DefaultRule /\ l[i].name = NoName
                                 THEN DefaultName ELSE l[i].name
        BY <1>2, <1>3, <1>6, <1>9, <1>11, <3>2, <3>3, <4>1
      <4> QED  BY <3>1, <4>2
    <3>4. CASE i > n
      <4>1. ~there /\ i = n + 1  BY <1>1, <3>4
      <4>2. rules[i].name = DefaultName  BY <1>9, <4>1 DEF last
      <4>3. more[i] = DefaultRule /\ listed[i] = NoName
        BY <1>1, <1>11, <3>2, <3>4
      <4> QED  BY <3>1, <4>2, <4>3
    <3> QED  BY <1>1, <3>3, <3>4
  <2>2. given = [i \in 1 .. k |-> given[i]]  BY <1>10
  <2>3. NamesOf(rules) = [i \in 1 .. k |-> rules[i].name]  BY <1>9 DEF NamesOf
  <2> HIDE DEF given, k
  <2> QED  BY <2>1, <2>2, <2>3
<1> QED  BY <1>13 DEF ApplyDefaultNames

\* The daemon serves a step of the installation.
LEMMA ServeInstallFollows ==
    ASSUME IInv, Follows, page = "route", ~stray', NEW k \in DOMAIN requests,
           NEW outcome \in Outcome, Serve(k, outcome),
           requests[k].kind = "install"
    PROVE  Follows'
<1> DEFINE r == requests[k]
           d == draft.rules
           first == r.stage = "sent"
           stage == IF outcome = "ok" /\ first THEN "second" ELSE outcome
<1>1. SectionsInv /\ RequestsInv /\ draft # NULL  BY DEF IInv, Follows
<1>2. k = 1 /\ Installing(file, stored, cache, d, Metadata, requests)
  BY <1>1, Kinds
<1>3. /\ r.kind = "install" /\ r.stage \in {"sent", "second"}
      /\ file' = IF outcome = "ok" THEN Applied(r) ELSE file
      /\ stored' = IF ~first /\ outcome = "ok"
                     THEN ApplyDefaultNames(stored, IdsOf(Applied(r).rules))
                     ELSE stored
      /\ requests' = At(k, stage)
      /\ outcome \in Answered
      /\ ~first => outcome = "ok"
      /\ UNCHANGED <<cache, names, draft, nameDraft>>
  <2>1. outcome # "lost" /\ (outcome # "ok" => r.stage # "second")
    BY DEF Serve
  <2> QED  BY <2>1 DEF Serve, client, Outcome, Answered
<1>4. /\ Applied(r).rules = IF first THEN file.rules
                            ELSE Installed(file.rules, DefaultName)
  <2>1. file = [globals |-> file.globals, sets |-> file.sets, rules |-> file.rules]
    BY <1>1 DEF SectionsInv, SectionOf
  <2> QED  BY <1>3, <2>1 DEF Applied
<1>5. Restaged(requests, requests', 1, stage)
  <2> HIDE DEF stage
  <2> QED  BY <1>1, <1>2, <1>3, AtRestages
<1>6. /\ r.here /\ ~r.skips /\ Len(requests) = 1
      /\ IdsOf(d) = IdsOf(cache.rules) /\ Exact(file, stored)
      /\ first => cache = file
      /\ cache.rules = file.rules
      /\ Metadata = NamesOf(file.rules)
  BY <1>2, <1>3 DEF Installing, Answered
<1>7. Len(requests') = 1 /\ requests'[1].kind = "install" /\ requests'[1].here
      /\ ~requests'[1].skips /\ requests'[1].stage = stage
  <2> HIDE DEF stage
  <2> QED  BY <1>2, <1>3, <1>5, <1>6 DEF Restaged
<1>8. Installing(file', stored', cache, d, Metadata, requests')
  <2>1. CASE outcome = "ok" /\ first
    <3>1. file'.rules = file.rules /\ stored' = stored  BY <1>3, <1>4, <2>1
    <3>2. Exact(file', stored')  BY <1>6, <3>1 DEF Exact
    <3> QED  BY <1>6, <1>7, <2>1, <3>1, <3>2 DEF Installing
  <2>2. CASE outcome = "ok" /\ ~first
    <3>1. /\ file'.rules = Installed(file.rules, DefaultName)
          /\ stored' = ApplyDefaultNames(stored, IdsOf(file'.rules))
      BY <1>3, <1>4, <2>2
    <3>2. stored' = Save(IdsOf(file'.rules), NamesOf(file'.rules))
      BY <1>1, <1>6, <3>1, DefaultsNamed
    <3>3. Exact(file', stored')  BY <3>2 DEF Exact
    <3>4. requests'[1].stage = "ok"  BY <1>7, <2>2
    <3> HIDE DEF d, r, stage, first
    <3> QED  BY <1>6, <1>7, <3>3, <3>4 DEF Installing, Answered
  <2>3. CASE outcome # "ok"
    <3>1. file' = file /\ stored' = stored /\ first  BY <1>3, <2>3
    <3>2. stage = outcome  BY <2>3
    <3> QED  BY <1>3, <1>6, <1>7, <2>3, <3>1, <3>2 DEF Installing, Answered
  <2> QED  BY <2>1, <2>2, <2>3
<1> HIDE DEF r, stage, first
<1>9. Together(file', stored', cache, d, Metadata, nameDraft # NULL, requests')
  BY <1>8 DEF Together
<1> QED  BY <1>1, <1>3, <1>9 DEF Follows, Metadata, d

\* The daemon serves a save.
LEMMA ServeFollows ==
    ASSUME IInv, Follows, page = "route", ~stray', NEW k \in DOMAIN requests,
           NEW outcome \in Outcome, Serve(k, outcome)
    PROVE  Follows'
<1> DEFINE r == requests[k]
           d == draft.rules
           m == Metadata
<1>1. CASE r.kind = "install"  BY <1>1, ServeInstallFollows
<1>2. CASE r.kind # "install"
  <2>1. SectionsInv /\ RequestsInv /\ draft # NULL  BY DEF IInv, Follows
  <2>2. /\ k \in 1 .. Len(requests) /\ Len(requests) \in Nat
        /\ Ordered(requests) /\ Current(file, cache, requests)
        /\ \/ Level(file, stored, cache, d, m, requests)
           \/ nameDraft # NULL /\ Moved(file, stored, cache, d, m, requests)
    BY <1>2, <2>1, Kinds
  <2>3. r.stage \in {"sent", "second"} /\ r.stage # "second"
    BY <2>2 DEF Serve, Ordered
  <2>4. /\ file' = IF outcome = "ok" THEN r.body ELSE file
        /\ stored' = stored
        /\ requests' = At(k, outcome)
        /\ outcome \in Answered
        /\ outcome # "ok" => ~r.skips
        /\ Foremost(requests, k, "sent")
        /\ UNCHANGED <<cache, names, draft, nameDraft>>
    <3>1. outcome # "lost" /\ (outcome # "ok" => ~r.skips)  BY DEF Serve
    <3>2. Foremost(requests, k, "sent")  BY DEF Serve, Foremost
    <3>3. Applied(r) = r.body  BY <1>2 DEF Applied
    <3>4. outcome \in Answered  BY <3>1 DEF Outcome, Answered
    <3> QED  BY <1>2, <3>1, <3>2, <3>3, <3>4 DEF Serve, client
  <2>5. Restaged(requests, requests', k, outcome)
    BY <2>1, <2>4, AtRestages
  <2>6. requests[k].stage = "sent" /\ requests[k].skips = r.skips
    BY <2>3
  <2> HIDE DEF d, m
  <2>7. CASE outcome = "ok"
    <3>1. file' = requests[k].body  BY <2>4, <2>7
    <3>2. /\ Ordered(requests') /\ Current(file', cache, requests')
          /\ Level(file, stored, cache, d, m, requests)
               => Level(file', stored, cache, d, m, requests')
          /\ Moved(file, stored, cache, d, m, requests)
               => Moved(file', stored, cache, d, m, requests')
      <4> HIDE DEF r
      <4> QED  BY <2>2, <2>4, <2>5, <2>6, <2>7, <3>1, Served
    <3>3. Together(file', stored, cache, d, m, nameDraft # NULL, requests')
      BY <2>2, <3>2 DEF Together
    <3> QED  BY <2>1, <2>4, <3>3 DEF Follows, Metadata, d, m
  <2>8. CASE outcome # "ok"
    <3>1. outcome \in {"rolled_back", "error"} /\ file' = file /\ ~requests[k].skips
      BY <2>4, <2>8 DEF Answered
    <3>2. /\ Ordered(requests') /\ Current(file, cache, requests')
          /\ Level(file, stored, cache, d, m, requests)
               => Level(file, stored, cache, d, m, requests')
          /\ Moved(file, stored, cache, d, m, requests)
               => Moved(file, stored, cache, d, m, requests')
      <4> HIDE DEF r
      <4> QED  BY <2>2, <2>4, <2>5, <2>6, <3>1, Refused
    <3>3. Together(file, stored, cache, d, m, nameDraft # NULL, requests')
      BY <2>2, <3>2 DEF Together
    <3> QED  BY <2>1, <2>4, <3>1, <3>3 DEF Follows, Metadata, d, m
  <2> QED  BY <2>7, <2>8
<1> QED  BY <1>1, <1>2

\* What an operation sends on the route page.
LEMMA RouteSave ==
    ASSUME IInv, Follows, page = "route", NEW kind \in {"rules", "sets"},
           NEW next \in Seq(SolidItem), NEW ns, ListSave(kind, next, ns), ~stray'
    PROVE  LET object == [Editor EXCEPT ![kind] = next]
               rules == IF kind = "rules" THEN next ELSE Seen
           IN  /\ draft' = object /\ draft' # NULL /\ draft'.rules = rules
               /\ rules # <<>> /\ ListBody(object).rules = rules
               /\ Send("rules", ListBody(object), ns)
               /\ ns = <<>> => ~Crossed
               /\ ns # <<>> => ~Misled
               /\ nameDraft' = IF kind = "rules" THEN ns ELSE nameDraft
               /\ UNCHANGED <<file, stored, cache, names>>
<1> DEFINE object == [Editor EXCEPT ![kind] = next]
           rules == IF kind = "rules" THEN next ELSE Seen
<1>1. SectionsInv /\ draft # NULL  BY DEF IInv, Follows
<1>2. /\ Len(next) <= MaxItems /\ PolicyList(kind, object, ns)
      /\ UNCHANGED <<file, stored, cache, names>>
  BY DEF ListSave, ProxyList, EndpointList, server
<1>3. /\ Editor \in SectionOf(Drafted, SolidItem) /\ Editor.rules = Seen
  BY <1>1, EditorTyped
<1>4. next \in ListOf(SolidItem)  BY <1>2, ShortFits
<1>5. object \in SectionOf(Drafted, SolidItem) /\ object.rules = rules
      /\ ListBody(object).rules = object.rules
  <2> HIDE DEF Drafted
  <2> QED  BY <1>3, <1>4 DEF SectionOf, ListBody
<1>6. object # NULL  BY <1>1, <1>5, Objects
<1> HIDE DEF object
<1>7. /\ draft' = object /\ Send("rules", ListBody(object), ns)
      /\ nameDraft' = IF kind = "rules" THEN ns ELSE nameDraft
      /\ object.rules # <<>>
      /\ ns = <<>> => ~Crossed
      /\ ns # <<>> => ~Misled
  BY <1>2 DEF PolicyList
<1> HIDE DEF rules
<1>8. /\ draft' = object /\ draft' # NULL /\ draft'.rules = rules
      /\ rules # <<>> /\ ListBody(object).rules = rules
  BY <1>5, <1>6, <1>7
<1> QED  BY <1>2, <1>7, <1>8 DEF object, rules

\* An operation that brings its names meets no installation and no answer that
\* is about to replace the names.
LEMMA Unmisled ==
    ASSUME RequestsInv, Follows, ~Misled
    PROVE  /\ Ordered(requests) /\ Current(file, cache, requests)
           /\ \/ Level(file, stored, cache, draft.rules, Metadata, requests)
              \/ /\ nameDraft # NULL
                 /\ Moved(file, stored, cache, draft.rules, Metadata, requests)
           /\ \A k \in 1 .. Len(requests) :
                requests[k].kind = "global" => requests[k].stage \notin NamingStages
<1>1. DOMAIN requests = 1 .. Len(requests)  BY DEF RequestsInv
<1>2. ~Installing(file, stored, cache, draft.rules, Metadata, requests)
  <2> SUFFICES ASSUME Len(requests) = 1, requests[1].kind = "install"
               PROVE  FALSE
    BY DEF Installing
  <2> QED  BY <1>1 DEF Misled
<1>3. \A k \in 1 .. Len(requests) :
        requests[k].kind = "global" => requests[k].stage \notin NamingStages
  BY <1>1 DEF Misled, NamingStages
<1> QED  BY <1>2, <1>3 DEF Follows, Together

\* The rules are saved with names of their own.
LEMMA RulesSaved ==
    ASSUME IInv, Follows, page = "route", NEW next \in Seq(SolidItem), NEW ns,
           ListSave("rules", next, ns), ns = NamesOf(next), ~stray'
    PROVE  Follows'
<1> DEFINE object == [Editor EXCEPT !["rules"] = next]
           body == ListBody(object)
<1>1. SectionsInv /\ RequestsInv /\ draft # NULL  BY DEF IInv, Follows
<1>2. /\ draft' # NULL /\ draft'.rules = next /\ next # <<>>
      /\ body.rules = next /\ Send("rules", body, ns)
      /\ ns = <<>> => ~Crossed
      /\ ns # <<>> => ~Misled
      /\ nameDraft' = ns
      /\ UNCHANGED <<file, stored, cache, names>>
  <2>1. "rules" \in {"rules", "sets"}  OBVIOUS
  <2> QED  BY <2>1, RouteSave
<1>3. ns # <<>> /\ ns # NULL
  <2>1. Len(next) <= MaxItems  BY DEF ListSave
  <2>2. ns \in Seq(Called) /\ Len(ns) = Len(next)
    <3>1. \A i \in 1 .. Len(next) : next[i] \in SolidItem  BY ElementOfSeq
    <3>2. \A i \in 1 .. Len(next) : next[i].name \in Called
      BY <3>1 DEF SolidItem, FileItem, Hole, Called
    <3>3. ns = [i \in 1 .. Len(next) |-> next[i].name]  BY DEF NamesOf
    <3> QED  BY <3>2, <3>3
  <2>3. ns \in NameList
    <3>1. Len(ns) <= MaxItems + 1  BY <2>1, <2>2, Constants
    <3> QED  BY <2>2, <3>1, TypesFit
  <2>4. Len(next) # 0  BY <1>2
  <2> QED  BY <2>2, <2>3, <2>4, NullAssumption
<1> HIDE DEF body
<1>4. /\ Ordered(requests) /\ Current(file, cache, requests)
      /\ \/ Level(file, stored, cache, draft.rules, Metadata, requests)
         \/ Moved(file, stored, cache, draft.rules, Metadata, requests)
      /\ \A k \in 1 .. Len(requests) :
           requests[k].kind = "global" => requests[k].stage \notin NamingStages
  BY <1>1, <1>2, <1>3, Unmisled
<1>5. /\ Added(requests, requests') /\ Len(requests) \in Nat
      /\ Newest(requests').kind = "rules" /\ Newest(requests').body = body
      /\ Newest(requests').names = ns
  BY <1>1, <1>2, <1>3, <1>4, SendAdds
<1> DEFINE r == requests'[Len(requests')]
<1>6. r.kind = "rules" /\ r.body.rules = next /\ r.names = ns
  BY <1>2, <1>5 DEF Newest
<1>7. Bearing(r) /\ r.names = NamesOf(r.body.rules)
  BY <1>3, <1>6 DEF Bearing
<1>8. Ordered(requests') /\ Current(file, cache, requests')
  BY <1>4, <1>5, SentInOrder
<1>9. Moved(file, stored, cache, r.body.rules, r.names, requests')
  BY <1>4, <1>5, <1>7, MovedSends
<1> HIDE DEF r
<1>10. Moved(file, stored, cache, next, ns, requests')  BY <1>6, <1>9
<1>11. Together(file, stored, cache, next, ns, TRUE, requests')
  BY <1>8, <1>10 DEF Together
<1>12. Metadata' = ns /\ (nameDraft' # NULL) = TRUE
  BY <1>2, <1>3 DEF Metadata
<1> QED  BY <1>2, <1>11, <1>12 DEF Follows

\* The rule sets are saved, with the rules as they are.
LEMMA SetsSaved ==
    ASSUME IInv, Follows, page = "route", NEW next \in Seq(SolidItem), NEW ns,
           ListSave("sets", next, ns),
           ns \in {<<>>, alignedMetadata(draft.rules)}, ~stray'
    PROVE  Follows'
<1> DEFINE object == [Editor EXCEPT !["sets"] = next]
           body == ListBody(object)
           f == file
           d == draft.rules
           m == Metadata
<1>1. SectionsInv /\ RequestsInv /\ NamesInv /\ draft # NULL
  BY DEF IInv, Follows
<1>2. /\ draft' # NULL /\ draft'.rules = Seen
      /\ body.rules = Seen /\ Send("rules", body, ns)
      /\ ns = <<>> => ~Crossed
      /\ ns # <<>> => ~Misled
      /\ nameDraft' = nameDraft
      /\ UNCHANGED <<file, stored, cache, names>>
  <2>1. "sets" \in {"rules", "sets"} /\ "sets" # "rules"  OBVIOUS
  <2> QED  BY <2>1, RouteSave
<1>3. ns # NULL
  <2>1. "sets" \in {"rules", "sets"}  OBVIOUS
  <2>2. ns \in NameList  BY <1>1, <2>1, ListsBehind
  <2> QED  BY <2>2, NullAssumption
<1>4. IdsOf(Seen) = IdsOf(d)  BY <1>1, EditorTyped
<1>5. Metadata' = m  BY <1>2 DEF Metadata
<1> HIDE DEF body, m, d
<1>6. CASE ns = <<>>
  <2>1. requests = <<>> /\ Seen = cache.rules  BY <1>2, <1>6 DEF Crossed
  <2>2. /\ cache = file /\ Ordered(requests) /\ Current(file, cache, requests)
        /\ Level(file, stored, cache, d, m, requests)
    BY <1>1, <2>1, Quiet DEF Follows, d, m
  <2>3. /\ Added(requests, requests') /\ Len(requests) \in Nat
        /\ Newest(requests').body = body /\ Newest(requests').names = ns
    BY <1>1, <1>2, <1>3, <2>2, SendAdds
  <2>4. /\ requests'[Len(requests')].body.rules = file.rules
        /\ requests'[Len(requests')].names \in {NULL, <<>>, NamesOf(file.rules)}
    BY <1>2, <1>6, <2>1, <2>2, <2>3 DEF Newest
  <2>5. Level(file, stored, cache, Seen, m, requests')
    BY <1>4, <2>2, <2>3, <2>4, LevelSends
  <2>6. Ordered(requests') /\ Current(file, cache, requests')
    BY <2>2, <2>3, SentInOrder
  <2>7. Together(file, stored, cache, Seen, m, nameDraft # NULL, requests')
    BY <2>5, <2>6 DEF Together
  <2> QED  BY <1>2, <1>5, <2>7 DEF Follows
<1>7. CASE ns # <<>>
  <2>1. ~Misled /\ ns = alignedMetadata(draft.rules)  BY <1>2, <1>7
  <2>2. /\ Ordered(requests) /\ Current(file, cache, requests)
        /\ \/ Level(file, stored, cache, d, m, requests)
           \/ nameDraft # NULL /\ Moved(file, stored, cache, d, m, requests)
        /\ \A k \in 1 .. Len(requests) :
             requests[k].kind = "global" => requests[k].stage \notin NamingStages
    BY <1>1, <2>1, Unmisled DEF d, m
  <2>3. /\ ns = NamesOf(Seen) /\ m = NamesOf(Seen)
        /\ Level(file, stored, cache, d, m, requests) => Seen = cache.rules
    BY <1>1, <2>1, <2>2, ShownNames DEF d, m
  <2>4. /\ Added(requests, requests') /\ Len(requests) \in Nat
        /\ Newest(requests').kind = "rules"
        /\ Newest(requests').body = body /\ Newest(requests').names = ns
    BY <1>1, <1>2, <1>3, <2>2, SendAdds
  <2>5. Ordered(requests') /\ Current(file, cache, requests')
    BY <2>2, <2>4, SentInOrder
  <2> DEFINE r == requests'[Len(requests')]
  <2>6. r.kind = "rules" /\ r.body.rules = Seen /\ r.names = ns
    BY <1>2, <2>4 DEF Newest
  <2>7. CASE Level(file, stored, cache, d, m, requests)
    <3>1. Seen = file.rules  BY <2>3, <2>7 DEF Level
    <3>2. r.body.rules = file.rules /\ r.names \in {NULL, <<>>, NamesOf(file.rules)}
      BY <2>3, <2>6, <3>1
    <3>3. Level(file, stored, cache, Seen, m, requests')
      BY <1>4, <2>4, <2>7, <3>2, LevelSends
    <3>4. Together(file, stored, cache, Seen, m, nameDraft # NULL, requests')
      BY <2>5, <3>3 DEF Together
    <3> QED  BY <1>2, <1>5, <3>4 DEF Follows
  <2>8. CASE nameDraft # NULL /\ Moved(file, stored, cache, d, m, requests)
    <3>1. Bearing(r) /\ r.names = NamesOf(r.body.rules)
      BY <1>7, <2>3, <2>6 DEF Bearing
    <3>2. Moved(file, stored, cache, r.body.rules, r.names, requests')
      BY <2>2, <2>4, <2>8, <3>1, MovedSends
    <3>3. Moved(file, stored, cache, Seen, m, requests')
      <4> HIDE DEF r
      <4> QED  BY <2>3, <2>6, <3>2
    <3>4. Together(file, stored, cache, Seen, m, nameDraft # NULL, requests')
      BY <2>5, <2>8, <3>3 DEF Together
    <3> QED  BY <1>2, <1>5, <3>4 DEF Follows
  <2> QED  BY <2>2, <2>7, <2>8
<1> QED  BY <1>6, <1>7

\* The globals are saved, with the edited names if there are any.
LEMMA SaveGlobalFollows ==
    ASSUME IInv, Follows, page = "route", ~stray', SaveGlobal
    PROVE  Follows'
<1> DEFINE d == draft.rules
           m == Metadata
<1>1. SectionsInv /\ RequestsInv /\ draft # NULL  BY DEF IInv, Follows
<1>2. /\ Send("global", GlobalBody, nameDraft)
      /\ nameDraft # NULL => ~Crossed
      /\ \A k \in DOMAIN requests : requests[k].kind # "install"
      /\ UNCHANGED <<file, stored, cache, names, draft, nameDraft>>
  BY DEF SaveGlobal, server, client
<1>3. GlobalBody.rules = cache.rules
  <2>1. cache = [globals |-> cache.globals, sets |-> cache.sets,
                 rules |-> cache.rules]
    BY <1>1 DEF SectionsInv, SectionOf
  <2> QED  BY <2>1 DEF GlobalBody, PolicyPages
<1>4. /\ Ordered(requests) /\ Current(file, cache, requests)
      /\ Level(file, stored, cache, d, m, requests)
      /\ nameDraft \in {NULL, NamesOf(file.rules)}
  <2>1. CASE nameDraft = NULL
    <3>1. ~Installing(file, stored, cache, d, m, requests)
      <4> SUFFICES ASSUME Len(requests) = 1, requests[1].kind = "install"
                   PROVE  FALSE
        BY DEF Installing
      <4>1. DOMAIN requests = 1 .. Len(requests)  BY <1>1 DEF RequestsInv
      <4> QED  BY <1>2, <4>1
    <3> QED  BY <2>1, <3>1 DEF Follows, Together
  <2>2. CASE nameDraft # NULL
    <3>1. requests = <<>> /\ Seen = cache.rules  BY <1>2, <2>2 DEF Crossed
    <3>2. /\ Ordered(requests) /\ Current(file, cache, requests)
          /\ Level(file, stored, cache, d, m, requests)
      BY <1>1, <3>1, Quiet DEF Follows
    <3>3. m = NamesOf(file.rules)  BY <3>2 DEF Level
    <3> QED  BY <2>2, <3>2, <3>3 DEF Metadata
  <2> QED  BY <2>1, <2>2
<1> HIDE DEF d, m
<1>5. /\ Added(requests, requests') /\ Len(requests) \in Nat
      /\ Newest(requests').body = GlobalBody
      /\ Newest(requests').names = nameDraft
  BY <1>1, <1>2, <1>4, SendAdds
<1>6. /\ requests'[Len(requests')].body.rules = file.rules
      /\ requests'[Len(requests')].names \in {NULL, <<>>, NamesOf(file.rules)}
  <2>1. cache.rules = file.rules  BY <1>4 DEF Level
  <2> QED  BY <1>3, <1>4, <1>5, <2>1 DEF Newest
<1>7. Ordered(requests') /\ Current(file, cache, requests')
  BY <1>4, <1>5, SentInOrder
<1>8. Level(file, stored, cache, d, m, requests')
  BY <1>4, <1>5, <1>6, LevelSends
<1>9. Together(file, stored, cache, d, m, nameDraft # NULL, requests')
  BY <1>7, <1>8 DEF Together
<1> QED  BY <1>1, <1>2, <1>9 DEF Follows, Metadata, d, m

\* What is on the screen, and the parts of an entry.
LEMMA SeenTyped ==
    ASSUME SectionsInv, NamesInv, draft # NULL
    PROVE  /\ Seen \in Seq(SolidItem) /\ Editor["rules"] = Seen
           /\ Editor["sets"] = draft.sets /\ draft.sets \in Seq(SolidItem)
           /\ Seen \in Seq([id : Id \cup {DefaultRule, Blank}, name : Called])
           /\ DOMAIN Seen = DOMAIN draft.rules
<1>1. "rules" \in {"rules", "sets"} /\ "sets" \in {"rules", "sets"}  OBVIOUS
<1>2. Editor["rules"] \in Seq(SolidItem) /\ draft["sets"] \in Seq(SolidItem)
  BY <1>1, ListsBehind
<1>3. Editor.rules = Seen /\ Editor.sets = draft.sets
      /\ DOMAIN Seen = DOMAIN draft.rules
  BY EditorTyped
<1>4. SolidItem \subseteq [id : Id \cup {DefaultRule, Blank}, name : Called]
  BY DEF SolidItem, FileItem, Hole, Called
<1>5. Seen \in Seq(SolidItem)  BY <1>2, <1>3
<1>6. Seen \in Seq([id : Id \cup {DefaultRule, Blank}, name : Called])
  BY <1>4, <1>5, SeqMonotonic
<1> QED  BY <1>2, <1>3, <1>5, <1>6

\* The name goes along with its rule.
LEMMA RuleReplaced ==
    ASSUME NEW s \in Seq([id : Id \cup {DefaultRule, Blank}, name : Called]),
           NEW x \in Id, NEW y \in Called, NEW i \in Nat, i = 0 \/ i \in DOMAIN s
    PROVE  NamesOf(replaceOrAppend(s, i, [id |-> x, name |-> y]))
             = replaceOrAppend(NamesOf(s), i, y)
<1> DEFINE T == Id \cup {DefaultRule, Blank}
           N == Called
<1>1. s \in Seq([id : T, name : N]) /\ x \in T /\ y \in N  OBVIOUS
<1> HIDE DEF T, N
<1> QED  BY <1>1, NamesReplaced

\* An operation on the rules that does the same to their names.
LEMMA OperationFollows ==
    ASSUME IInv, Follows, page = "route", ~stray', NEW next \in Seq(SolidItem),
           NEW ns, ListSave("rules", next, ns),
           alignedMetadata(draft.rules) = NamesOf(Seen) => ns = NamesOf(next)
    PROVE  Follows'
<1>1. SectionsInv /\ RequestsInv /\ draft # NULL  BY DEF IInv, Follows
<1>2. ~Crossed \/ ~Misled
  <2>1. "rules" \in {"rules", "sets"}  OBVIOUS
  <2> QED  BY <2>1, RouteSave
<1>3. CASE ~Crossed
  <2>1. requests = <<>>  BY <1>3 DEF Crossed
  <2>2. alignedMetadata(draft.rules) = NamesOf(Seen)
    BY <1>1, <2>1, Quiet DEF Follows
  <2> QED  BY <2>2, RulesSaved
<1>4. CASE ~Misled
  <2>1. \/ Level(file, stored, cache, draft.rules, Metadata, requests)
        \/ Moved(file, stored, cache, draft.rules, Metadata, requests) /\ ~Misled
    BY <1>1, <1>4, Unmisled
  <2>2. alignedMetadata(draft.rules) = NamesOf(Seen)
    BY <1>1, <2>1, ShownNames
  <2> QED  BY <2>2, RulesSaved
<1> QED  BY <1>2, <1>3, <1>4

LEMMA CopyFollows ==
    ASSUME IInv, Follows, page = "route", ~stray', NEW kind \in {"rules", "sets"},
           NEW i \in DOMAIN draft[kind], Copy(kind, i)
    PROVE  Follows'
<1> DEFINE ns == alignedMetadata(draft.rules)
<1>1. ListSave(kind, Copied(Editor[kind], i), With(kind, Copied(ns, i)))
  BY DEF Copy
<1>2. /\ Seen \in Seq(SolidItem) /\ Editor["rules"] = Seen
      /\ Editor["sets"] = draft.sets /\ draft.sets \in Seq(SolidItem)
      /\ Seen \in Seq([id : Id \cup {DefaultRule, Blank}, name : Called])
      /\ DOMAIN Seen = DOMAIN draft.rules
  BY SeenTyped DEF IInv, Follows
<1> HIDE DEF ns
<1>3. CASE kind = "rules"
  <2>1. i \in DOMAIN Seen  BY <1>2, <1>3
  <2>2. Copied(Seen, i) \in Seq(SolidItem)  BY <1>2, <2>1, CopiedTyped
  <2>3. /\ NamesOf(Copied(Seen, i)) = Copied(NamesOf(Seen), i)
        /\ NamesOf(RemoveAt(Seen, i)) = RemoveAt(NamesOf(Seen), i)
        /\ \A j \in DOMAIN Seen :
             NamesOf(moveItem(Seen, i, j)) = moveItem(NamesOf(Seen), i, j)
    BY <1>2, <2>1, NamesGoAlong
  <2>4. ListSave("rules", Copied(Seen, i), Copied(ns, i))
    BY <1>1, <1>2, <1>3 DEF With
  <2>5. ns = NamesOf(Seen) => Copied(ns, i) = NamesOf(Copied(Seen, i))
    BY <2>3
  <2> QED  BY <2>2, <2>4, <2>5, OperationFollows DEF ns
<1>4. CASE kind = "sets"
  <2>1. Copied(draft.sets, i) \in Seq(SolidItem)  BY <1>2, <1>4, CopiedTyped
  <2>2. ListSave("sets", Copied(draft.sets, i), <<>>)
    BY <1>1, <1>2, <1>4 DEF With
  <2> QED  BY <2>1, <2>2, SetsSaved
<1> QED  BY <1>3, <1>4

LEMMA DeleteFollows ==
    ASSUME IInv, Follows, page = "route", ~stray', NEW kind \in {"rules", "sets"},
           NEW i \in DOMAIN draft[kind], Delete(kind, i)
    PROVE  Follows'
<1> DEFINE ns == alignedMetadata(draft.rules)
<1>1. ListSave(kind, RemoveAt(Editor[kind], i), With(kind, RemoveAt(ns, i)))
  BY DEF Delete
<1>2. /\ Seen \in Seq(SolidItem) /\ Editor["rules"] = Seen
      /\ Editor["sets"] = draft.sets /\ draft.sets \in Seq(SolidItem)
      /\ Seen \in Seq([id : Id \cup {DefaultRule, Blank}, name : Called])
      /\ DOMAIN Seen = DOMAIN draft.rules
  BY SeenTyped DEF IInv, Follows
<1> HIDE DEF ns
<1>3. CASE kind = "rules"
  <2>1. i \in DOMAIN Seen  BY <1>2, <1>3
  <2>2. RemoveAt(Seen, i) \in Seq(SolidItem)  BY <1>2, <2>1, RemoveTyped
  <2>3. /\ NamesOf(Copied(Seen, i)) = Copied(NamesOf(Seen), i)
        /\ NamesOf(RemoveAt(Seen, i)) = RemoveAt(NamesOf(Seen), i)
        /\ \A j \in DOMAIN Seen :
             NamesOf(moveItem(Seen, i, j)) = moveItem(NamesOf(Seen), i, j)
    BY <1>2, <2>1, NamesGoAlong
  <2>4. ListSave("rules", RemoveAt(Seen, i), RemoveAt(ns, i))
    BY <1>1, <1>2, <1>3 DEF With
  <2>5. ns = NamesOf(Seen) => RemoveAt(ns, i) = NamesOf(RemoveAt(Seen, i))
    BY <2>3
  <2> QED  BY <2>2, <2>4, <2>5, OperationFollows DEF ns
<1>4. CASE kind = "sets"
  <2>1. RemoveAt(draft.sets, i) \in Seq(SolidItem)  BY <1>2, <1>4, RemoveTyped
  <2>2. ListSave("sets", RemoveAt(draft.sets, i), <<>>)
    BY <1>1, <1>2, <1>4 DEF With
  <2> QED  BY <2>1, <2>2, SetsSaved
<1> QED  BY <1>3, <1>4

LEMMA MoveFollows ==
    ASSUME IInv, Follows, page = "route", ~stray', NEW i \in DOMAIN draft.rules,
           NEW j \in DOMAIN draft.rules, Move(i, j)
    PROVE  Follows'
<1> DEFINE ns == alignedMetadata(draft.rules)
<1>1. ListSave("rules", moveItem(Seen, i, j), moveItem(ns, i, j))
  BY DEF Move, With
<1>2. /\ Seen \in Seq(SolidItem) /\ Editor["rules"] = Seen
      /\ Editor["sets"] = draft.sets /\ draft.sets \in Seq(SolidItem)
      /\ Seen \in Seq([id : Id \cup {DefaultRule, Blank}, name : Called])
      /\ DOMAIN Seen = DOMAIN draft.rules
  BY SeenTyped DEF IInv, Follows
<1> HIDE DEF ns
<1>3. i \in DOMAIN Seen /\ j \in DOMAIN Seen  BY <1>2
<1>4. moveItem(Seen, i, j) \in Seq(SolidItem)  BY <1>2, <1>3, MovedTyped
<1>5. /\ NamesOf(Copied(Seen, i)) = Copied(NamesOf(Seen), i)
      /\ NamesOf(RemoveAt(Seen, i)) = RemoveAt(NamesOf(Seen), i)
      /\ \A l \in DOMAIN Seen :
           NamesOf(moveItem(Seen, i, l)) = moveItem(NamesOf(Seen), i, l)
  BY <1>2, <1>3, NamesGoAlong
<1>6. ns = NamesOf(Seen) => moveItem(ns, i, j) = NamesOf(moveItem(Seen, i, j))
  BY <1>3, <1>5
<1> QED  BY <1>1, <1>4, <1>6, OperationFollows DEF ns

LEMMA SaveDialogFollows ==
    ASSUME IInv, Follows, page = "route", ~stray', NEW id \in Id,
           NEW n \in DialogNames, SaveDialog(id, n)
    PROVE  Follows'
<1> DEFINE kind == dialog.kind
           i == dialog.index
           ns == alignedMetadata(draft.rules)
           x == [id |-> id, name |-> n]
<1>1. /\ dialog # NULL
      /\ ListSave(kind, replaceOrAppend(Editor[kind], i, x),
           IF kind = "rules" THEN replaceOrAppend(ns, i, n) ELSE ns)
  BY DEF SaveDialog
<1>2. /\ Seen \in Seq(SolidItem) /\ Editor["rules"] = Seen
      /\ Editor["sets"] = draft.sets /\ draft.sets \in Seq(SolidItem)
      /\ Seen \in Seq([id : Id \cup {DefaultRule, Blank}, name : Called])
      /\ DOMAIN Seen = DOMAIN draft.rules
  BY SeenTyped DEF IInv, Follows
<1>3. /\ kind \in {"rules", "sets"} /\ i \in Nat
      /\ i # 0 => i \in DOMAIN draft[kind]
  BY <1>1, Constants DEF IInv, DialogInv, Open, Dialog
<1>4. n \in Called  BY DEF DialogNames, Called
<1>5. x \in SolidItem  BY <1>4 DEF SolidItem, FileItem
<1> HIDE DEF kind, i, ns
<1>6. CASE kind = "rules"
  <2>1. i = 0 \/ i \in DOMAIN Seen  BY <1>2, <1>3, <1>6
  <2>2. replaceOrAppend(Seen, i, x) \in Seq(SolidItem)
    <3>1. i <= Len(Seen)  BY <1>2, <1>3, <2>1
    <3> HIDE DEF x
    <3>2. /\ replaceOrAppend(Seen, i, x) \in Seq(SolidItem)
          /\ Len(replaceOrAppend(Seen, i, x)) =
               IF i = 0 THEN Len(Seen) + 1 ELSE IF i >= Len(Seen) THEN i ELSE Len(Seen)
      BY <1>2, <1>3, <1>5, <3>1, ReplacedTyped
    <3> QED  BY <3>2
  <2>3. NamesOf(replaceOrAppend(Seen, i, x)) = replaceOrAppend(NamesOf(Seen), i, n)
    BY <1>2, <1>3, <1>4, <2>1, RuleReplaced
  <2>4. ListSave("rules", replaceOrAppend(Seen, i, x), replaceOrAppend(ns, i, n))
    BY <1>1, <1>2, <1>6
  <2>5. ns = NamesOf(Seen) =>
          replaceOrAppend(ns, i, n) = NamesOf(replaceOrAppend(Seen, i, x))
    BY <2>3
  <2> HIDE DEF x
  <2> QED  BY <2>2, <2>4, <2>5, OperationFollows DEF ns
<1>7. CASE kind = "sets"
  <2>1. replaceOrAppend(draft.sets, i, x) \in Seq(SolidItem)
    <3>1. i <= Len(draft.sets)  BY <1>2, <1>3, <1>7
    <3> HIDE DEF x
    <3>2. /\ replaceOrAppend(draft.sets, i, x) \in Seq(SolidItem)
          /\ Len(replaceOrAppend(draft.sets, i, x)) =
               IF i = 0 THEN Len(draft.sets) + 1
               ELSE IF i >= Len(draft.sets) THEN i ELSE Len(draft.sets)
      BY <1>2, <1>3, <1>5, <3>1, ReplacedTyped
    <3> QED  BY <3>2
  <2>2. ListSave("sets", replaceOrAppend(draft.sets, i, x), ns)
    BY <1>1, <1>2, <1>7
  <2> HIDE DEF x
  <2> QED  BY <2>1, <2>2, SetsSaved DEF ns
<1> QED  BY <1>3, <1>6, <1>7

-----------------------------------------------------------------------------
(* Every step keeps the names with the rules. *)

\* The case stays a stray one, and the page the same.
LEMMA Steady ==
    ASSUME IInv, [Next]_vars PROVE page' = page /\ (stray => stray')
<1>0. stray \in BOOLEAN  BY DEF IInv, CountInv
<1>7. Refresh => (stray => stray')
  <2> SUFFICES ASSUME Refresh PROVE stray => stray'  OBVIOUS
  <2>1. CASE UNCHANGED stray  BY <2>1
  <2>2. CASE stray' = (stray \/ (nameDraft # NULL /\ Seen # file.rules))
    BY <2>2, Zenon
  <2> QED  BY <2>1, <2>2 DEF Refresh
<1>6. ASSUME NEW kind, NEW next, NEW ns, ListSave(kind, next, ns)
      PROVE  page' = page /\ (stray => stray')
  <2>1. ASSUME NEW object,
               \/ PolicyList(kind, object, ns)
               \/ ProxyList(object)
               \/ EndpointList(object)
        PROVE  stray => stray'
    <3>1. CASE PolicyList(kind, object, ns)
      <4>1. stray' = (\/ stray \/ object.rules = <<>>
                      \/ IF ns = <<>> THEN Crossed ELSE Misled)
        BY <3>1 DEF PolicyList
      <4> QED  BY <4>1, Zenon
    <3>2. CASE ProxyList(object) \/ EndpointList(object)
      BY <3>2 DEF ProxyList, EndpointList
    <3> QED  BY <2>1, <3>1, <3>2
  <2> DEFINE object == [Editor EXCEPT ![kind] = next]
  <2>2. /\ page' = page
        /\ PolicyList(kind, object, ns) \/ ProxyList(object) \/ EndpointList(object)
    BY <1>6 DEF ListSave
  <2> HIDE DEF object
  <2> QED  BY <2>1, <2>2
<1>1. CASE User
  <2>1. ASSUME NEW kind, NEW i, Copy(kind, i) \/ Delete(kind, i)
        PROVE  page' = page /\ (stray => stray')
    BY <1>6, <2>1 DEF Copy, Delete
  <2>2. ASSUME NEW i, NEW j, Move(i, j) PROVE page' = page /\ (stray => stray')
    BY <1>6, <2>2 DEF Move
  <2>8. ASSUME NEW kind, NEW i, Edit(kind, i) PROVE page' = page /\ stray' = stray
    BY <2>8 DEF Edit
  <2>9. ASSUME SaveGlobal PROVE page' = page /\ (stray => stray')
    <3>1. /\ stray' = (\/ stray \/ (nameDraft # NULL /\ Crossed)
                      \/ \E k \in DOMAIN requests : requests[k].kind = "install")
          /\ page' = page
      BY <2>9 DEF SaveGlobal
    <3> QED  BY <3>1, Zenon
  <2>10. ASSUME Install PROVE page' = page /\ (stray => stray')
    <3>1. stray' = (stray \/ Crossed) /\ page' = page  BY <2>10 DEF Install
    <3> QED  BY <3>1, Zenon
  <2>3. CASE Operation
    <3>1. ASSUME NEW i, RuleButtons(i) \/ ItemButtons(i) \/ SetButtons(i)
          PROVE  page' = page /\ (stray => stray')
      BY <2>1, <2>2, <2>8, <3>1 DEF RuleButtons, ItemButtons, SetButtons
    <3>2. ASSUME NEW g, EditGlobals(g) PROVE page' = page /\ stray' = stray
      BY <3>2 DEF EditGlobals
    <3> QED  BY <2>3, <2>8, <2>9, <2>10, <3>1, <3>2 DEF Operation
  <2>4. ASSUME NEW id, NEW n, SaveDialog(id, n)
        PROVE  page' = page /\ (stray => stray')
    BY <1>6, <2>4 DEF SaveDialog
  <2>5. ASSUME NEW ready, Input(ready) \/ InputJSON(ready)
        PROVE  page' = page /\ (stray => stray')
    BY <2>5 DEF Input, InputJSON, Becomes
  <2>6. ASSUME NEW s, EditJSON(s) PROVE page' = page /\ (stray => stray')
    BY <2>6 DEF EditJSON
  <2>7. CASE Cancel \/ Reset \/ Reopen
    <3>1. CASE Cancel \/ Reset  BY <3>1 DEF Cancel, Becomes, Reset
    <3>2. CASE Reopen
      <4>1. stray' = (stray \/ requests # <<>> \/ StaleNames) /\ page' = page
        BY <3>2 DEF Reopen
      <4> QED  BY <4>1, Zenon
    <3> QED  BY <2>7, <3>1, <3>2
  <2> QED  BY <1>1, <2>3, <2>4, <2>5, <2>6, <2>7 DEF User
<1>2. CASE Daemon
  <2>1. ASSUME NEW k, NEW outcome, Serve(k, outcome)
        PROVE  page' = page /\ (stray => stray')
    <3>1. /\ stray' = (\/ stray \/ outcome = "lost"
             \/ (outcome # "ok" /\ (requests[k].skips \/ requests[k].stage = "second"))
             \/ \E j \in 1 .. k - 1 : requests[j].stage \in {"sent", "second"})
          /\ page' = page
      BY <2>1 DEF Serve
    <3> QED  BY <3>1, Zenon
  <2>2. ASSUME NEW k, NEW works, ServeNames(k, works) \/ refreshMetadata(k, works)
        PROVE  page' = page /\ (stray => stray')
    BY <2>2 DEF ServeNames, refreshMetadata
  <2>3. ASSUME NEW k, Answer(k) \/ AnswerNames(k) \/ AnswerInstall(k)
        PROVE  page' = page /\ (stray => stray')
    <3>1. page' = page /\ (Refresh \/ stray' = stray)
      BY <2>3 DEF Answer, AnswerNames, AnswerInstall
    <3> QED  BY <1>7, <3>1
  <2> QED  BY <1>2, <2>1, <2>2, <2>3 DEF Daemon
<1>3. CASE \E s \in Rewrites(file) : ForeignWrite(s)  BY <1>3 DEF ForeignWrite
<1>4. CASE Refetch \/ RefetchNames  BY <1>4, <1>7 DEF Refetch, RefetchNames
<1>5. CASE UNCHANGED vars  BY <1>5 DEF vars
<1> QED  BY <1>1, <1>2, <1>3, <1>4, <1>5 DEF Next

\* The user's steps that send nothing.
LEMMA EditFollows ==
    ASSUME IInv, Follows, page = "route", ~stray',
           \/ \E kind, i : Edit(kind, i)
           \/ \E ready : Input(ready) \/ InputJSON(ready)
           \/ Cancel
           \/ \E g \in Global : EditGlobals(g)
           \/ \E s : EditJSON(s)
    PROVE  Follows'
<1>1. draft # NULL /\ SectionsInv  BY DEF IInv, Follows
<1>2. CASE \E kind, i : Edit(kind, i)
  BY <1>1, <1>2, NothingMoves DEF Edit, server
<1>3. CASE \E ready : Input(ready) \/ InputJSON(ready)
  BY <1>1, <1>3, NothingMoves DEF Input, InputJSON, Becomes, server
<1>4. CASE Cancel
  BY <1>1, <1>4, NothingMoves DEF Cancel, Becomes, server
<1>5. ASSUME NEW g \in Global, EditGlobals(g) PROVE Follows'
  <2>1. /\ draft' = [draft EXCEPT !.globals = g]
        /\ UNCHANGED <<file, stored, cache, names, nameDraft, requests>>
    BY <1>5 DEF EditGlobals, server
  <2>2. draft = [globals |-> draft.globals, sets |-> draft.sets,
                 rules |-> draft.rules]
    <3> HIDE DEF Drafted
    <3> QED  BY <1>1 DEF SectionsInv, SectionOf
  <2>3. draft'.rules = draft.rules  BY <2>1, <2>2
  <2>4. draft' # NULL
    <3> HIDE DEF Drafted
    <3>1. draft \in SectionOf(Drafted, SolidItem) /\ Drafted = Global
      BY <1>1 DEF SectionsInv, Drafted
    <3>2. [draft EXCEPT !.globals = g] \in SectionOf(Drafted, SolidItem)
      BY <3>1 DEF SectionOf
    <3> QED  BY <1>1, <2>1, <3>2, Objects
  <2> QED  BY <2>1, <2>3, <2>4, NothingMoves
<1>6. ASSUME NEW s, EditJSON(s) PROVE Follows'
  <2>1. /\ draft' = s /\ s # NULL /\ s.rules = draft.rules
        /\ UNCHANGED <<file, stored, cache, names, nameDraft, requests>>
    BY <1>1, <1>6 DEF EditJSON, server
  <2> QED  BY <2>1, NothingMoves
<1> QED  BY <1>2, <1>3, <1>4, <1>5, <1>6

LEMMA ButtonsFollow ==
    ASSUME IInv, Follows, page = "route", ~stray', Operation PROVE Follows'
<1> DEFINE K == {"rules", "sets"}
<1>1. SectionsInv /\ NamesInv /\ draft # NULL  BY DEF IInv, Follows
<1>2. ASSUME NEW kind \in K, NEW i \in DOMAIN draft[kind],
             Edit(kind, i) \/ Copy(kind, i) \/ Delete(kind, i)
      PROVE  Follows'
  BY <1>2, EditFollows, CopyFollows, DeleteFollows
<1>3. ASSUME NEW i \in DOMAIN draft.rules, RuleButtons(i) PROVE Follows'
  <2>1. "rules" \in K /\ i \in DOMAIN draft["rules"]  OBVIOUS
  <2>2. DOMAIN draft.rules = 1 .. Len(draft.rules) /\ Len(draft.rules) \in Nat
    <3>1. draft["rules"] \in Seq(SolidItem)  BY <1>1, <2>1, ListsBehind
    <3> QED  BY <3>1
  <2>3. CASE Edit("rules", i) \/ Copy("rules", i) \/ Delete("rules", i)
    BY <1>2, <2>1, <2>3
  <2>4. CASE i > 1 /\ Move(i, i - 1)
    <3>1. i - 1 \in DOMAIN draft.rules  BY <2>2, <2>4
    <3> QED  BY <2>4, <3>1, MoveFollows
  <2>5. CASE i < Len(draft.rules) /\ Move(i, i + 1)
    <3>1. i + 1 \in DOMAIN draft.rules  BY <2>2, <2>5
    <3> QED  BY <2>5, <3>1, MoveFollows
  <2> QED  BY <1>3, <2>3, <2>4, <2>5 DEF RuleButtons
<1>4. ASSUME NEW i \in DOMAIN draft.sets, SetButtons(i) PROVE Follows'
  <2>1. "sets" \in K /\ i \in DOMAIN draft["sets"]  OBVIOUS
  <2> QED  BY <1>2, <1>4, <2>1 DEF SetButtons
<1>5. ASSUME NEW i, ItemButtons(i) PROVE FALSE  BY <1>5 DEF ItemButtons
<1>6. ASSUME NEW kind, Edit(kind, 0) PROVE Follows'  BY <1>6, EditFollows
<1>7. ASSUME NEW g \in Global, EditGlobals(g) PROVE Follows'  BY <1>7, EditFollows
<1> QED
  BY <1>3, <1>4, <1>5, <1>6, <1>7, SaveGlobalFollows, InstallFollows
  DEF Operation

LEMMA UserFollows ==
    ASSUME IInv, Follows, page = "route", ~stray', User PROVE Follows'
<1>1. ASSUME NEW id \in Id, NEW n \in DialogNames, SaveDialog(id, n)
      PROVE  Follows'
  BY <1>1, SaveDialogFollows
<1>2. ~Reset  BY DEF Reset
<1>3. ASSUME \/ \E ready \in BOOLEAN : Input(ready) \/ InputJSON(ready)
             \/ Cancel
             \/ \E s \in Rewrites(IF draft = NULL THEN cache ELSE draft) \cup {NULL} :
                  EditJSON(s)
      PROVE  Follows'
  BY <1>3, EditFollows
<1> QED  BY <1>1, <1>2, <1>3, ButtonsFollow, ReopenFollows DEF User

LEMMA DaemonFollows ==
    ASSUME IInv, Follows, page = "route", ~stray', Daemon PROVE Follows'
<1> SUFFICES ASSUME NEW k \in DOMAIN requests,
                    \/ \E outcome \in Outcome : Serve(k, outcome)
                    \/ Answer(k)
                    \/ \E works \in BOOLEAN :
                         ServeNames(k, works) \/ refreshMetadata(k, works)
                    \/ AnswerNames(k)
                    \/ AnswerInstall(k)
             PROVE  Follows'
  BY DEF Daemon
<1> QED
  BY ServeFollows, AnswerFollows, ServeNamesFollows, AnswerNamesFollows,
     AnswerInstallFollows, RefreshMetadataFollows

LEMMA InitFollows == Init => FollowInv
<1> SUFFICES ASSUME Init, page = "route" PROVE Follows  BY DEF FollowInv
<1>1. /\ stored = Save(IdsOf(file.rules), NamesOf(file.rules))
      /\ cache = file /\ names = NamesOf(file.rules) /\ draft = file
      /\ nameDraft = NULL /\ requests = <<>>
  BY DEF Init
<1>2. SectionsInv  BY InitIInv DEF IInv
<1>3. draft # NULL  BY <1>1, <1>2, Objects
<1>4. Len(requests) = 0 /\ \A k : k \notin 1 .. Len(requests)  BY <1>1
<1>5. Level(file, stored, cache, draft.rules, Metadata, requests)
  BY <1>1, <1>4 DEF Level, Metadata, Exact
<1>6. Ordered(requests) /\ Current(file, cache, requests)
  BY <1>1, <1>4 DEF Ordered, Current
<1> QED  BY <1>3, <1>5, <1>6 DEF Follows, Together

LEMMA NextFollows == IInv /\ FollowInv /\ [Next]_vars => FollowInv'
<1> SUFFICES ASSUME IInv, FollowInv, [Next]_vars, page' = "route", ~stray'
             PROVE  Follows'
  BY DEF FollowInv
<1>1. page = "route" /\ ~stray /\ Follows  BY Steady DEF FollowInv
<1>2. CASE User  BY <1>1, <1>2, UserFollows
<1>3. CASE Daemon  BY <1>1, <1>3, DaemonFollows
<1>4. ~\E s \in Rewrites(file) : ForeignWrite(s)  BY DEF ForeignWrite
<1>5. CASE UNCHANGED vars
  BY <1>1, <1>5 DEF vars, server, client, Follows, Metadata
<1> QED
  BY <1>1, <1>2, <1>3, <1>4, <1>5, RefetchFollows, RefetchNamesFollows DEF Next

-----------------------------------------------------------------------------
(* The theorems. *)

LEMMA Inductive == Spec => []IInv
<1>1. Init => IInv  BY InitIInv
<1>2. IInv /\ [Next]_vars => IInv'  BY NextIInv
<1> QED  BY <1>1, <1>2, PTL DEF Spec

\* The pages stay in their types: no list is longer than a save or an
\* installation makes it, whatever the dialogs, answers and refetches do.
THEOREM PagesTyped == Spec => []TypeOK
<1>1. IInv => TypeOK
  <2> SUFFICES ASSUME IInv PROVE TypeOK  OBVIOUS
  <2>1. SectionsInv /\ RequestsInv /\ NamesInv /\ CountInv /\ DialogInv
    BY DEF IInv
  <2>2. Saved \subseteq Global /\ Drafted \subseteq Global /\ submitted \subseteq Global
    BY <2>1 DEF SectionsInv, Saved, Drafted
  <2>3. FileItem \subseteq SolidItem  BY DEF SolidItem
  <2>4. /\ SectionOf(Saved, FileItem) \subseteq Section
        /\ SectionOf(Drafted, SolidItem) \subseteq Section
        /\ RequestOf(Saved) \subseteq Request
    <3> HIDE DEF Saved, Drafted
    <3> QED  BY <2>2, <2>3, TypesFit
  <2>5. page \in Page /\ {file, cache} \subseteq Section
        /\ draft \in Section \cup {NULL}
    <3> HIDE DEF Saved, Drafted
    <3> QED  BY <2>1, <2>4 DEF SectionsInv
  <2>6. requests \in Seq(Request) /\ Len(requests) <= MaxRequests
    <3> HIDE DEF Saved
    <3> QED  BY <2>1, <2>4, SeqMonotonic DEF RequestsInv
  <2>7. stored \in Seq([fp : Id \cup {DefaultRule},
                        name : Name \cup {NoName, DefaultName}])
        /\ names \in NameList /\ nameDraft \in NameList \cup {NULL}
    BY <2>1 DEF NamesInv, Entry, Called
  <2>8. dialog \in Dialog \cup {NULL}  BY <2>1 DEF DialogInv, Open
  <2> QED  BY <2>1, <2>2, <2>5, <2>6, <2>7, <2>8 DEF TypeOK, CountInv
<1> QED  BY <1>1, Inductive, PTL

\* Globals that are still being edited never get into the file with a list
\* that is saved (updateBoth), through no order of saves and refetches.
THEOREM GlobalsSeparate == Spec => []SeparateSaves
<1>1. IInv => SeparateSaves
  <2> SUFFICES ASSUME IInv, page # "endpoints" PROVE file.globals \in submitted
    BY DEF SeparateSaves
  <2>1. file \in SectionOf(Saved, FileItem) /\ Saved = submitted
    BY DEF IInv, SectionsInv, Saved
  <2> QED  BY <2>1 DEF SectionOf
<1> QED  BY <1>1, Inductive, PTL

\* A dialog of a policy or an endpoint writes back the entry it was opened
\* on: the editor's key closes it when the list behind it is replaced.
THEOREM DialogsKeepItem == Spec => []DialogItem
<1>1. IInv => DialogItem  BY DEF IInv, DialogInv, Open, DialogItem
<1> QED  BY <1>1, Inductive, PTL

\* A dialog with a field that shows an error cannot be saved, whatever was
\* typed and chosen in it before (useFieldValidity).
THEOREM ErrorsBlockSave == Spec => []DraftGates
<1>1. IInv => DraftGates
  BY DEF IInv, DialogInv, Open, DraftGates, canSave
<1> QED  BY <1>1, Inductive, PTL

\* The names on the screen, and those that are listed, belong to the rules
\* beside which they stand whenever nothing is in flight: for any number of
\* operations, saves, answers and refetches in any order, a rule never gets
\* the name of another (alignedMetadata, persistRules).
THEOREM NamesStay == Spec => []NamesFollow
<1>1. IInv /\ FollowInv => NamesFollow
  <2> SUFFICES ASSUME IInv, FollowInv, page = "route", ~stray, requests = <<>>,
                      draft # NULL
               PROVE  /\ alignedMetadata(draft.rules) = NamesOf(Seen)
                      /\ Listed = NamesOf(file.rules)
    BY DEF NamesFollow
  <2>1. SectionsInv /\ RequestsInv  BY DEF IInv
  <2>2. Together(file, stored, cache, draft.rules, Metadata, nameDraft # NULL,
                 requests)
    BY DEF FollowInv, Follows
  <2>3. Exact(file, stored) /\ alignedMetadata(draft.rules) = NamesOf(Seen)
    BY <2>1, <2>2, Quiet
  <2> QED  BY <2>1, <2>3, ListedNames
<1>2. Init => FollowInv  BY InitFollows
<1>3. IInv /\ FollowInv /\ [Next]_vars => FollowInv'  BY NextFollows
<1> QED  BY <1>1, <1>2, <1>3, Inductive, PTL DEF Spec
=============================================================================
