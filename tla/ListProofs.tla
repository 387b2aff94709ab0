----------------------------- MODULE ListProofs -----------------------------
(***************************************************************************)
(* What SyncOutbounds does with lists, whatever is in them: Only,          *)
(* FlattenSeq, the last outbound with a tag.                               *)
(***************************************************************************)
EXTENDS SyncOutbounds, SequenceTheorems, WellFoundedInduction, TLAPS

----------------------------------------------------------------------------
(* Induction, with a set for the induction hypothesis. *)

LEMMA SetInduction ==
  ASSUME NEW T, 0 \in T, \A n \in Nat : n \in T => n + 1 \in T
  PROVE  \A n \in Nat : n \in T
<1> DEFINE Bad == {n \in Nat : n \notin T}
<1>1. SUFFICES ASSUME Bad # {} PROVE FALSE
  OBVIOUS
<1>2. Bad \subseteq Nat
  OBVIOUS
<1>3. PICK m \in Bad : \A k \in Bad : ~(<<k, m>> \in OpToRel(<, Nat))
  BY <1>1, <1>2, NatLessThanWellFounded, WFMin
<1>4. \A k \in Bad : ~(k < m)
  BY <1>3 DEF OpToRel
<1>5. m # 0 /\ m \in Nat
  OBVIOUS
<1>6. m - 1 \in Nat /\ m - 1 < m /\ (m - 1) + 1 = m
  BY <1>5
<1>7. m - 1 \in T
  BY <1>4, <1>6
<1> QED
  BY <1>6, <1>7

\* Sequences are made by Append.
LEMMA SeqInduction ==
  ASSUME NEW E, NEW T, <<>> \in T,
         \A s \in Seq(E), e \in E : s \in T => Append(s, e) \in T
  PROVE  \A s \in Seq(E) : s \in T
<1> DEFINE L == {n \in Nat : \A s \in Seq(E) : Len(s) = n => s \in T}
<1>1. 0 \in L
  <2>1. \A s \in Seq(E) : Len(s) = 0 => s = <<>>
    BY EmptySeq
  <2> QED
    BY <2>1
<1>2. ASSUME NEW n \in Nat, n \in L PROVE n + 1 \in L
  <2> SUFFICES ASSUME NEW s \in Seq(E), Len(s) = n + 1
               PROVE  s \in T
    OBVIOUS
  <2> DEFINE r == SubSeq(s, 1, n)
  <2>1. r \in Seq(E) /\ Len(r) = n
    BY SubSeqProperties
  <2>2. s[n + 1] \in E
    BY ElementOfSeq
  <2>3. Append(r, s[n + 1]) = s
    <3>1. Append(r, s[n + 1]) \in Seq(E) /\ Len(Append(r, s[n + 1])) = n + 1
      BY <2>1, <2>2, AppendProperties
    <3>2. \A i \in 1 .. n + 1 : Append(r, s[n + 1])[i] = s[i]
      BY <2>1, <2>2, AppendProperties, SubSeqProperties
    <3> QED
      BY <3>1, <3>2, SeqEqual
  <2>4. r \in T
    BY <1>2, <2>1
  <2> HIDE DEF r
  <2> QED
    BY <2>1, <2>2, <2>3, <2>4
<1> HIDE DEF L
<1>3. \A n \in Nat : n \in L
  BY <1>1, <1>2, SetInduction
<1> QED
  BY <1>3, LenProperties DEF L

\* The elements of longer sequences.
LEMMA AppendToSet ==
  ASSUME NEW E, NEW s \in Seq(E), NEW e \in E
  PROVE  ToSet(Append(s, e)) = ToSet(s) \cup {e}
<1>1. /\ Len(s) \in Nat /\ DOMAIN s = 1 .. Len(s)
      /\ DOMAIN Append(s, e) = 1 .. Len(s) + 1
      /\ \A i \in 1 .. Len(s) : Append(s, e)[i] = s[i]
      /\ Append(s, e)[Len(s) + 1] = e
  BY AppendProperties, LenProperties
<1> QED
  BY <1>1 DEF ToSet

LEMMA ConcatToSet ==
  ASSUME NEW E, NEW s \in Seq(E), NEW t \in Seq(E)
  PROVE  ToSet(s \o t) = ToSet(s) \cup ToSet(t)
<1> DEFINE m == Len(s)
           n == Len(t)
           r == s \o t
<1>1. /\ m \in Nat /\ n \in Nat /\ DOMAIN s = 1 .. m /\ DOMAIN t = 1 .. n
      /\ DOMAIN r = 1 .. m + n
      /\ \A i \in 1 .. m + n : r[i] = IF i <= m THEN s[i] ELSE t[i - m]
  BY ConcatProperties, LenProperties
<1> HIDE DEF m, n, r
<1>2. ASSUME NEW i \in 1 .. m + n PROVE r[i] \in ToSet(s) \cup ToSet(t)
  <2>1. CASE i <= m
    <3>1. i \in 1 .. m /\ r[i] = s[i]
      BY <1>1, <2>1
    <3> QED
      BY <1>1, <3>1 DEF ToSet
  <2>2. CASE ~(i <= m)
    <3>1. i - m \in 1 .. n /\ r[i] = t[i - m]
      BY <1>1, <2>2
    <3> QED
      BY <1>1, <3>1 DEF ToSet
  <2> QED
    BY <2>1, <2>2
<1>3. ToSet(s) \subseteq ToSet(r)
  BY <1>1 DEF ToSet
<1>4. ASSUME NEW i \in DOMAIN t PROVE t[i] \in ToSet(r)
  <2>1. i + m \in 1 .. m + n /\ ~(i + m <= m) /\ (i + m) - m = i
    BY <1>1
  <2>2. r[i + m] = t[i]
    BY <1>1, <2>1
  <2> QED
    BY <1>1, <2>1, <2>2 DEF ToSet
<1>5. ToSet(r) = ToSet(s) \cup ToSet(t)
  BY <1>1, <1>2, <1>3, <1>4 DEF ToSet
<1> QED
  BY <1>5 DEF r

LEMMA ConcatAppend ==
  ASSUME NEW E, NEW s \in Seq(E), NEW t \in Seq(E), NEW e \in E
  PROVE  s \o Append(t, e) = Append(s \o t, e)
<1>1. Append(t, e) = t \o <<e>> /\ Append(s \o t, e) = (s \o t) \o <<e>>
  BY AppendIsConcat, ConcatProperties
<1>2. <<e>> \in Seq(E)
  OBVIOUS
<1> QED
  BY <1>1, <1>2, ConcatAssociative

----------------------------------------------------------------------------
(* Only. *)

\* The recursive function in the definition of Only, up to n.
OnlyFcn(s, S, n, f) ==
    f = [i \in 0 .. n |->
            IF i = 0 THEN <<>>
            ELSE IF s[i] \in S THEN Append(f[i - 1], s[i]) ELSE f[i - 1]]

LEMMA OnlyFcnExists ==
  ASSUME NEW s, NEW S
  PROVE  \A n \in Nat : \E f : OnlyFcn(s, S, n, f)
<1> DEFINE T == {n \in Nat : \E f : OnlyFcn(s, S, n, f)}
<1>1. 0 \in T
  <2> DEFINE f == [i \in 0 .. 0 |-> <<>>]
  <2>1. OnlyFcn(s, S, 0, f)
    BY DEF OnlyFcn
  <2> QED
    BY <2>1
<1>2. ASSUME NEW n \in Nat, n \in T PROVE n + 1 \in T
  <2>1. PICK f : OnlyFcn(s, S, n, f)
    BY <1>2
  <2> DEFINE next(h, i) == IF i = 0 THEN <<>>
                           ELSE IF s[i] \in S THEN Append(h[i - 1], s[i])
                                              ELSE h[i - 1]
             g == [i \in 0 .. n + 1 |->
                     IF i <= n THEN f[i]
                     ELSE IF s[i] \in S THEN Append(f[n], s[i]) ELSE f[n]]
  <2>2. \A i \in 0 .. n : g[i] = f[i]
    OBVIOUS
  <2>3. \A i \in 0 .. n : f[i] = next(f, i)
    BY <2>1 DEF OnlyFcn
  <2>4. ASSUME NEW i \in 0 .. n + 1 PROVE g[i] = next(g, i)
    <3>1. CASE i = 0
      BY <3>1, <2>2, <2>3
    <3>2. CASE i \in 1 .. n
      <4>1. i - 1 \in 0 .. n /\ i \in 0 .. n /\ i # 0
        BY <3>2
      <4>2. g[i] = f[i] /\ g[i - 1] = f[i - 1]
        BY <4>1, <2>2
      <4> HIDE DEF g
      <4> QED
        BY <4>1, <4>2, <2>3
    <3>3. CASE i = n + 1
      <4>1. g[i] = IF s[i] \in S THEN Append(f[n], s[i]) ELSE f[n]
        BY <3>3
      <4>2. g[i - 1] = f[n]
        BY <3>3, <2>2
      <4> HIDE DEF g
      <4> QED
        BY <3>3, <4>1, <4>2
    <3> QED
      BY <3>1, <3>2, <3>3
  <2>5. g = [i \in 0 .. n + 1 |-> g[i]]
    OBVIOUS
  <2>6. OnlyFcn(s, S, n + 1, g)
    <3> HIDE DEF g
    <3> QED
      BY <2>4, <2>5 DEF OnlyFcn
  <2> HIDE DEF g
  <2> QED
    BY <2>6
<1> HIDE DEF T
<1>3. \A n \in Nat : n \in T
  BY <1>1, <1>2, SetInduction
<1> QED
  BY <1>3 DEF T

LEMMA OnlyUnfold ==
  ASSUME NEW s, NEW S, Len(s) \in Nat
  PROVE  \E f : OnlyFcn(s, S, Len(s), f) /\ Only(s, S) = f[Len(s)]
<1>1. \E f : OnlyFcn(s, S, Len(s), f)
  BY OnlyFcnExists
<1> DEFINE h == CHOOSE f : OnlyFcn(s, S, Len(s), f)
<1>2. OnlyFcn(s, S, Len(s), h)
  BY <1>1
<1>3. Only(s, S) = h[Len(s)]
  BY DEF Only, OnlyFcn
<1> QED
  BY <1>2, <1>3

\* Only on the two forms of a sequence.
LEMMA OnlyEmpty ==
  ASSUME NEW S
  PROVE  Only(<<>>, S) = <<>>
<1>1. Len(<<>>) = 0
  OBVIOUS
<1> QED
  BY <1>1, OnlyUnfold DEF OnlyFcn

LEMMA OnlyAppend ==
  ASSUME NEW E, NEW s \in Seq(E), NEW e \in E, NEW S
  PROVE  Only(Append(s, e), S) = IF e \in S THEN Append(Only(s, S), e)
                                            ELSE Only(s, S)
<1> DEFINE n == Len(s)
           r == Append(s, e)
<1>1. n \in Nat /\ Len(r) = n + 1 /\ r[n + 1] = e
      /\ \A i \in 1 .. n : r[i] = s[i]
  BY AppendProperties, LenProperties
<1>2. PICK f : OnlyFcn(s, S, n, f) /\ Only(s, S) = f[n]
  BY <1>1, OnlyUnfold
<1>3. PICK g : OnlyFcn(r, S, n + 1, g) /\ Only(r, S) = g[n + 1]
  <2>1. Len(r) \in Nat /\ Len(r) = n + 1
    BY <1>1
  <2> HIDE DEF r, n
  <2>2. \E g : OnlyFcn(r, S, Len(r), g) /\ Only(r, S) = g[Len(r)]
    BY <2>1, OnlyUnfold
  <2> QED
    BY <2>1, <2>2
<1> HIDE DEF n, r
<1> DEFINE T == {i \in Nat : i <= n => g[i] = f[i]}
<1>4. 0 \in T
  BY <1>1, <1>2, <1>3 DEF OnlyFcn
<1>5. ASSUME NEW i \in Nat, i \in T PROVE i + 1 \in T
  <2> SUFFICES ASSUME i + 1 <= n PROVE g[i + 1] = f[i + 1]
    OBVIOUS
  <2>1. i \in 0 .. n /\ i + 1 \in 1 .. n /\ (i + 1) - 1 = i /\ i + 1 # 0
        /\ i + 1 \in 0 .. n /\ i + 1 \in 0 .. n + 1
    BY <1>1
  <2>2. g[i] = f[i] /\ r[i + 1] = s[i + 1]
    BY <1>1, <1>5, <2>1
  <2>3. f[i + 1] = IF s[i + 1] \in S THEN Append(f[i], s[i + 1]) ELSE f[i]
    BY <1>2, <2>1 DEF OnlyFcn
  <2>4. g[i + 1] = IF r[i + 1] \in S THEN Append(g[i], r[i + 1]) ELSE g[i]
    BY <1>3, <2>1 DEF OnlyFcn
  <2> QED
    BY <2>2, <2>3, <2>4
<1> HIDE DEF T
<1>6. n \in T
  BY <1>1, <1>4, <1>5, SetInduction
<1>7. g[n] = f[n]
  BY <1>1, <1>6 DEF T
<1>8. g[n + 1] = IF r[n + 1] \in S THEN Append(g[n], r[n + 1]) ELSE g[n]
  <2>1. n + 1 \in 0 .. n + 1 /\ n + 1 # 0 /\ (n + 1) - 1 = n
    BY <1>1
  <2> QED
    BY <1>3, <2>1 DEF OnlyFcn
<1>9. Only(r, S) = IF e \in S THEN Append(Only(s, S), e) ELSE Only(s, S)
  BY <1>1, <1>2, <1>3, <1>7, <1>8
<1> QED
  BY <1>9 DEF r

\* Only gives a sequence of the elements of s that are in S.
LEMMA OnlyElements ==
  ASSUME NEW E, NEW S
  PROVE  \A s \in Seq(E) : /\ Only(s, S) \in Seq(E)
                          /\ ToSet(Only(s, S)) = ToSet(s) \cap S
<1> DEFINE T == {s \in Seq(E) : /\ Only(s, S) \in Seq(E)
                               /\ ToSet(Only(s, S)) = ToSet(s) \cap S}
<1>1. <<>> \in T
  <2>1. <<>> \in Seq(E) /\ Only(<<>>, S) = <<>>
    BY OnlyEmpty
  <2>2. ToSet(<<>>) = {}
    BY DEF ToSet
  <2> QED
    BY <2>1, <2>2
<1>2. ASSUME NEW s \in Seq(E), NEW e \in E, s \in T PROVE Append(s, e) \in T
  <2>1. ToSet(Append(s, e)) = ToSet(s) \cup {e}
    BY AppendToSet
  <2>2. CASE e \in S
    <3>1. Only(Append(s, e), S) = Append(Only(s, S), e)
      BY <2>2, OnlyAppend
    <3>2. ToSet(Append(Only(s, S), e)) = ToSet(Only(s, S)) \cup {e}
      BY <1>2, AppendToSet
    <3>3. Append(s, e) \in Seq(E) /\ Append(Only(s, S), e) \in Seq(E)
      BY <1>2, AppendProperties
    <3> QED
      BY <1>2, <2>1, <2>2, <3>1, <3>2, <3>3
  <2>3. CASE e \notin S
    <3>1. Only(Append(s, e), S) = Only(s, S)
      BY <2>3, OnlyAppend
    <3>2. Append(s, e) \in Seq(E)
      BY AppendProperties
    <3> QED
      BY <1>2, <2>1, <2>3, <3>1, <3>2
  <2> QED
    BY <2>2, <2>3
<1> HIDE DEF T
<1>3. \A s \in Seq(E) : s \in T
  BY <1>1, <1>2, SeqInduction
<1> QED
  BY <1>3 DEF T

\* Only of a concatenation.
LEMMA OnlyConcat ==
  ASSUME NEW E, NEW s \in Seq(E), NEW S
  PROVE  \A t \in Seq(E) : Only(s \o t, S) = Only(s, S) \o Only(t, S)
<1> DEFINE T == {t \in Seq(E) : Only(s \o t, S) = Only(s, S) \o Only(t, S)}
<1>0. Only(s, S) \in Seq(E)
  BY OnlyElements
<1>1. <<>> \in T
  BY <1>0, OnlyEmpty, ConcatEmptySeq
<1>2. ASSUME NEW t \in Seq(E), NEW e \in E, t \in T PROVE Append(t, e) \in T
  <2>1. s \o Append(t, e) = Append(s \o t, e)
    BY ConcatAppend
  <2>2. s \o t \in Seq(E) /\ Append(t, e) \in Seq(E) /\ Only(t, S) \in Seq(E)
    BY ConcatProperties, AppendProperties, OnlyElements
  <2>3. Only(s \o Append(t, e), S)
          = IF e \in S THEN Append(Only(s \o t, S), e) ELSE Only(s \o t, S)
    BY <2>1, <2>2, OnlyAppend
  <2>4. Only(Append(t, e), S) = IF e \in S THEN Append(Only(t, S), e)
                                           ELSE Only(t, S)
    BY OnlyAppend
  <2>5. Only(s, S) \o Append(Only(t, S), e) = Append(Only(s, S) \o Only(t, S), e)
    BY <1>0, <2>2, ConcatAppend
  <2> QED
    BY <1>2, <2>2, <2>3, <2>4, <2>5
<1> HIDE DEF T
<1>3. \A t \in Seq(E) : t \in T
  BY <1>1, <1>2, SeqInduction
<1> QED
  BY <1>3 DEF T

\* Selecting from two lists in a row.
LEMMA OnlyInRow ==
  ASSUME NEW E, NEW S, NEW x \in Seq(E), NEW y \in Seq(E)
  PROVE  Only(x \o y, S) = Only(x, S) \o Only(y, S)
BY OnlyConcat

\* Of five lists in a row, only the second one has anything in S.
LEMMA FiveParts ==
  ASSUME NEW E, NEW S, NEW a \in Seq(E), NEW b \in Seq(E), NEW c \in Seq(E),
         NEW d \in Seq(E), NEW e \in Seq(E),
         Only(a, S) = <<>>, Only(c, S) = <<>>, Only(d, S) = <<>>, Only(e, S) = <<>>
  PROVE  Only((((a \o b) \o c) \o d) \o e, S) = Only(b, S)
<1>1. ASSUME NEW x \in Seq(E), NEW y \in Seq(E), Only(y, S) = <<>>
      PROVE  x \o y \in Seq(E) /\ Only(x \o y, S) = Only(x, S)
  <2>1. Only(x \o y, S) = Only(x, S) \o Only(y, S)
    BY OnlyInRow
  <2>2. Only(x, S) \in Seq(E)
    BY OnlyElements
  <2>3. Only(x, S) \o Only(y, S) = Only(x, S)
    BY <1>1, <2>2, ConcatEmptySeq
  <2> QED
    BY <2>1, <2>3, ConcatProperties
<1>2. a \o b \in Seq(E) /\ Only(a \o b, S) = Only(b, S)
  <2>1. Only(a \o b, S) = Only(a, S) \o Only(b, S)
    BY OnlyInRow
  <2>2. Only(b, S) \in Seq(E)
    BY OnlyElements
  <2>3. Only(a, S) \o Only(b, S) = Only(b, S)
    BY <2>2, ConcatEmptySeq
  <2> QED
    BY <2>1, <2>3, ConcatProperties
<1> DEFINE ab == a \o b
           abc == ab \o c
           abcd == abc \o d
           abcde == abcd \o e
<1>3. abcde = (((a \o b) \o c) \o d) \o e
  OBVIOUS
<1>4. ab \in Seq(E) /\ Only(ab, S) = Only(b, S)
  BY <1>2
<1> HIDE DEF ab
<1>5. abc \in Seq(E) /\ Only(abc, S) = Only(ab, S)
  BY <1>1, <1>4
<1> HIDE DEF abc
<1>6. abcd \in Seq(E) /\ Only(abcd, S) = Only(abc, S)
  BY <1>1, <1>5
<1> HIDE DEF abcd
<1>7. abcde \in Seq(E) /\ Only(abcde, S) = Only(abcd, S)
  BY <1>1, <1>6
<1> HIDE DEF abcde
<1> QED
  BY <1>3, <1>4, <1>5, <1>6, <1>7

\* Two sets that agree on the elements of s select the same from s.
LEMMA OnlySame ==
  ASSUME NEW E, NEW A, NEW B
  PROVE  \A s \in Seq(E) : (\A x \in ToSet(s) : x \in A <=> x \in B)
                           => Only(s, A) = Only(s, B)
<1> DEFINE T == {s \in Seq(E) : (\A x \in ToSet(s) : x \in A <=> x \in B)
                                => Only(s, A) = Only(s, B)}
<1>1. <<>> \in T
  BY OnlyEmpty
<1>2. ASSUME NEW s \in Seq(E), NEW e \in E, s \in T PROVE Append(s, e) \in T
  <2>1. ToSet(Append(s, e)) = ToSet(s) \cup {e} /\ Append(s, e) \in Seq(E)
    BY AppendToSet, AppendProperties
  <2>2. Only(Append(s, e), A) = IF e \in A THEN Append(Only(s, A), e)
                                           ELSE Only(s, A)
    BY OnlyAppend
  <2>3. Only(Append(s, e), B) = IF e \in B THEN Append(Only(s, B), e)
                                           ELSE Only(s, B)
    BY OnlyAppend
  <2> QED
    BY <1>2, <2>1, <2>2, <2>3
<1> HIDE DEF T
<1>3. \A s \in Seq(E) : s \in T
  BY <1>1, <1>2, SeqInduction
<1> QED
  BY <1>3 DEF T

\* Only keeps everything, or nothing.
LEMMA OnlyAll ==
  ASSUME NEW E, NEW S
  PROVE  \A s \in Seq(E) : ToSet(s) \subseteq S => Only(s, S) = s
<1> DEFINE T == {s \in Seq(E) : ToSet(s) \subseteq S => Only(s, S) = s}
<1>1. <<>> \in T
  BY OnlyEmpty
<1>2. ASSUME NEW s \in Seq(E), NEW e \in E, s \in T PROVE Append(s, e) \in T
  <2>1. ToSet(Append(s, e)) = ToSet(s) \cup {e} /\ Append(s, e) \in Seq(E)
    BY AppendToSet, AppendProperties
  <2>2. Only(Append(s, e), S) = IF e \in S THEN Append(Only(s, S), e)
                                           ELSE Only(s, S)
    BY OnlyAppend
  <2> QED
    BY <1>2, <2>1, <2>2
<1> HIDE DEF T
<1>3. \A s \in Seq(E) : s \in T
  BY <1>1, <1>2, SeqInduction
<1> QED
  BY <1>3 DEF T

LEMMA OnlyNone ==
  ASSUME NEW E, NEW S
  PROVE  \A s \in Seq(E) : ToSet(s) \cap S = {} => Only(s, S) = <<>>
<1>1. ASSUME NEW s \in Seq(E), ToSet(s) \cap S = {} PROVE Only(s, S) = <<>>
  <2>1. Only(s, S) \in Seq(E) /\ ToSet(Only(s, S)) = {}
    BY <1>1, OnlyElements
  <2>2. DOMAIN Only(s, S) = 1 .. Len(Only(s, S)) /\ Len(Only(s, S)) \in Nat
    BY <2>1, LenProperties
  <2>3. DOMAIN Only(s, S) = {}
    BY <2>1 DEF ToSet
  <2>4. Len(Only(s, S)) = 0
    BY <2>2, <2>3
  <2> QED
    BY <2>1, <2>4, EmptySeq
<1> QED
  BY <1>1

\* Only of what Only has left.
LEMMA OnlyOnly ==
  ASSUME NEW E, NEW A, NEW B
  PROVE  \A s \in Seq(E) : Only(Only(s, A), B) = Only(s, A \cap B)
<1> DEFINE T == {s \in Seq(E) : Only(Only(s, A), B) = Only(s, A \cap B)}
<1>1. <<>> \in T
  BY OnlyEmpty
<1>2. ASSUME NEW s \in Seq(E), NEW e \in E, s \in T PROVE Append(s, e) \in T
  <2>1. Append(s, e) \in Seq(E) /\ Only(s, A) \in Seq(E)
    BY AppendProperties, OnlyElements
  <2>2. Only(Append(s, e), A) = IF e \in A THEN Append(Only(s, A), e)
                                           ELSE Only(s, A)
    BY OnlyAppend
  <2>3. Only(Append(Only(s, A), e), B)
          = IF e \in B THEN Append(Only(Only(s, A), B), e) ELSE Only(Only(s, A), B)
    BY <2>1, OnlyAppend
  <2>4. Only(Append(s, e), A \cap B)
          = IF e \in A \cap B THEN Append(Only(s, A \cap B), e)
                              ELSE Only(s, A \cap B)
    BY OnlyAppend
  <2> QED
    <3>1. Only(Only(s, A), B) = Only(s, A \cap B)
      BY <1>2
    <3>2. CASE e \in A
      <4>1. Only(Append(s, e), A) = Append(Only(s, A), e)
        BY <2>2, <3>2
      <4>2. e \in A \cap B <=> e \in B
        BY <3>2
      <4> QED
        BY <2>1, <2>3, <2>4, <3>1, <4>1, <4>2
    <3>3. CASE e \notin A
      BY <2>1, <2>2, <2>4, <3>1, <3>3
    <3> QED
      BY <3>2, <3>3
<1> HIDE DEF T
<1>3. \A s \in Seq(E) : s \in T
  BY <1>1, <1>2, SeqInduction
<1> QED
  BY <1>3 DEF T

----------------------------------------------------------------------------
(* FlattenSeq. *)

\* The recursive function in the definition of FlattenSeq, up to n.
FlattenFcn(ss, n, f) ==
    f = [i \in 1 .. n |-> IF i = 1 THEN ss[i] ELSE f[i - 1] \o ss[i]]

LEMMA FlattenFcnExists ==
  ASSUME NEW ss
  PROVE  \A n \in Nat : \E f : FlattenFcn(ss, n, f)
<1> DEFINE T == {n \in Nat : \E f : FlattenFcn(ss, n, f)}
<1>1. 0 \in T
  <2> DEFINE f == [i \in 1 .. 0 |-> <<>>]
  <2>1. FlattenFcn(ss, 0, f)
    BY DEF FlattenFcn
  <2> QED
    BY <2>1
<1>2. ASSUME NEW n \in Nat, n \in T PROVE n + 1 \in T
  <2>1. PICK f : FlattenFcn(ss, n, f)
    BY <1>2
  <2> DEFINE g == [i \in 1 .. n + 1 |->
                     IF i <= n THEN f[i]
                     ELSE IF i = 1 THEN ss[i] ELSE f[n] \o ss[i]]
  <2>2. \A i \in 1 .. n : g[i] = f[i]
    OBVIOUS
  <2>3. \A i \in 1 .. n : f[i] = IF i = 1 THEN ss[i] ELSE f[i - 1] \o ss[i]
    BY <2>1 DEF FlattenFcn
  <2>4. ASSUME NEW i \in 1 .. n + 1
        PROVE  g[i] = IF i = 1 THEN ss[i] ELSE g[i - 1] \o ss[i]
    <3>1. CASE i \in 1 .. n
      <4>1. i # 1 => i - 1 \in 1 .. n
        BY <3>1
      <4>2. g[i] = f[i] /\ (i # 1 => g[i - 1] = f[i - 1])
        BY <3>1, <4>1, <2>2
      <4> HIDE DEF g
      <4> QED
        BY <3>1, <4>2, <2>3
    <3>2. CASE i = n + 1
      <4>1. g[i] = IF i = 1 THEN ss[i] ELSE f[n] \o ss[i]
        BY <3>2
      <4>2. i # 1 => g[i - 1] = f[n]
        BY <3>2, <2>2
      <4> HIDE DEF g
      <4> QED
        BY <3>2, <4>1, <4>2
    <3> QED
      BY <3>1, <3>2
  <2>5. g = [i \in 1 .. n + 1 |-> g[i]]
    OBVIOUS
  <2>6. FlattenFcn(ss, n + 1, g)
    <3> HIDE DEF g
    <3> QED
      BY <2>4, <2>5 DEF FlattenFcn
  <2> HIDE DEF g
  <2> QED
    BY <2>6
<1> HIDE DEF T
<1>3. \A n \in Nat : n \in T
  BY <1>1, <1>2, SetInduction
<1> QED
  BY <1>3 DEF T

\* FlattenSeq gives a sequence with the elements of each.
LEMMA FlattenElements ==
  ASSUME NEW E, NEW ss \in Seq(Seq(E))
  PROVE  /\ FlattenSeq(ss) \in Seq(E)
         /\ \A i \in DOMAIN ss : ToSet(ss[i]) \subseteq ToSet(FlattenSeq(ss))
<1> DEFINE n == Len(ss)
<1>0. n \in Nat /\ DOMAIN ss = 1 .. n /\ \A i \in 1 .. n : ss[i] \in Seq(E)
  BY LenProperties, ElementOfSeq
<1>1. CASE n = 0
  <2>1. ss = <<>> /\ FlattenSeq(ss) = <<>>
    BY <1>1, EmptySeq DEF FlattenSeq
  <2>2. <<>> \in Seq(E)
    OBVIOUS
  <2>3. DOMAIN ss = {}
    BY <1>0, <1>1
  <2> QED
    BY <2>1, <2>2, <2>3
<1>2. CASE n # 0
  <2> DEFINE h == CHOOSE f : FlattenFcn(ss, n, f)
  <2>1. FlattenFcn(ss, n, h)
    BY <1>0, FlattenFcnExists
  <2>2. FlattenSeq(ss) = h[n]
    BY <1>2 DEF FlattenSeq, FlattenFcn
  <2> HIDE DEF h, n
  <2>3. \A i \in 1 .. n : h[i] = IF i = 1 THEN ss[i] ELSE h[i - 1] \o ss[i]
    BY <2>1 DEF FlattenFcn
  <2> DEFINE good(k) == /\ h[k] \in Seq(E)
                        /\ \A i \in 1 .. k : ToSet(ss[i]) \subseteq ToSet(h[k])
             T == {k \in Nat : k \in 1 .. n => good(k)}
  <2>4. 0 \in T
    OBVIOUS
  <2>5. ASSUME NEW k \in Nat, k \in T PROVE k + 1 \in T
    <3> SUFFICES ASSUME k + 1 \in 1 .. n PROVE good(k + 1)
      OBVIOUS
    <3>1. CASE k = 0
      <4>1. h[k + 1] = ss[1] /\ 1 \in 1 .. n
        BY <2>3, <3>1
      <4>2. \A i \in 1 .. k + 1 : i = 1
        BY <3>1
      <4> QED
        BY <1>0, <4>1, <4>2
    <3>2. CASE k # 0
      <4>1. k \in 1 .. n /\ (k + 1) - 1 = k /\ k + 1 # 1
        BY <1>0, <3>2
      <4>2. h[k + 1] = h[k] \o ss[k + 1]
        BY <2>3, <4>1
      <4>3. good(k)
        BY <2>5, <4>1
      <4>4. ss[k + 1] \in Seq(E)
        BY <1>0
      <4>5. /\ h[k + 1] \in Seq(E)
            /\ ToSet(h[k + 1]) = ToSet(h[k]) \cup ToSet(ss[k + 1])
        BY <4>2, <4>3, <4>4, ConcatProperties, ConcatToSet
      <4>6. \A i \in 1 .. k + 1 : i \in 1 .. k \/ i = k + 1
        BY <4>1
      <4> QED
        BY <4>3, <4>5, <4>6
    <3> QED
      BY <3>1, <3>2
  <2> HIDE DEF T
  <2>6. n \in T
    BY <1>0, <2>4, <2>5, SetInduction
  <2>7. good(n)
    BY <1>0, <1>2, <2>6 DEF T
  <2> QED
    BY <1>0, <2>2, <2>7
<1> QED
  BY <1>1, <1>2

----------------------------------------------------------------------------
(* Existing. *)

\* A set of indexes has a greatest one.
LEMMA GreatestIndex ==
  \A n \in Nat : \A I \in SUBSET (1 .. n) :
     I # {} => Max(I) \in I /\ \A i \in I : i <= Max(I)
<1> DEFINE T == {n \in Nat : \A I \in SUBSET (1 .. n) :
                   I # {} => \E m \in I : \A i \in I : m >= i}
<1>1. 0 \in T
  <2>1. 1 .. 0 = {}
    OBVIOUS
  <2>2. \A I \in SUBSET (1 .. 0) : I = {}
    BY <2>1
  <2> QED
    BY <2>2
<1>2. ASSUME NEW n \in Nat, n \in T PROVE n + 1 \in T
  <2> SUFFICES ASSUME NEW I \in SUBSET (1 .. n + 1), I # {}
               PROVE  \E m \in I : \A i \in I : m >= i
    OBVIOUS
  <2>1. CASE n + 1 \in I
    BY <2>1
  <2>2. CASE n + 1 \notin I
    <3>1. I \in SUBSET (1 .. n)
      BY <2>2
    <3> QED
      BY <1>2, <3>1
  <2> QED
    BY <2>1, <2>2
<1> HIDE DEF T
<1>3. \A n \in Nat : n \in T
  BY <1>1, <1>2, SetInduction
<1> SUFFICES ASSUME NEW n \in Nat, NEW I \in SUBSET (1 .. n), I # {}
             PROVE  Max(I) \in I /\ \A i \in I : i <= Max(I)
  OBVIOUS
<1>4. \E m \in I : \A i \in I : m >= i
  BY <1>3 DEF T
<1>5. Max(I) \in I /\ \A i \in I : Max(I) >= i
  BY <1>4 DEF Max
<1> QED
  BY <1>5

\* i is the last index of s with tag t.
LastWith(s, t, i) ==
    /\ i \in 1 .. Len(s)
    /\ s[i].tag = t
    /\ \A j \in 1 .. Len(s) : j > i => s[j].tag # t

\* Existing finds the last outbound with the tag or starts from nothing.
LEMMA ExistingIsLast ==
  ASSUME NEW E, NEW s \in Seq(E), NEW t
  PROVE  /\ t # "" /\ (\E o \in ToSet(s) : o.tag = t)
            => \E i \in 1 .. Len(s) : LastWith(s, t, i)
         /\ \A i : t # "" /\ LastWith(s, t, i) => Existing(s, t) = s[i]
         /\ t = "" \/ (\A o \in ToSet(s) : o.tag # t)
            => Existing(s, t) = NewEntry
<1> DEFINE n == Len(s)
           I == {i \in 1 .. n : s[i].tag = t}
           k == IF I # {} THEN Max(I) ELSE 0
<1>1. n \in Nat /\ DOMAIN s = 1 .. n
  BY LenProperties
<1>2. I # {} => Max(I) \in I /\ \A i \in I : i <= Max(I)
  BY <1>1, GreatestIndex
<1>3. Existing(s, t) = IF t = "" \/ k = 0 THEN NewEntry ELSE s[k]
  BY DEF Existing, SelectLastInSeq
<1>4. I # {} <=> \E o \in ToSet(s) : o.tag = t
  BY <1>1 DEF ToSet
<1>5. I # {} => LastWith(s, t, Max(I))
  <2> SUFFICES ASSUME I # {} PROVE LastWith(s, t, Max(I))
    OBVIOUS
  <2> DEFINE m == Max(I)
  <2>1. m \in 1 .. n /\ s[m].tag = t /\ \A i \in I : i <= m
    BY <1>2
  <2> HIDE DEF m
  <2>2. ASSUME NEW j \in 1 .. n, j > m PROVE s[j].tag # t
    BY <1>1, <2>1, <2>2
  <2>3. LastWith(s, t, m)
    BY <2>1, <2>2 DEF LastWith
  <2> QED
    BY <2>3 DEF m
<1>6. ASSUME NEW i, t # "", LastWith(s, t, i) PROVE Existing(s, t) = s[i]
  <2>1. i \in I
    BY <1>6 DEF LastWith
  <2> DEFINE m == Max(I)
  <2>2. m \in I /\ i <= m
    BY <1>2, <2>1
  <2>3. m \in 1 .. n /\ s[m].tag = t /\ i \in 1 .. n
    BY <2>1, <2>2
  <2>4. k = m
    BY <2>1
  <2>5. Existing(s, t) = s[m]
    <3> HIDE DEF m, k, I, n
    <3>1. k # 0
      BY <1>1, <2>3, <2>4
    <3>2. Existing(s, t) = s[k]
      BY <1>3, <1>6, <3>1
    <3> QED
      BY <2>4, <3>2
  <2>6. \A j \in 1 .. n : j > i => s[j].tag # t
    BY <1>6 DEF LastWith
  <2> HIDE DEF m, k, I, n
  <2>7. m = i
    BY <1>1, <2>2, <2>3, <2>6
  <2> QED
    BY <2>5, <2>7
<1>7. t # "" /\ I # {} => \E i \in 1 .. n : LastWith(s, t, i)
  BY <1>5 DEF LastWith
<1>8. t = "" \/ I = {} => Existing(s, t) = NewEntry
  BY <1>3
<1> HIDE DEF I, k
<1> QED
  BY <1>4, <1>6, <1>7, <1>8

----------------------------------------------------------------------------
(* Lists made from lists. *)

LEMMA SeqMade ==
  ASSUME NEW E, NEW n \in Nat, NEW f \in [1 .. n -> E]
  PROVE  f \in Seq(E) /\ Len(f) = n /\ ToSet(f) = {f[i] : i \in 1 .. n}
<1>1. f \in Seq(E)
  BY SeqDef
<1>2. DOMAIN f = 1 .. n /\ Len(f) \in Nat /\ DOMAIN f = 1 .. Len(f)
  BY <1>1, LenProperties
<1>3. Len(f) = n
  BY <1>2
<1> QED
  BY <1>1, <1>2, <1>3 DEF ToSet

LEMMA TagsType ==
  ASSUME NEW E, \A o \in E : o.tag \in STRING, NEW s \in Seq(E)
  PROVE  /\ Tags(s) \in Seq(STRING) /\ Len(Tags(s)) = Len(s)
         /\ ToSet(Tags(s)) = {o.tag : o \in ToSet(s)}
<1>1. Len(s) \in Nat /\ DOMAIN s = 1 .. Len(s) /\ \A i \in 1 .. Len(s) : s[i] \in E
  BY LenProperties, ElementOfSeq
<1>2. Tags(s) \in [1 .. Len(s) -> STRING]
  BY <1>1 DEF Tags
<1> DEFINE f == Tags(s)
           n == Len(s)
<1>3. /\ f \in Seq(STRING) /\ Len(f) = n
      /\ ToSet(f) = {f[i] : i \in 1 .. n}
  <2>1. n \in Nat /\ f \in [1 .. n -> STRING]
    BY <1>1, <1>2
  <2> HIDE DEF n, f
  <2> QED
    BY <2>1, SeqMade
<1>4. ToSet(Tags(s)) = {o.tag : o \in ToSet(s)}
  BY <1>1, <1>3 DEF Tags, ToSet
<1> QED
  BY <1>3, <1>4

LEMMA OutboundTags ==
  ASSUME NEW s \in Seq(Outbound)
  PROVE  /\ Tags(s) \in Seq(STRING) /\ Len(Tags(s)) = Len(s)
         /\ ToSet(Tags(s)) = {o.tag : o \in ToSet(s)}
<1>1. \A o \in Outbound : o.tag \in STRING
  BY DEF Outbound
<1> QED
  BY <1>1, TagsType

\* The elements of a list are of its type.
LEMMA ToSetType ==
  ASSUME NEW E, NEW s \in Seq(E)
  PROVE  ToSet(s) \subseteq E /\ ToSet(s) = {s[i] : i \in 1 .. Len(s)}
BY LenProperties, ElementOfSeq DEF ToSet

\* An empty list is the one with no element.
LEMMA NoElement ==
  ASSUME NEW E, NEW s \in Seq(E)
  PROVE  s = <<>> <=> ToSet(s) = {}
<1>1. DOMAIN s = 1 .. Len(s) /\ Len(s) \in Nat
  BY LenProperties
<1>2. CASE ToSet(s) = {}
  <2>1. DOMAIN s = {}
    BY <1>2 DEF ToSet
  <2>2. Len(s) = 0
    BY <1>1, <2>1
  <2> QED
    BY <1>2, <2>2, EmptySeq
<1>3. CASE s = <<>>
  BY <1>3 DEF ToSet
<1> QED
  BY <1>2, <1>3

LEMMA NewEntryType == NewEntry \in Outbound /\ Direct \in Outbound
<1>1. <<>> \in Seq(STRING)
  BY EmptySeq
<1>2. "" \in STRING /\ "none" \in STRING /\ "direct" \in STRING
  BY LiteralAssumption
<1>3. NewEntry \in Outbound
  BY <1>1, <1>2 DEF NewEntry, Outbound
<1> QED
  BY <1>2, <1>3 DEF Direct, Outbound

LEMMA ExistingType ==
  ASSUME NEW s \in Seq(Outbound), NEW t
  PROVE  Existing(s, t) \in Outbound
<1>1. CASE t = "" \/ (\A o \in ToSet(s) : o.tag # t)
  BY <1>1, ExistingIsLast, NewEntryType
<1>2. CASE t # "" /\ \E o \in ToSet(s) : o.tag = t
  <2>1. PICK i \in 1 .. Len(s) : LastWith(s, t, i)
    BY <1>2, ExistingIsLast
  <2>2. Existing(s, t) = s[i]
    BY <1>2, <2>1, ExistingIsLast
  <2> QED
    BY <2>2, ElementOfSeq
<1> QED
  BY <1>1, <1>2

\* The last outbound with a tag in a list of two parts.
LEMMA ExistingConcat ==
  ASSUME NEW s \in Seq(Outbound), NEW r \in Seq(Outbound), NEW t
  PROVE  Existing(s \o r, t) = IF \E o \in ToSet(r) : o.tag = t
                               THEN Existing(r, t) ELSE Existing(s, t)
<1> DEFINE m == Len(s)
           n == Len(r)
           c == s \o r
<1>1. /\ c \in Seq(Outbound) /\ m \in Nat /\ n \in Nat /\ Len(c) = m + n
      /\ \A i \in 1 .. m + n : c[i] = IF i <= m THEN s[i] ELSE r[i - m]
  BY ConcatProperties, LenProperties
<1>2. /\ \A i \in 1 .. m : c[i] = s[i]
      /\ \A i \in 1 .. n : c[i + m] = r[i]
      /\ \A i \in 1 .. m + n : i \in 1 .. m \/ (i - m \in 1 .. n /\ (i - m) + m = i)
  BY <1>1
<1>3. ToSet(c) = ToSet(s) \cup ToSet(r)
  BY ConcatToSet
<1>4. ToSet(s) = {s[i] : i \in 1 .. m} /\ ToSet(r) = {r[i] : i \in 1 .. n}
  BY ToSetType
<1> HIDE DEF c
<1>5. CASE t = ""
  <2>1. \A x \in Seq(Outbound) : Existing(x, t) = NewEntry
    BY <1>5, ExistingIsLast
  <2> QED
    BY <1>1, <2>1 DEF c
<1>6. CASE t # "" /\ \E o \in ToSet(r) : o.tag = t
  <2>1. PICK i \in 1 .. n : LastWith(r, t, i)
    BY <1>6, ExistingIsLast
  <2>2. i + m \in 1 .. m + n /\ c[i + m] = r[i] /\ r[i].tag = t
    BY <1>1, <1>2, <2>1 DEF LastWith
  <2>3. ASSUME NEW j \in 1 .. m + n, j > i + m PROVE c[j].tag # t
    <3>1. j - m \in 1 .. n /\ j - m > i /\ (j - m) + m = j
      BY <1>1, <2>3
    <3>2. c[j] = r[j - m]
      BY <1>2, <3>1
    <3> QED
      BY <2>1, <3>1, <3>2 DEF LastWith
  <2>4. LastWith(c, t, i + m)
    BY <1>1, <2>2, <2>3 DEF LastWith
  <2>5. Existing(c, t) = c[i + m] /\ Existing(r, t) = r[i]
    BY <1>1, <1>6, <2>1, <2>4, ExistingIsLast
  <2> QED
    BY <1>6, <2>2, <2>5 DEF c
<1>7. CASE t # "" /\ \A o \in ToSet(r) : o.tag # t
  <2>1. CASE \E o \in ToSet(s) : o.tag = t
    <3>1. PICK i \in 1 .. m : LastWith(s, t, i)
      BY <1>7, <2>1, ExistingIsLast
    <3>2. i \in 1 .. m + n /\ c[i] = s[i] /\ s[i].tag = t
      BY <1>1, <1>2, <3>1 DEF LastWith
    <3>3. ASSUME NEW j \in 1 .. m + n, j > i PROVE c[j].tag # t
      <4>1. CASE j \in 1 .. m
        BY <1>2, <3>1, <3>3, <4>1 DEF LastWith
      <4>2. CASE j - m \in 1 .. n /\ (j - m) + m = j
        <5>1. c[j] = r[j - m] /\ r[j - m] \in ToSet(r)
          BY <1>2, <1>4, <4>2
        <5> QED
          BY <1>7, <5>1
      <4> QED
        BY <1>2, <4>1, <4>2
    <3>4. LastWith(c, t, i)
      BY <1>1, <3>2, <3>3 DEF LastWith
    <3>5. Existing(c, t) = c[i] /\ Existing(s, t) = s[i]
      BY <1>1, <1>7, <3>1, <3>4, ExistingIsLast
    <3> QED
      BY <1>7, <3>2, <3>5 DEF c
  <2>2. CASE \A o \in ToSet(s) : o.tag # t
    <3>1. Existing(c, t) = NewEntry /\ Existing(s, t) = NewEntry
      BY <1>1, <1>3, <1>7, <2>2, ExistingIsLast
    <3> QED
      BY <1>7, <3>1 DEF c
  <2> QED
    BY <2>1, <2>2
<1> QED
  BY <1>5, <1>6, <1>7

=============================================================================
