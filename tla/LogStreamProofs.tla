-------------------------- MODULE LogStreamProofs --------------------------
(***************************************************************************)
(* Proofs about LogStream: what a viewer is shown of the log, for any      *)
(* number of writers, entries and connections and any capacities.          *)
(***************************************************************************)
EXTENDS LogStream, SequenceTheorems, TLAPS

----------------------------------------------------------------------------
(* The inductive invariant. *)

\* The entries of one writer come in the order they were written.
InOrder(s) ==
    \A i, j \in DOMAIN s : i < j /\ s[i].by = s[j].by => s[i].n < s[j].n

\* In s no entry is newer than what its writer has written (C), and the one
\* that a writer is still to send to c (T) is not among them.
Known(s, c, C, T) ==
    \A i \in DOMAIN s :
        /\ s[i].n <= C[s[i].by]
        /\ c \in T[s[i].by] => s[i].n < C[s[i].by]

\* Whatever s has of a writer comes before what t has of it.
Before(s, t) ==
    \A i \in DOMAIN s, j \in DOMAIN t : s[i].by = t[j].by => s[i].n < t[j].n

\* The connections: one of the viewer's is there when it streams, and the
\* numbers it has not used yet have no handler.
ConnInv ==
    /\ hook = "streaming" => conns \in Conn
    /\ \A c \in Conn : c > conns => handler[c] = "none"

\* In s every entry is followed by all its writer wrote after it, when C says
\* how many each has written.
Newest(s, C) ==
    \A i \in DOMAIN s : \A n \in s[i].n .. C[s[i].by] :
        \E j \in i .. Len(s) : s[j] = [by |-> s[i].by, n |-> n]

Kept(s, C) ==
    /\ InOrder(s)
    /\ \A i \in DOMAIN s : s[i].n <= C[s[i].by]
    /\ Newest(s, C)

\* The buffer is in order, and ends with what its writers wrote last.
BufferInv == Kept(buffer, count)

\* A connection's past, its channel and what is still to be sent to it are in
\* order; before it has subscribed there is nothing in its channel or for it,
\* and before it has asked for the buffer nothing was sent to it.
Stream(c) ==
    /\ InOrder(sent[c]) /\ InOrder(queue[c]) /\ Before(sent[c], queue[c])
    /\ Known(sent[c], c, count, to) /\ Known(queue[c], c, count, to)
    /\ handler[c] \in {"none", "open"} => sent[c] = <<>>
    /\ handler[c] \in {"none", "open", "recent"} =>
          queue[c] = <<>> /\ \A w \in Writer : c \notin to[w]

StreamInv == \A c \in Conn : Stream(c)

IInv == TypeOK /\ ConnInv /\ BufferInv /\ StreamInv

----------------------------------------------------------------------------
(* Sequences of entries. *)

\* What Append makes of a sequence of entries.
LEMMA Appended ==
  ASSUME NEW s \in Seq(Entry), NEW e \in Entry
  PROVE  /\ Append(s, e) \in Seq(Entry) /\ Append(s, e) # <<>>
         /\ Len(Append(s, e)) = Len(s) + 1
         /\ DOMAIN Append(s, e) = 1 .. Len(s) + 1
         /\ DOMAIN s = 1 .. Len(s)
         /\ Len(s) \in Nat
         /\ \A i \in 1 .. Len(s) : Append(s, e)[i] = s[i]
         /\ Append(s, e)[Len(s) + 1] = e
BY AppendProperties, LenProperties

\* What Tail makes of a sequence of entries.
LEMMA Tailed ==
  ASSUME NEW s \in Seq(Entry), s # <<>>
  PROVE  /\ Tail(s) \in Seq(Entry)
         /\ Len(s) \in Nat \ {0}
         /\ Len(Tail(s)) = Len(s) - 1
         /\ DOMAIN Tail(s) = 1 .. Len(s) - 1
         /\ DOMAIN s = 1 .. Len(s)
         /\ \A i \in 1 .. Len(s) - 1 : Tail(s)[i] = s[i + 1]
         /\ Head(s) = s[1] /\ s[1] \in Entry
<1>1. Len(s) \in Nat \ {0} /\ DOMAIN s = 1 .. Len(s)
  BY EmptySeq, LenProperties
<1>2. Tail(s) \in Seq(Entry) /\ Len(Tail(s)) = Len(s) - 1
  BY HeadTailProperties
<1>3. DOMAIN Tail(s) = 1 .. Len(s) - 1
  BY <1>2, LenProperties
<1>4. \A i \in 1 .. Len(s) - 1 : Tail(s)[i] = s[i + 1]
  BY <1>2, HeadTailProperties
<1>5. Head(s) = s[1] /\ s[1] \in Entry
  BY <1>1, ElementOfSeq
<1> QED
  BY <1>1, <1>2, <1>3, <1>4, <1>5

LEMMA AppendInOrder ==
  ASSUME NEW s \in Seq(Entry), NEW e \in Entry, InOrder(s),
         \A i \in DOMAIN s : s[i].by = e.by => s[i].n < e.n
  PROVE  InOrder(Append(s, e))
<1> SUFFICES ASSUME NEW i \in 1 .. Len(s) + 1, NEW j \in 1 .. Len(s) + 1,
                    i < j, Append(s, e)[i].by = Append(s, e)[j].by
             PROVE  Append(s, e)[i].n < Append(s, e)[j].n
  BY Appended DEF InOrder
<1>1. i \in DOMAIN s /\ Append(s, e)[i] = s[i]
  BY Appended
<1>2. CASE j = Len(s) + 1
  BY <1>1, <1>2, Appended
<1>3. CASE j # Len(s) + 1
  <2>1. j \in DOMAIN s /\ Append(s, e)[j] = s[j]
    BY <1>3, Appended
  <2> QED
    BY <1>1, <2>1 DEF InOrder
<1> QED
  BY <1>2, <1>3

LEMMA TailInOrder ==
  ASSUME NEW s \in Seq(Entry), s # <<>>, InOrder(s)
  PROVE  InOrder(Tail(s))
<1> SUFFICES ASSUME NEW i \in 1 .. Len(s) - 1, NEW j \in 1 .. Len(s) - 1,
                    i < j, Tail(s)[i].by = Tail(s)[j].by
             PROVE  Tail(s)[i].n < Tail(s)[j].n
  BY Tailed DEF InOrder
<1>1. i + 1 \in DOMAIN s /\ j + 1 \in DOMAIN s /\ i + 1 < j + 1
  BY Tailed
<1>2. Tail(s)[i] = s[i + 1] /\ Tail(s)[j] = s[j + 1]
  BY Tailed
<1> QED
  BY <1>1, <1>2 DEF InOrder

----------------------------------------------------------------------------
(* Types. *)

\* Keep stores one entry more, or the newest MaxBuf ones.
LEMMA KeepType ==
  ASSUME NEW e \in Entry, buffer \in Seq(Entry), Len(buffer) <= MaxBuf
  PROVE  Keep(e) \in Seq(Entry) /\ Len(Keep(e)) <= MaxBuf
<1> DEFINE b == Append(buffer, e)
<1>1. /\ b \in Seq(Entry) /\ b # <<>>
      /\ Len(b) = Len(buffer) + 1 /\ Len(buffer) \in Nat
  BY Appended
<1>2. Tail(b) \in Seq(Entry) /\ Len(Tail(b)) = Len(b) - 1
  BY <1>1, Tailed
<1> QED
  BY <1>1, <1>2, BoundAssumption DEF Keep

LEMMA TypeInit == Init => TypeOK /\ ConnInv
<1>1. <<>> \in Seq(Entry) /\ Len(<<>>) = 0
  BY EmptySeq
<1> SUFFICES ASSUME Init PROVE TypeOK /\ ConnInv
  OBVIOUS
<1>2. /\ buffer \in Seq(Entry) /\ Len(buffer) <= MaxBuf
      /\ items \in Seq(Entry) /\ Len(items) <= Limit
      /\ queue \in [Conn -> Seq(Entry)] /\ sent \in [Conn -> Seq(Entry)]
      /\ \A c \in Conn : Len(queue[c]) <= ChanCap
  BY <1>1, BoundAssumption DEF Init
<1>3. conns \in 0 .. MaxConns
  BY BoundAssumption DEF Init
<1>4. ConnInv
  BY DEF Init, ConnInv
<1> QED
  BY <1>2, <1>3, <1>4 DEF Init, TypeOK

LEMMA TypeNext == TypeOK /\ ConnInv /\ [Next]_vars => TypeOK' /\ ConnInv'
<1> SUFFICES ASSUME TypeOK, ConnInv, [Next]_vars PROVE TypeOK' /\ ConnInv'
  OBVIOUS
<1> USE BoundAssumption
<1>1. ASSUME NEW w \in Writer, WriteMessage(w)
      PROVE  TypeOK' /\ ConnInv'
  <2>1. [by |-> w, n |-> count[w] + 1] \in Entry
    BY DEF TypeOK, Entry
  <2>2. buffer' \in Seq(Entry) /\ Len(buffer') <= MaxBuf
    BY <1>1, <2>1, KeepType DEF WriteMessage, TypeOK
  <2>3. count' \in [Writer -> Nat] /\ to' \in [Writer -> SUBSET Conn]
    BY <1>1 DEF WriteMessage, TypeOK, Subs
  <2> QED
    BY <1>1, <2>2, <2>3 DEF WriteMessage, TypeOK, ConnInv, handlerVars, viewVars
<1>2. ASSUME NEW w \in Writer, NEW c \in Conn, Send(w, c)
      PROVE  TypeOK' /\ ConnInv'
  <2> DEFINE e == [by |-> w, n |-> count[w]]
  <2>1. e \in Entry
    BY DEF TypeOK, Entry
  <2>2. /\ Append(queue[c], e) \in Seq(Entry)
        /\ Len(Append(queue[c], e)) = Len(queue[c]) + 1
        /\ Len(queue[c]) \in Nat
    BY <2>1, Appended DEF TypeOK
  <2>3. queue' \in [Conn -> Seq(Entry)] /\ \A d \in Conn : Len(queue'[d]) <= ChanCap
    BY <1>2, <2>2 DEF Send, TypeOK
  <2>4. to' \in [Writer -> SUBSET Conn]
    BY <1>2 DEF Send, TypeOK
  <2> QED
    BY <1>2, <2>3, <2>4 DEF Send, TypeOK, ConnInv, viewVars
<1>3. ASSUME NEW w \in Writer, NEW c \in Conn, SendClosed(w, c)
      PROVE  TypeOK' /\ ConnInv'
  BY <1>3 DEF SendClosed, TypeOK, ConnInv, writerVars, handlerVars, viewVars
<1>4. ASSUME NEW c \in Conn, Recent(c) \/ Subscribe(c) \/ Leave(c)
      PROVE  TypeOK' /\ ConnInv'
  BY <1>4 DEF Recent, Subscribe, Leave, TypeOK, ConnInv, writerVars, viewVars
<1>5. ASSUME NEW c \in Conn, Deliver(c)
      PROVE  TypeOK' /\ ConnInv'
  <2>1. queue[c] \in Seq(Entry) /\ queue[c] # <<>>
    BY <1>5 DEF Deliver, TypeOK
  <2>2. /\ Tail(queue[c]) \in Seq(Entry) /\ Len(queue[c]) \in Nat
        /\ Len(Tail(queue[c])) = Len(queue[c]) - 1
        /\ Head(queue[c]) \in Entry
    BY <2>1, Tailed
  <2>3. Append(sent[c], Head(queue[c])) \in Seq(Entry)
    BY <2>2, Appended DEF TypeOK
  <2> QED
    BY <1>5, <2>2, <2>3 DEF Deliver, TypeOK, ConnInv, writerVars, viewVars
<1>6. CASE Connect
  BY <1>6 DEF Connect, TypeOK, ConnInv, Conn, writerVars
<1>7. CASE Receive
  <2>1. /\ conns \in Conn /\ sent[conns] \in Seq(Entry)
        /\ seen + 1 \in 1 .. Len(sent[conns])
    BY <1>7, LenProperties DEF Receive, ConnInv, TypeOK
  <2> DEFINE e == sent[conns][seen + 1]
             s == Append(items, e)
  <2>2. e \in Entry
    BY <2>1, ElementOfSeq
  <2>3. /\ s \in Seq(Entry) /\ s # <<>>
        /\ Len(s) = Len(items) + 1 /\ Len(items) \in Nat
    BY <2>2, Appended DEF TypeOK
  <2>5. Tail(s) \in Seq(Entry) /\ Len(Tail(s)) = Len(s) - 1
    BY <2>3, Tailed
  <2>6. items' = IF Len(s) > Limit THEN Tail(s) ELSE s
    BY <1>7 DEF Receive
  <2>7. items' \in Seq(Entry) /\ Len(items') <= Limit
    BY <2>3, <2>5, <2>6 DEF TypeOK
  <2> QED
    BY <1>7, <2>7 DEF Receive, TypeOK, ConnInv, writerVars, handlerVars
<1>8. CASE Break \/ Pause \/ Resume
  BY <1>8 DEF Break, Pause, Resume, HangUp, TypeOK, ConnInv, writerVars,
              handlerVars
<1>9. CASE Clear
  <2>1. items' \in Seq(Entry) /\ Len(items') <= Limit
    BY <1>9, EmptySeq DEF Clear
  <2> QED
    BY <1>9, <2>1 DEF Clear, TypeOK, ConnInv, writerVars, handlerVars
<1>10. CASE UNCHANGED vars
  BY <1>10 DEF vars, TypeOK, ConnInv
<1> QED
  BY <1>1, <1>2, <1>3, <1>4, <1>5, <1>6, <1>7, <1>8, <1>9, <1>10
     DEF Next, Log, Handle, View

\* Every buffer on the way of an entry keeps its capacity, and every variable
\* its type.
THEOREM LogTyped == Spec => []TypeOK
BY TypeInit, TypeNext, PTL DEF Spec

----------------------------------------------------------------------------
(* The buffer. *)

\* The buffer after an entry of w.
LEMMA AppendKept ==
  ASSUME NEW s \in Seq(Entry), NEW C \in [Writer -> Nat], NEW w \in Writer,
         Kept(s, C)
  PROVE  Kept(Append(s, [by |-> w, n |-> C[w] + 1]), [C EXCEPT ![w] = @ + 1])
<1> DEFINE e == [by |-> w, n |-> C[w] + 1]
           a == Append(s, e)
           D == [C EXCEPT ![w] = @ + 1]
<1>1. e \in Entry
  BY DEF Entry
<1>2. /\ DOMAIN s = 1 .. Len(s) /\ Len(s) \in Nat
      /\ DOMAIN a = 1 .. Len(s) + 1 /\ Len(a) = Len(s) + 1
      /\ \A i \in 1 .. Len(s) : a[i] = s[i]
      /\ a[Len(s) + 1] = e
  BY <1>1, Appended
<1>3. \A i \in 1 .. Len(s) : s[i] \in Entry
  BY ElementOfSeq
<1>4. \A i \in 1 .. Len(s) : s[i].by \in Writer /\ s[i].n \in Nat
  BY <1>3 DEF Entry
<1>5. \A i \in 1 .. Len(s) : s[i].n <= C[s[i].by]
  BY <1>2 DEF Kept
<1>6. \A v \in Writer : D[v] = IF v = w THEN C[w] + 1 ELSE C[v]
  OBVIOUS
<1> HIDE DEF a, D
<1>7. InOrder(a)
  <2>1. \A i \in DOMAIN s : s[i].by = e.by => s[i].n < e.n
    BY <1>2, <1>4, <1>5
  <2> QED
    BY <1>1, <2>1, AppendInOrder DEF Kept, a
<1>8. \A i \in DOMAIN a : a[i].n <= D[a[i].by]
  <2> TAKE i \in DOMAIN a
  <2>1. CASE i = Len(s) + 1
    BY <1>2, <1>6, <2>1
  <2>2. CASE i \in 1 .. Len(s)
    BY <1>2, <1>4, <1>5, <1>6, <2>2
  <2> QED
    BY <1>2, <2>1, <2>2
<1>9. Newest(a, D)
  <2> SUFFICES ASSUME NEW i \in 1 .. Len(s) + 1,
                      NEW n \in a[i].n .. D[a[i].by]
               PROVE  \E j \in i .. Len(s) + 1 :
                         a[j] = [by |-> a[i].by, n |-> n]
    BY <1>2 DEF Newest
  <2>1. CASE i = Len(s) + 1
    <3>1. n = C[w] + 1 /\ a[i] = e
      BY <1>2, <1>6, <2>1
    <3> QED
      BY <1>2, <2>1, <3>1
  <2>2. CASE i \in 1 .. Len(s) /\ s[i].by = w /\ n = C[w] + 1
    BY <1>2, <2>2
  <2>3. CASE i \in 1 .. Len(s) /\ ~(s[i].by = w /\ n = C[w] + 1)
    <3>1. n \in s[i].n .. C[s[i].by]
      BY <1>2, <1>4, <1>6, <2>3
    <3>2. PICK j \in i .. Len(s) : s[j] = [by |-> s[i].by, n |-> n]
      BY <1>2, <2>3, <3>1 DEF Kept, Newest
    <3>3. j \in 1 .. Len(s) /\ j \in i .. Len(s) + 1
      BY <1>2, <2>3
    <3> QED
      BY <1>2, <2>3, <3>2, <3>3
  <2> QED
    BY <2>1, <2>2, <2>3
<1> QED
  BY <1>7, <1>8, <1>9 DEF Kept, a, D

\* The buffer without its oldest entry.
LEMMA TailKept ==
  ASSUME NEW s \in Seq(Entry), s # <<>>, NEW C \in [Writer -> Nat], Kept(s, C)
  PROVE  Kept(Tail(s), C)
<1> DEFINE t == Tail(s)
<1>1. /\ Len(s) \in Nat \ {0} /\ Len(t) = Len(s) - 1
      /\ DOMAIN t = 1 .. Len(s) - 1 /\ DOMAIN s = 1 .. Len(s)
      /\ \A i \in 1 .. Len(s) - 1 : t[i] = s[i + 1]
  BY Tailed
<1>2. InOrder(t)
  BY TailInOrder DEF Kept
<1> HIDE DEF t
<1>3. \A i \in DOMAIN t : i + 1 \in DOMAIN s /\ t[i] = s[i + 1]
  BY <1>1
<1>4. \A i \in DOMAIN t : t[i].n <= C[t[i].by]
  BY <1>3 DEF Kept
<1>5. Newest(t, C)
  <2> SUFFICES ASSUME NEW i \in DOMAIN t, NEW n \in t[i].n .. C[t[i].by]
               PROVE  \E j \in i .. Len(t) : t[j] = [by |-> t[i].by, n |-> n]
    BY DEF Newest
  <2>1. i + 1 \in DOMAIN s /\ t[i] = s[i + 1]
    BY <1>3
  <2>2. PICK j \in i + 1 .. Len(s) : s[j] = [by |-> s[i + 1].by, n |-> n]
    BY <2>1 DEF Kept, Newest
  <2>3. j - 1 \in i .. Len(t) /\ j - 1 \in DOMAIN t
    BY <1>1
  <2>4. t[j - 1] = s[j]
    BY <1>1, <2>3
  <2> QED
    BY <2>1, <2>2, <2>3, <2>4
<1> QED
  BY <1>2, <1>4, <1>5 DEF Kept, t

LEMMA BufferInit == Init => BufferInv
BY EmptySeq DEF Init, BufferInv, Kept, Newest, InOrder

\* An entry that is stored keeps the buffer the newest part of the log.
LEMMA BufferNext == TypeOK /\ BufferInv /\ [Next]_vars => BufferInv'
<1> SUFFICES ASSUME TypeOK, BufferInv, [Next]_vars PROVE BufferInv'
  OBVIOUS
<1>1. ASSUME NEW w \in Writer, WriteMessage(w) PROVE BufferInv'
  <2> DEFINE e == [by |-> w, n |-> count[w] + 1]
             a == Append(buffer, e)
  <2>1. buffer \in Seq(Entry) /\ count \in [Writer -> Nat] /\ e \in Entry
    BY DEF TypeOK, Entry
  <2>2. a \in Seq(Entry) /\ a # <<>>
    BY <2>1, Appended
  <2>3. Kept(a, count')
    BY <1>1, <2>1, AppendKept DEF WriteMessage, BufferInv
  <2>4. count' \in [Writer -> Nat]
    BY <1>1, <2>1 DEF WriteMessage
  <2>5. Kept(Tail(a), count')
    BY <2>2, <2>3, <2>4, TailKept
  <2>6. buffer' = IF Len(a) > MaxBuf THEN Tail(a) ELSE a
    BY <1>1 DEF WriteMessage, Keep
  <2> QED
    BY <2>3, <2>5, <2>6 DEF BufferInv
<1>2. CASE UNCHANGED <<buffer, count>>
  BY <1>2 DEF BufferInv
<1> QED
  BY <1>1, <1>2 DEF Next, vars, Log, Send, SendClosed, Handle, Recent,
     Subscribe, Deliver, Leave, View, Connect, Receive, Break, Pause, Resume,
     Clear, writerVars

\* A new viewer is shown the newest part of the log, whatever the writers do
\* and whatever the capacity of the buffer is.
THEOREM BufferNewest == Spec => []BufferIsNewest
<1>1. BufferInv => BufferIsNewest
  BY DEF BufferInv, Kept, Newest, BufferIsNewest
<1> QED
  BY <1>1, TypeInit, BufferInit, TypeNext, BufferNext, PTL DEF Spec

----------------------------------------------------------------------------
(* The stream of a connection. *)

LEMMA EmptyStream ==
  /\ DOMAIN <<>> = {}
  /\ InOrder(<<>>)
  /\ \A s : Before(s, <<>>) /\ Before(<<>>, s)
  /\ \A c, C, T : Known(<<>>, c, C, T)
<1>1. DOMAIN <<>> = {}
  BY EmptySeq, LenProperties
<1> QED
  BY <1>1 DEF InOrder, Before, Known

\* An entry that is written is newer than all a connection has, and is sent to
\* the ones that have subscribed.
LEMMA WriteStream ==
  ASSUME TypeOK, StreamInv, NEW w \in Writer, WriteMessage(w)
  PROVE  StreamInv'
<1> SUFFICES ASSUME NEW c \in Conn PROVE Stream(c)'
  BY DEF StreamInv
<1>1. Stream(c)
  BY DEF StreamInv
<1>2. /\ UNCHANGED <<handler, sent, queue>>
      /\ count' = [count EXCEPT ![w] = @ + 1]
      /\ to' = [to EXCEPT ![w] = Subs]
  BY DEF WriteMessage, handlerVars
<1>3. ASSUME NEW s \in Seq(Entry), Known(s, c, count, to)
      PROVE  Known(s, c, count', to')
  <2>1. \A i \in DOMAIN s : s[i] \in Entry
    BY <1>3, LenProperties, ElementOfSeq
  <2>2. \A i \in DOMAIN s : s[i].by \in Writer /\ s[i].n \in Nat
    BY <2>1 DEF Entry
  <2> SUFFICES ASSUME NEW i \in DOMAIN s
               PROVE  /\ s[i].n <= count'[s[i].by]
                      /\ c \in to'[s[i].by] => s[i].n < count'[s[i].by]
    BY DEF Known
  <2>3. s[i].n <= count[s[i].by] /\ (c \in to[s[i].by] => s[i].n < count[s[i].by])
    BY <1>3 DEF Known
  <2>4. CASE s[i].by = w
    BY <1>2, <2>2, <2>3, <2>4 DEF TypeOK
  <2>5. CASE s[i].by # w
    BY <1>2, <2>2, <2>3, <2>5 DEF TypeOK
  <2> QED
    BY <2>4, <2>5
<1>4. Known(sent'[c], c, count', to') /\ Known(queue'[c], c, count', to')
  BY <1>1, <1>2, <1>3 DEF TypeOK, Stream
<1>5. handler[c] \in {"none", "open", "recent"} =>
         \A v \in Writer : c \notin to'[v]
  BY <1>1, <1>2 DEF Stream, Subs, TypeOK
<1> QED
  BY <1>1, <1>2, <1>4, <1>5 DEF Stream, InOrder, Before

\* The same for a connection that a step does not touch, when nothing that is
\* on its way to it is taken away but by the step.
LEMMA OtherStream ==
  ASSUME TypeOK, NEW c \in Conn, Stream(c),
         handler'[c] = handler[c], sent'[c] = sent[c], queue'[c] = queue[c],
         count' = count, \A w \in Writer : c \in to'[w] => c \in to[w]
  PROVE  Stream(c)'
<1>1. ASSUME NEW s \in Seq(Entry), Known(s, c, count, to)
      PROVE  Known(s, c, count', to')
  <2>1. \A i \in DOMAIN s : s[i] \in Entry
    BY <1>1, LenProperties, ElementOfSeq
  <2>2. \A i \in DOMAIN s : s[i].by \in Writer
    BY <2>1 DEF Entry
  <2> QED
    BY <1>1, <2>2 DEF Known
<1>2. Known(sent'[c], c, count', to') /\ Known(queue'[c], c, count', to')
  BY <1>1 DEF TypeOK, Stream
<1> QED
  BY <1>2 DEF Stream, InOrder, Before

\* An entry that is sent is the newest its writer has, and is not sent again.
LEMMA SendStream ==
  ASSUME TypeOK, StreamInv, NEW w \in Writer, NEW d \in Conn, Send(w, d)
  PROVE  StreamInv'
<1> SUFFICES ASSUME NEW c \in Conn PROVE Stream(c)'
  BY DEF StreamInv
<1>1. Stream(c)
  BY DEF StreamInv
<1>2. /\ UNCHANGED <<handler, sent, count>>
      /\ to' = [to EXCEPT ![w] = @ \ {d}]
      /\ d \in to[w]
  BY DEF Send
<1>3. \A v \in Writer : c \in to'[v] => c \in to[v]
  BY <1>2 DEF TypeOK
<1>4. CASE queue'[c] = queue[c]
  BY <1>1, <1>2, <1>3, <1>4, OtherStream
<1>5. CASE queue'[c] # queue[c]
  <2> DEFINE e == [by |-> w, n |-> count[w]]
             q == queue[c]
  <2>1. c = d /\ queue'[c] = Append(q, e)
    BY <1>5 DEF Send, TypeOK
  <2>2. /\ q \in Seq(Entry) /\ e \in Entry /\ sent[c] \in Seq(Entry)
        /\ count[w] \in Nat
    BY DEF TypeOK, Entry
  <2>3. c \in to[w] /\ \A v \in Writer : c \in to'[v] <=> c \in to[v] /\ v # w
    BY <1>2, <2>1 DEF TypeOK
  <2>4. /\ DOMAIN q = 1 .. Len(q) /\ Len(q) \in Nat
        /\ DOMAIN Append(q, e) = 1 .. Len(q) + 1
        /\ \A i \in 1 .. Len(q) : Append(q, e)[i] = q[i]
        /\ Append(q, e)[Len(q) + 1] = e
    BY <2>2, Appended
  <2>5. ASSUME NEW s \in Seq(Entry), Known(s, c, count, to)
        PROVE  /\ Known(s, c, count', to')
               /\ \A i \in DOMAIN s : s[i].by = w => s[i].n < e.n
    <3>1. \A i \in DOMAIN s : s[i] \in Entry
      BY <2>5, LenProperties, ElementOfSeq
    <3>2. \A i \in DOMAIN s : s[i].by \in Writer
      BY <3>1 DEF Entry
    <3> QED
      BY <1>2, <2>3, <2>5, <3>2 DEF Known
  <2>6. /\ Known(sent'[c], c, count', to')
        /\ \A i \in DOMAIN sent[c] : sent[c][i].by = w => sent[c][i].n < e.n
    BY <1>1, <1>2, <2>2, <2>5 DEF Stream
  <2>7. /\ Known(q, c, count', to')
        /\ \A i \in DOMAIN q : q[i].by = w => q[i].n < e.n
    <3>1. Known(queue[c], c, count, to)
      BY <1>1 DEF Stream
    <3> QED
      BY <2>2, <2>5, <3>1
  <2>8. InOrder(queue'[c])
    BY <1>1, <2>1, <2>2, <2>7, AppendInOrder DEF Stream
  <2>9. Before(sent[c], queue'[c])
    <3> SUFFICES ASSUME NEW i \in DOMAIN sent[c], NEW j \in 1 .. Len(q) + 1,
                        sent[c][i].by = Append(q, e)[j].by
                 PROVE  sent[c][i].n < Append(q, e)[j].n
      BY <2>1, <2>4 DEF Before
    <3>1. CASE j = Len(q) + 1
      BY <2>4, <2>6, <3>1
    <3>2. CASE j \in 1 .. Len(q)
      BY <1>1, <2>4, <3>2 DEF Stream, Before
    <3> QED
      BY <2>4, <3>1, <3>2
  <2>10. Known(queue'[c], c, count', to')
    <3> SUFFICES ASSUME NEW i \in 1 .. Len(q) + 1
                 PROVE  LET a == Append(q, e)[i] IN
                        /\ a.n <= count'[a.by]
                        /\ c \in to'[a.by] => a.n < count'[a.by]
      BY <2>1, <2>4 DEF Known
    <3>1. CASE i = Len(q) + 1
      BY <1>2, <2>2, <2>3, <2>4, <3>1
    <3>2. CASE i \in 1 .. Len(q)
      BY <2>4, <2>7, <3>2 DEF Known
    <3> QED
      BY <2>4, <3>1, <3>2
  <2>11. handler[c] \notin {"none", "open", "recent"}
    BY <1>1, <2>3 DEF Stream
  <2> QED
    BY <1>1, <1>2, <2>6, <2>8, <2>9, <2>10, <2>11 DEF Stream
<1> QED
  BY <1>4, <1>5

\* What the buffer holds is in order and known, so it can be sent to a
\* connection nothing is on its way to.
LEMMA RecentStream ==
  ASSUME TypeOK, BufferInv, StreamInv, NEW d \in Conn, Recent(d)
  PROVE  StreamInv'
<1> SUFFICES ASSUME NEW c \in Conn PROVE Stream(c)'
  BY DEF StreamInv
<1>1. Stream(c)
  BY DEF StreamInv
<1>2. /\ UNCHANGED <<queue, count, to>> /\ handler[d] = "open"
      /\ handler' = [handler EXCEPT ![d] = "recent"]
      /\ sent' = [sent EXCEPT ![d] = buffer]
  BY DEF Recent, writerVars
<1>3. CASE c # d
  BY <1>1, <1>2, <1>3, OtherStream DEF TypeOK
<1>4. CASE c = d
  <2>1. sent'[c] = buffer /\ handler'[c] = "recent"
    BY <1>2, <1>4 DEF TypeOK
  <2>2. queue[c] = <<>> /\ \A w \in Writer : c \notin to[w]
    BY <1>1, <1>2, <1>4 DEF Stream
  <2>3. \A i \in DOMAIN buffer : buffer[i].by \in Writer
    <3>1. \A i \in DOMAIN buffer : buffer[i] \in Entry
      BY LenProperties, ElementOfSeq DEF TypeOK
    <3> QED
      BY <3>1 DEF Entry
  <2>4. InOrder(buffer) /\ Known(buffer, c, count, to)
    BY <2>2, <2>3 DEF BufferInv, Kept, Known
  <2>5. /\ InOrder(queue[c]) /\ Before(buffer, queue[c])
        /\ Known(queue[c], c, count, to)
    BY <2>2, EmptyStream
  <2> QED
    BY <1>2, <2>1, <2>2, <2>4, <2>5 DEF Stream
<1> QED
  BY <1>3, <1>4

\* The oldest entry of the channel goes behind all that was sent.
LEMMA DeliverStream ==
  ASSUME TypeOK, StreamInv, NEW d \in Conn, Deliver(d)
  PROVE  StreamInv'
<1> SUFFICES ASSUME NEW c \in Conn PROVE Stream(c)'
  BY DEF StreamInv
<1>1. Stream(c)
  BY DEF StreamInv
<1>2. /\ UNCHANGED <<handler, count, to>>
      /\ handler[d] = "live" /\ queue[d] # <<>>
      /\ sent' = [sent EXCEPT ![d] = Append(@, Head(queue[d]))]
      /\ queue' = [queue EXCEPT ![d] = Tail(@)]
  BY DEF Deliver, writerVars
<1>3. CASE c # d
  BY <1>1, <1>2, <1>3, OtherStream DEF TypeOK
<1>4. CASE c = d
  <2> DEFINE s == sent[c]
             q == queue[c]
             a == Append(s, Head(q))
             t == Tail(q)
  <2>1. sent'[c] = a /\ queue'[c] = t /\ handler'[c] = "live" /\ q # <<>>
    BY <1>2, <1>4 DEF TypeOK
  <2>2. s \in Seq(Entry) /\ q \in Seq(Entry)
    BY DEF TypeOK
  <2>3. /\ Len(q) \in Nat \ {0} /\ DOMAIN q = 1 .. Len(q)
        /\ DOMAIN t = 1 .. Len(q) - 1
        /\ \A i \in 1 .. Len(q) - 1 : t[i] = q[i + 1]
        /\ Head(q) = q[1] /\ q[1] \in Entry
    BY <2>1, <2>2, Tailed
  <2>4. /\ Len(s) \in Nat /\ DOMAIN s = 1 .. Len(s)
        /\ DOMAIN a = 1 .. Len(s) + 1
        /\ \A i \in 1 .. Len(s) : a[i] = s[i]
        /\ a[Len(s) + 1] = q[1]
    BY <2>2, <2>3, Appended
  <2>5. InOrder(a)
    <3>1. \A i \in DOMAIN s : s[i].by = q[1].by => s[i].n < q[1].n
      BY <1>1, <2>3 DEF Stream, Before
    <3> QED
      BY <1>1, <2>2, <2>3, <3>1, AppendInOrder DEF Stream
  <2>6. InOrder(t)
    BY <1>1, <2>1, <2>2, TailInOrder DEF Stream
  <2>7. Before(a, t)
    <3> SUFFICES ASSUME NEW i \in 1 .. Len(s) + 1, NEW j \in 1 .. Len(q) - 1,
                        a[i].by = t[j].by
                 PROVE  a[i].n < t[j].n
      BY <2>3, <2>4 DEF Before
    <3>1. j + 1 \in DOMAIN q /\ t[j] = q[j + 1] /\ 1 \in DOMAIN q /\ 1 < j + 1
      BY <2>3
    <3>2. CASE i = Len(s) + 1
      BY <1>1, <2>4, <3>1, <3>2 DEF Stream, InOrder
    <3>3. CASE i \in 1 .. Len(s)
      BY <1>1, <2>4, <3>1, <3>3 DEF Stream, Before
    <3> QED
      BY <2>4, <3>2, <3>3
  <2>8. Known(a, c, count, to)
    <3> SUFFICES ASSUME NEW i \in 1 .. Len(s) + 1
                 PROVE  /\ a[i].n <= count[a[i].by]
                        /\ c \in to[a[i].by] => a[i].n < count[a[i].by]
      BY <2>4 DEF Known
    <3>1. CASE i = Len(s) + 1
      <4>1. 1 \in DOMAIN q
        BY <2>3
      <4> QED
        BY <1>1, <2>4, <3>1, <4>1 DEF Stream, Known
    <3>2. CASE i \in 1 .. Len(s)
      BY <1>1, <2>4, <3>2 DEF Stream, Known
    <3> QED
      BY <2>4, <3>1, <3>2
  <2>9. Known(t, c, count, to)
    <3>1. \A i \in DOMAIN t : i + 1 \in DOMAIN q /\ t[i] = q[i + 1]
      BY <2>3
    <3> QED
      BY <1>1, <3>1 DEF Stream, Known
  <2> QED
    BY <1>2, <2>1, <2>5, <2>6, <2>7, <2>8, <2>9 DEF Stream
<1> QED
  BY <1>3, <1>4

\* The other steps of a handler do not touch what is on its way.
LEMMA HandlerStream ==
  ASSUME TypeOK, StreamInv, NEW d \in Conn, Subscribe(d) \/ Leave(d)
  PROVE  StreamInv'
<1> SUFFICES ASSUME NEW c \in Conn PROVE Stream(c)'
  BY DEF StreamInv
<1>1. Stream(c)
  BY DEF StreamInv
<1>2. /\ UNCHANGED <<queue, sent, count, to>>
      /\ handler'[c] = handler[c] \/ handler'[c] \in {"live", "gone"}
  BY DEF Subscribe, Leave, writerVars, TypeOK
<1> QED
  BY <1>1, <1>2 DEF Stream

\* A new connection is one nothing was sent to.
LEMMA ConnectStream ==
  ASSUME TypeOK, ConnInv, StreamInv, Connect
  PROVE  StreamInv'
<1> SUFFICES ASSUME NEW c \in Conn PROVE Stream(c)'
  BY DEF StreamInv
<1>1. Stream(c)
  BY DEF StreamInv
<1>2. /\ UNCHANGED <<queue, sent, count, to>>
      /\ handler' = [handler EXCEPT ![conns + 1] = "open"]
      /\ conns + 1 \in Conn
  BY BoundAssumption DEF Connect, writerVars, TypeOK, Conn
<1>3. CASE c = conns + 1
  <2>1. handler[c] = "none"
    BY <1>3, BoundAssumption DEF ConnInv, TypeOK, Conn
  <2> QED
    BY <1>1, <1>2, <2>1 DEF Stream
<1>4. CASE c # conns + 1
  <2>1. handler'[c] = handler[c]
    BY <1>2, <1>4 DEF TypeOK
  <2> QED
    BY <1>1, <1>2, <2>1 DEF Stream
<1> QED
  BY <1>3, <1>4

LEMMA StreamNext ==
  TypeOK /\ ConnInv /\ BufferInv /\ StreamInv /\ [Next]_vars => StreamInv'
<1> SUFFICES ASSUME TypeOK, ConnInv, BufferInv, StreamInv, [Next]_vars
             PROVE  StreamInv'
  OBVIOUS
<1>1. CASE UNCHANGED <<writerVars, handlerVars>>
  BY <1>1 DEF StreamInv, Stream, writerVars, handlerVars
<1>2. ASSUME NEW w \in Writer, NEW c \in Conn, SendClosed(w, c)
      PROVE  UNCHANGED <<writerVars, handlerVars>>
  BY <1>2 DEF SendClosed
<1>3. ASSUME Receive \/ Break \/ Pause \/ Resume \/ Clear
      PROVE  UNCHANGED <<writerVars, handlerVars>>
  BY <1>3 DEF Receive, Break, Pause, Resume, Clear
<1>4. UNCHANGED vars => UNCHANGED <<writerVars, handlerVars>>
  BY DEF vars, writerVars, handlerVars
<1> QED
  BY <1>1, <1>2, <1>3, <1>4, WriteStream, SendStream, RecentStream,
     DeliverStream, HandlerStream, ConnectStream
     DEF Next, Log, Handle, View

\* On one connection no entry comes twice and the entries of a writer come in
\* order, although Recent, Subscribe and the sends of several writers are not
\* one step.
THEOREM StreamOrdered == Spec => []StreamInOrder
<1>1. Init => IInv
  <2>1. Init => StreamInv
    BY EmptyStream DEF Init, StreamInv, Stream
  <2> QED
    BY <2>1, TypeInit, BufferInit DEF IInv
<1>2. IInv /\ [Next]_vars => IInv'
  BY TypeNext, BufferNext, StreamNext DEF IInv
<1>3. IInv => StreamInOrder
  BY DEF IInv, StreamInv, Stream, InOrder, StreamInOrder
<1> QED
  BY <1>1, <1>2, <1>3, PTL DEF Spec
=============================================================================
