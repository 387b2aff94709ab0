----------------------------- MODULE LogStream -----------------------------
(***************************************************************************)
(* The kernel's log on its way to the browser: LogWriter                   *)
(* (internal/core/logwriter.go) keeps the newest entries in a buffer and   *)
(* hands each entry to the subscribers; streamLogs (stats_handler.go)      *)
(* sends the buffer and then what arrives on its channel; openSSE and      *)
(* useStreamBuffer (ui/src) read the stream, reconnect, pause and clear.   *)
(*                                                                         *)
(* WriteMessage takes the mutex to append the entry and to copy the list   *)
(* of channels, and sends after it has released it.  An entry is its       *)
(* writer and its number among the writer's entries.  Every connection of  *)
(* the viewer is a handler goroutine with a channel of its own.            *)
(***************************************************************************)
EXTENDS Naturals, Sequences

CONSTANTS
    Writer,      \* goroutines of the kernel that log
    MaxEntries,  \* bound: entries of each writer
    MaxBuf,      \* LogWriter.maxBuf (200)
    ChanCap,     \* capacity of a subscriber's channel (64)
    Limit,       \* entries useStreamBuffer keeps (500)
    MaxConns     \* bound: connections the viewer opens

ASSUME BoundAssumption ==
    /\ MaxEntries \in [Writer -> Nat] /\ MaxConns \in Nat
    /\ MaxBuf \in Nat \ {0} /\ ChanCap \in Nat \ {0} /\ Limit \in Nat \ {0}

Conn == 1 .. MaxConns
Entry == [by : Writer, n : Nat]

VARIABLES
    count,     \* entries each writer has written
    buffer,    \* LogWriter.buffer
    to,        \* the channels a writer still has to send its entry to
    handler,   \* where the handler of each connection is
    queue,     \* the channel of each connection
    alive,     \* the client end of each connection is open
    sent,      \* what each handler has written to its connection
    conns,     \* connections opened so far; the last one is the hook's
    seen,      \* how much of the last connection the hook has read
    hook,      \* state of useStreamBuffer and openSSE
    items,     \* the entries on the screen
    panicked   \* a send on a closed channel has ended the process

writerVars  == <<count, buffer, to>>
handlerVars == <<handler, queue, sent>>
viewVars    == <<alive, conns, seen, hook, items>>
vars == <<count, buffer, to, handler, queue, alive, sent, conns, seen, hook,
          items, panicked>>

\* Types, and the capacity of every buffer on the way.
TypeOK ==
    /\ count \in [Writer -> Nat]
    /\ buffer \in Seq(Entry) /\ Len(buffer) <= MaxBuf
    /\ to \in [Writer -> SUBSET Conn]
    /\ handler \in [Conn -> {"none", "open", "recent", "live", "gone"}]
    /\ queue \in [Conn -> Seq(Entry)]
    /\ \A c \in Conn : Len(queue[c]) <= ChanCap
    /\ alive \in [Conn -> BOOLEAN]
    /\ sent \in [Conn -> Seq(Entry)]
    /\ conns \in 0 .. MaxConns
    /\ seen \in Nat
    /\ hook \in {"connecting", "streaming", "paused"}
    /\ items \in Seq(Entry) /\ Len(items) <= Limit
    /\ panicked \in BOOLEAN

Init ==
    /\ count = [w \in Writer |-> 0]
    /\ buffer = <<>>
    /\ to = [w \in Writer |-> {}]
    /\ handler = [c \in Conn |-> "none"]
    /\ queue = [c \in Conn |-> <<>>]
    /\ alive = [c \in Conn |-> FALSE]
    /\ sent = [c \in Conn |-> <<>>]
    /\ conns = 0
    /\ seen = 0
    /\ hook = "connecting"
    /\ items = <<>>
    /\ panicked = FALSE

----------------------------------------------------------------------------
(* LogWriter. *)

\* Mutant: streamLogs subscribes before it calls Recent.
SubsMutant == {c \in Conn : handler[c] \in {"open", "recent", "live"}}

\* LogWriter.subs.
Subs == {c \in Conn : handler[c] = "live"}

\* Mutant: the buffer is never trimmed.
KeepAllMutant(e) == Append(buffer, e)

\* Mutant: a full buffer refuses the new entry.
KeepMutant(e) == IF Len(buffer) < MaxBuf THEN Append(buffer, e) ELSE buffer

\* The buffer after an entry: the oldest one goes when there is no room.
Keep(e) ==
    LET b == Append(buffer, e) IN IF Len(b) > MaxBuf THEN Tail(b) ELSE b

\* Everything WriteMessage does under the mutex.
WriteMessage(w) ==
    /\ ~panicked
    /\ to[w] = {}
    /\ count[w] < MaxEntries[w]
    /\ count' = [count EXCEPT ![w] = @ + 1]
    /\ buffer' = Keep([by |-> w, n |-> count[w] + 1])
    /\ to' = [to EXCEPT ![w] = Subs]
    /\ UNCHANGED <<handlerVars, viewVars, panicked>>

\* Mutant: a plain send, which waits for room.
SendMutant(w, c) ==
    /\ ~panicked
    /\ c \in to[w]
    /\ handler[c] # "gone"
    /\ Len(queue[c]) < ChanCap
    /\ queue' = [queue EXCEPT ![c] = Append(@, [by |-> w, n |-> count[w]])]
    /\ to' = [to EXCEPT ![w] = @ \ {c}]
    /\ UNCHANGED <<count, buffer, handler, sent, viewVars, panicked>>

\* One round of the loop over the copied channels, in no particular order: a
\* full channel loses the entry.
Send(w, c) ==
    /\ ~panicked
    /\ c \in to[w]
    /\ handler[c] # "gone"
    /\ queue' = IF Len(queue[c]) < ChanCap
                THEN [queue EXCEPT ![c] = Append(@, [by |-> w, n |-> count[w]])]
                ELSE queue
    /\ to' = [to EXCEPT ![w] = @ \ {c}]
    /\ UNCHANGED <<count, buffer, handler, sent, viewVars, panicked>>

\* The channel was closed since the copy: the send panics, in a goroutine of
\* the kernel that nothing recovers.
SendClosed(w, c) ==
    /\ ~panicked
    /\ c \in to[w]
    /\ handler[c] = "gone"
    /\ panicked' = TRUE
    /\ UNCHANGED <<writerVars, handlerVars, viewVars>>

----------------------------------------------------------------------------
(* streamLogs. *)

Recent(c) ==
    /\ ~panicked
    /\ handler[c] = "open"
    /\ handler' = [handler EXCEPT ![c] = "recent"]
    /\ sent' = [sent EXCEPT ![c] = buffer]
    /\ UNCHANGED <<queue, writerVars, viewVars, panicked>>

Subscribe(c) ==
    /\ ~panicked
    /\ handler[c] = "recent"
    /\ handler' = [handler EXCEPT ![c] = "live"]
    /\ UNCHANGED <<queue, sent, writerVars, viewVars, panicked>>

\* The entry is written to the connection, whether the client is there or not.
Deliver(c) ==
    /\ ~panicked
    /\ handler[c] = "live"
    /\ queue[c] # <<>>
    /\ sent' = [sent EXCEPT ![c] = Append(@, Head(queue[c]))]
    /\ queue' = [queue EXCEPT ![c] = Tail(@)]
    /\ UNCHANGED <<handler, writerVars, viewVars, panicked>>

\* Mutant: the handler looks at ctx.Done only when an entry arrives.
LeaveMutant(c) ==
    /\ ~panicked
    /\ handler[c] = "live"
    /\ ~alive[c]
    /\ queue[c] # <<>>
    /\ handler' = [handler EXCEPT ![c] = "gone"]
    /\ UNCHANGED <<queue, sent, writerVars, viewVars, panicked>>

\* ctx.Done: the deferred Unsubscribe closes the channel.
Leave(c) ==
    /\ ~panicked
    /\ handler[c] = "live"
    /\ ~alive[c]
    /\ handler' = [handler EXCEPT ![c] = "gone"]
    /\ UNCHANGED <<queue, sent, writerVars, viewVars, panicked>>

----------------------------------------------------------------------------
(* openSSE and useStreamBuffer. *)

\* connect: the first time, from the retry timer, or after a resume.  The
\* stream is answered; an answer that is not ok carries no entries and is a
\* connection lost at once, and after a 401 the session has ended (Session).
Connect ==
    /\ ~panicked
    /\ hook = "connecting"
    /\ conns < MaxConns
    /\ conns' = conns + 1
    /\ alive' = [alive EXCEPT ![conns + 1] = TRUE]
    /\ handler' = [handler EXCEPT ![conns + 1] = "open"]
    /\ seen' = 0
    /\ hook' = "streaming"
    /\ UNCHANGED <<queue, sent, items, writerVars, panicked>>

\* onEvent: [...current, item].slice(-limit).
Receive ==
    /\ hook = "streaming"
    /\ seen < Len(sent[conns])
    /\ LET s == Append(items, sent[conns][seen + 1]) IN
       items' = IF Len(s) > Limit THEN Tail(s) ELSE s
    /\ seen' = seen + 1
    /\ UNCHANGED <<alive, conns, hook, writerVars, handlerVars, panicked>>

\* The hook gives its connection up: what it has not read is lost.
HangUp == alive' = [c \in Conn |-> FALSE]

\* The connection breaks and openSSE schedules a retry.
Break ==
    /\ hook = "streaming"
    /\ HangUp
    /\ hook' = "connecting"
    /\ UNCHANGED <<conns, seen, items, writerVars, handlerVars, panicked>>

\* The effect's cleanup calls stop: no connection and no timer survive it.
Pause ==
    /\ hook # "paused"
    /\ HangUp
    /\ hook' = "paused"
    /\ UNCHANGED <<conns, seen, items, writerVars, handlerVars, panicked>>

Resume ==
    /\ hook = "paused"
    /\ hook' = "connecting"
    /\ UNCHANGED <<alive, conns, seen, items, writerVars, handlerVars,
                   panicked>>

Clear ==
    /\ items' = <<>>
    /\ UNCHANGED <<alive, conns, seen, hook, writerVars, handlerVars,
                   panicked>>

----------------------------------------------------------------------------

Log(w) == \E c \in Conn : Send(w, c) \/ SendClosed(w, c)

Handle(c) == Recent(c) \/ Subscribe(c) \/ Deliver(c)

View == Connect \/ Receive \/ Break \/ Pause \/ Resume \/ Clear

Next ==
    \/ \E w \in Writer : WriteMessage(w) \/ Log(w)
    \/ \E c \in Conn : Handle(c) \/ Leave(c)
    \/ View

\* The scheduler runs every goroutine that can move; select takes ctx.Done
\* sooner or later although entries keep arriving.  A handler that writes to a
\* client that does not read can wait for ever, one whose client has gone
\* cannot.  The kernel need not log and the viewer need not do anything.
Fairness ==
    /\ \A w \in Writer : WF_vars(Log(w))
    /\ \A c \in Conn : /\ WF_vars(~alive[c] /\ Handle(c))
                      /\ WF_vars(Leave(c))

Spec == Init /\ [][Next]_vars
FairSpec == Spec /\ Fairness

----------------------------------------------------------------------------
(* Properties. *)

\* On one connection no entry comes twice and the entries of one writer come
\* in the order they were written, although the buffer is sent first, the
\* channel is subscribed after it and several writers send without the mutex.
StreamInOrder ==
    \A c \in Conn : \A i, j \in DOMAIN sent[c] :
        i < j /\ sent[c][i].by = sent[c][j].by => sent[c][i].n < sent[c][j].n

\* What a new viewer is shown first is the newest part of the log: no writer
\* has an entry that is newer than one of its entries in the buffer, and in
\* the buffer of all writers there is no hole.
BufferIsNewest ==
    \A i \in DOMAIN buffer :
        LET w == buffer[i].by IN
        \A n \in buffer[i].n .. count[w] :
            \E j \in i .. Len(buffer) : buffer[j] = [by |-> w, n |-> n]

\* Logging never waits for a viewer: a slow, paused or vanished one costs the
\* kernel nothing.
WritersNeverBlock ==
    \A w \in Writer : to[w] # {} ~> (to[w] = {} \/ panicked)

\* A handler whose client has gone ends and gives its channel back: no
\* sequence of pauses and reconnects leaks subscribers.
HandlersLeave ==
    \A c \in Conn : (handler[c] # "none" /\ ~alive[c])
                    ~> (handler[c] = "gone" \/ panicked)

\* A viewer that leaves does not bring the process down
\* (TestLogWriterUnsubscribe, internal/core/logwriter_test.go:63-72, writes
\* after an Unsubscribe and expects nothing to happen).
NoSendOnClosed == ~panicked
=============================================================================
