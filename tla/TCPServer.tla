----------------------------- MODULE TCPServer -----------------------------
(***************************************************************************)
(* internal/server/tcp.go: the accept loop (Start), one serve goroutine    *)
(* per connection, and Shutdown, which main calls in a goroutine of its    *)
(* own.  A step is what a goroutine does between two points at which       *)
(* another one can see the difference: each atomic, each critical section  *)
(* of connsMu or listenerMu, each channel operation.                       *)
(*                                                                         *)
(* The two queues are seen from outside, as QueueContract has them: an     *)
(* Enqueue is refused once StopEnqueue was called, and one that found the  *)
(* queue open goes through when there is room (module Gateway says when)   *)
(* or is released.  Clients are the environment: they connect, send frames *)
(* that decode or do not (module Framing), fall silent or hang up.         *)
(***************************************************************************)
EXTENDS Naturals, FiniteSets

CONSTANTS
  Conns,            \* the connections clients may open
  NoConn,           \* the accept loop has no connection in hand
  MaxConnections,   \* cfg.MaxConnections
  MaxFrames         \* bound: frames a client sends on one connection

Queues == {"normal", "critical"}

ASSUME ConnsAssumption == NoConn \notin Conns /\ IsFiniteSet(Conns)
ASSUME ServerBounds == MaxConnections \in Nat \ {0} /\ MaxFrames \in Nat

VARIABLES
  apc, acc,         \* the accept loop and the connection it has in hand
  started,          \* s.acceptStarted
  listener,         \* the listening socket
  published,        \* s.listener is set
  conns,            \* s.conns
  connCount,        \* s.connCount
  connsWG,          \* s.connsWG: the connections it counts
  cpc,              \* per connection: the client's view, then serve
  deadline,         \* per connection: a read deadline is set
  sockOpen,         \* per connection: our end is not closed
  dest,             \* per connection: the queue of the envelope in hand
  sent,             \* per connection: frames read, for the bound
  shutdownMode,     \* s.shutdownMode
  closed,           \* the queues that refuse envelopes
  spc,              \* Shutdown
  ctxDone,          \* the shutdown context has expired
  drained           \* history: Shutdown saw the end of the accept loop

accept == <<apc, acc, started, listener, published>>
table == <<conns, connCount, connsWG>>
serving == <<cpc, deadline, sockOpen, dest, sent>>
stopping == <<shutdownMode, closed, spc, ctxDone, drained>>
vars == <<accept, table, serving, stopping>>

Init ==
  /\ apc = "unstarted" /\ acc = NoConn
  /\ started = FALSE
  /\ listener = "none"
  /\ published = FALSE
  /\ conns = {}
  /\ connCount = 0
  /\ connsWG = {}
  /\ cpc = [c \in Conns |-> "absent"]
  /\ deadline = [c \in Conns |-> FALSE]
  /\ sockOpen = [c \in Conns |-> TRUE]
  /\ dest = [c \in Conns |-> "none"]
  /\ sent = [c \in Conns |-> 0]
  /\ shutdownMode = FALSE
  /\ closed = {}
  /\ spc = "run"
  /\ ctxDone = FALSE
  /\ drained = FALSE

AGoto(l) == apc' = l
CGoto(c, l) == cpc' = [cpc EXCEPT ![c] = l]
SGoto(l) == spc' = l

-----------------------------------------------------------------------------
(* Faulty variants of some of the actions below, one plausible mistake     *)
(* each.  No specification uses them: they are what the properties at the  *)
(* end of the module must tell from the code.                              *)

\* The limit is compared with the count before the new connection.
CountOffByOne ==
  /\ apc = "count"
  /\ connCount' = connCount + 1
  /\ AGoto(IF connCount > MaxConnections THEN "over" ELSE "insert")
  /\ UNCHANGED <<acc, started, listener, published, conns, connsWG, serving,
                 stopping>>

\* A connection dropped over the limit is taken off the counter twice.
DropTwice ==
  /\ apc = "over"
  /\ connCount' = connCount - 2
  /\ cpc' = [cpc EXCEPT ![acc] = "gone"]
  /\ sockOpen' = [sockOpen EXCEPT ![acc] = FALSE]
  /\ acc' = NoConn
  /\ AGoto("accept")
  /\ UNCHANGED <<started, listener, published, conns, connsWG, deadline,
                 dest, sent, stopping>>

\* Shutdown applies the deadlines without having stored shutdownMode.
ApplyBeforeStore ==
  /\ spc = "store"
  /\ SGoto("apply")
  /\ UNCHANGED <<accept, table, serving, shutdownMode, closed, ctxDone,
                 drained>>

\* Shutdown returns on connCount = 0 without connsWG.Wait().
ReturnAtZero ==
  /\ spc = "wgWait"
  /\ SGoto("returned")
  /\ UNCHANGED <<accept, table, serving, shutdownMode, closed, ctxDone,
                 drained>>

\* The expired context leaves the normal queue open.
ForceWithoutStop ==
  /\ spc \in {"waitAccept", "poll"}
  /\ ctxDone
  /\ SGoto("stopCritical")
  /\ UNCHANGED <<accept, table, serving, shutdownMode, closed, ctxDone,
                 drained>>

-----------------------------------------------------------------------------
(* Start *)

\* acceptStarted.CompareAndSwap
Start ==
  /\ apc = "unstarted"
  /\ started' = TRUE
  /\ AGoto("listen")
  /\ UNCHANGED <<acc, listener, published, table, serving, stopping>>

\* net.Listen: from here on clients can connect.
Listen ==
  /\ apc = "listen"
  /\ listener' = "open"
  /\ AGoto("set")
  /\ UNCHANGED <<acc, started, published, table, serving, stopping>>

\* net.Listen fails: Start returns the error and closes acceptDone.
ListenFails ==
  /\ apc = "listen"
  /\ AGoto("done")
  /\ UNCHANGED <<acc, started, listener, published, table, serving,
                 stopping>>

SetListener ==
  /\ apc = "set"
  /\ published' = TRUE
  /\ AGoto("accept")
  /\ UNCHANGED <<acc, started, listener, table, serving, stopping>>

\* A client connects; the kernel queues the connection.
Connect(c) ==
  /\ listener = "open"
  /\ cpc[c] = "absent"
  /\ CGoto(c, "backlog")
  /\ UNCHANGED <<accept, table, deadline, sockOpen, dest, sent, stopping>>

\* ln.Accept returns a connection.  Its other errors are logged and retried.
Accept(c) ==
  /\ apc = "accept"
  /\ listener = "open"
  /\ cpc[c] = "backlog"
  /\ CGoto(c, "accepted")
  /\ acc' = c
  /\ AGoto("count")
  /\ UNCHANGED <<started, listener, published, table, deadline, sockOpen,
                 dest, sent, stopping>>

\* ln.Accept returns net.ErrClosed: Start returns and closes acceptDone.
AcceptClosed ==
  /\ apc = "accept"
  /\ listener = "closed"
  /\ AGoto("done")
  /\ UNCHANGED <<acc, started, listener, published, table, serving,
                 stopping>>

\* connCount.Add(1) and its comparison with the limit
CountConn ==
  /\ apc = "count"
  /\ connCount' = connCount + 1
  /\ AGoto(IF connCount + 1 > MaxConnections THEN "over" ELSE "insert")
  /\ UNCHANGED <<acc, started, listener, published, conns, connsWG, serving,
                 stopping>>

\* Over the limit: connCount.Add(-1), conn.Close().
DropConn ==
  /\ apc = "over"
  /\ connCount' = connCount - 1
  /\ CGoto(acc, "gone")
  /\ sockOpen' = [sockOpen EXCEPT ![acc] = FALSE]
  /\ acc' = NoConn
  /\ AGoto("accept")
  /\ UNCHANGED <<started, listener, published, conns, connsWG, deadline,
                 dest, sent, stopping>>

InsertConn ==
  /\ apc = "insert"
  /\ conns' = conns \union {acc}
  /\ AGoto("spawn")
  /\ UNCHANGED <<acc, started, listener, published, connCount, connsWG,
                 serving, stopping>>

\* connsWG.Add(1); go s.serve(conn)
Spawn ==
  /\ apc = "spawn"
  /\ connsWG' = connsWG \union {acc}
  /\ CGoto(acc, "top")
  /\ acc' = NoConn
  /\ AGoto("accept")
  /\ UNCHANGED <<started, listener, published, conns, connCount, deadline,
                 sockOpen, dest, sent, stopping>>

-----------------------------------------------------------------------------
(* serve *)

\* shutdownMode.Load()
LoadMode(c) ==
  /\ cpc[c] = "top"
  /\ CGoto(c, IF shutdownMode THEN "setDeadline" ELSE "read")
  /\ UNCHANGED <<accept, table, deadline, sockOpen, dest, sent, stopping>>

SetDeadline(c) ==
  /\ cpc[c] = "setDeadline"
  /\ deadline' = [deadline EXCEPT ![c] = TRUE]
  /\ CGoto(c, "read")
  /\ UNCHANGED <<accept, table, sockOpen, dest, sent, stopping>>

\* readFrame returns an envelope: of another version, it is dropped and the
\* loop goes round; else it goes to Enqueue.
ReadFrame(c) ==
  /\ cpc[c] = "read"
  /\ sockOpen[c]
  /\ sent[c] < MaxFrames
  /\ sent' = [sent EXCEPT ![c] = @ + 1]
  /\ \/ CGoto(c, "top") /\ UNCHANGED dest
     \/ CGoto(c, "enqueue") /\ \E q \in Queues : dest' = [dest EXCEPT ![c] = q]
  /\ UNCHANGED <<accept, table, deadline, sockOpen, stopping>>

\* readFrame returns an error the client caused: end of stream, a frame that
\* is empty, too large or does not decode.
ReadBroken(c) ==
  /\ cpc[c] = "read"
  /\ CGoto(c, "delete")
  /\ UNCHANGED <<accept, table, deadline, sockOpen, dest, sent, stopping>>

\* readFrame returns because the deadline passed or our end was closed.
ReadCut(c) ==
  /\ cpc[c] = "read"
  /\ deadline[c] \/ ~sockOpen[c]
  /\ CGoto(c, "delete")
  /\ UNCHANGED <<accept, table, deadline, sockOpen, dest, sent, stopping>>

\* Enqueue is over for this envelope.
Leave(c, l) == CGoto(c, l) /\ dest' = [dest EXCEPT ![c] = "none"]

\* Enqueue under producerMu: refused, or counted in q.producers.
EnqueueBegin(c) ==
  /\ cpc[c] = "enqueue"
  /\ \/ dest[c] \in closed /\ Leave(c, "delete")
     \/ dest[c] \notin closed /\ CGoto(c, "blocked") /\ UNCHANGED dest
  /\ UNCHANGED <<accept, table, deadline, sockOpen, sent, stopping>>

\* The select of Enqueue: the envelope is in the channel ...
EnqueueSend(c) ==
  /\ cpc[c] = "blocked"
  /\ Leave(c, "top")
  /\ UNCHANGED <<accept, table, deadline, sockOpen, sent, stopping>>

\* ... or q.done is closed: Enqueue returns false and serve returns.
EnqueueReleased(c) ==
  /\ cpc[c] = "blocked"
  /\ dest[c] \in closed
  /\ Leave(c, "delete")
  /\ UNCHANGED <<accept, table, deadline, sockOpen, sent, stopping>>

\* The deferred function: delete from s.conns ...
DeleteConn(c) ==
  /\ cpc[c] = "delete"
  /\ conns' = conns \ {c}
  /\ CGoto(c, "uncount")
  /\ UNCHANGED <<accept, connCount, connsWG, deadline, sockOpen, dest, sent,
                 stopping>>

\* ... connCount.Add(-1), conn.Close() ...
UncountConn(c) ==
  /\ cpc[c] = "uncount"
  /\ connCount' = connCount - 1
  /\ sockOpen' = [sockOpen EXCEPT ![c] = FALSE]
  /\ CGoto(c, "wgDone")
  /\ UNCHANGED <<accept, conns, connsWG, deadline, dest, sent, stopping>>

\* ... and connsWG.Done() as the goroutine ends.
ServeReturn(c) ==
  /\ cpc[c] = "wgDone"
  /\ connsWG' = connsWG \ {c}
  /\ CGoto(c, "gone")
  /\ UNCHANGED <<accept, conns, connCount, deadline, sockOpen, dest, sent,
                 stopping>>

-----------------------------------------------------------------------------
(* Shutdown *)

\* getListener, ln.Close(): connections still in the backlog are reset.
CloseListener ==
  /\ spc = "run"
  /\ \/ /\ published
        /\ listener' = "closed"
        /\ cpc' = [c \in Conns |-> IF cpc[c] = "backlog" THEN "gone"
                                   ELSE cpc[c]]
     \/ ~published /\ UNCHANGED <<listener, cpc>>
  /\ SGoto("store")
  /\ UNCHANGED <<apc, acc, started, published, table, deadline, sockOpen,
                 dest, sent, shutdownMode, closed, ctxDone, drained>>

StoreMode ==
  /\ spc = "store"
  /\ shutdownMode' = TRUE
  /\ SGoto("apply")
  /\ UNCHANGED <<accept, table, serving, closed, ctxDone, drained>>

ApplyReadDeadlineAll ==
  /\ spc = "apply"
  /\ deadline' = [c \in Conns |-> deadline[c] \/ c \in conns]
  /\ SGoto("loadStarted")
  /\ UNCHANGED <<accept, table, cpc, sockOpen, dest, sent, shutdownMode,
                 closed, ctxDone, drained>>

LoadStarted ==
  /\ spc = "loadStarted"
  /\ SGoto(IF started THEN "waitAccept" ELSE "poll")
  /\ UNCHANGED <<accept, table, serving, shutdownMode, closed, ctxDone,
                 drained>>

\* case <-s.acceptDone
AcceptDone ==
  /\ spc = "waitAccept"
  /\ apc = "done"
  /\ drained' = TRUE
  /\ SGoto("poll")
  /\ UNCHANGED <<accept, table, serving, shutdownMode, closed, ctxDone>>

CtxExpires ==
  /\ spc # "run"
  /\ ~ctxDone
  /\ ctxDone' = TRUE
  /\ UNCHANGED <<accept, table, serving, shutdownMode, closed, spc, drained>>

\* q.producers: the serve goroutines inside Enqueue
Producers(q) == {c \in Conns : cpc[c] = "blocked" /\ dest[c] = q}

\* case <-ctx.Done(), in either wait: normalQueue.StopEnqueue ...
StopNormal ==
  /\ spc \in {"waitAccept", "poll"}
  /\ ctxDone
  /\ closed' = closed \union {"normal"}
  /\ SGoto("stopNormal")
  /\ UNCHANGED <<accept, table, serving, shutdownMode, ctxDone, drained>>

\* ... which waits for the producers it released; then the critical one.
StopCritical ==
  /\ spc = "stopNormal"
  /\ Producers("normal") = {}
  /\ closed' = closed \union {"critical"}
  /\ SGoto("stopCritical")
  /\ UNCHANGED <<accept, table, serving, shutdownMode, ctxDone, drained>>

ForceCloseAll ==
  /\ spc = "stopCritical"
  /\ Producers("critical") = {}
  /\ sockOpen' = [c \in Conns |-> sockOpen[c] /\ c \notin conns]
  /\ SGoto("wgWait")
  /\ UNCHANGED <<accept, table, cpc, deadline, dest, sent, shutdownMode,
                 closed, ctxDone, drained>>

\* connCount.Load() == 0
PollZero ==
  /\ spc = "poll"
  /\ connCount = 0
  /\ SGoto("wgWait")
  /\ UNCHANGED <<accept, table, serving, shutdownMode, closed, ctxDone,
                 drained>>

\* connsWG.Wait() returns, and Shutdown with it.
ShutdownReturn ==
  /\ spc = "wgWait"
  /\ connsWG = {}
  /\ SGoto("returned")
  /\ UNCHANGED <<accept, table, serving, shutdownMode, closed, ctxDone,
                 drained>>

\* main goes on to close the queues and exits: the server's story ends here.
Returned == spc = "returned" /\ UNCHANGED vars

-----------------------------------------------------------------------------
AcceptLoop == \/ Start \/ Listen \/ ListenFails \/ SetListener \/ AcceptClosed
              \/ CountConn \/ DropConn \/ InsertConn \/ Spawn
              \/ \E c \in Conns : Accept(c)

\* The steps of a serve goroutine that wait for neither client nor queue.
ServeStep(c) == \/ LoadMode(c) \/ SetDeadline(c) \/ ReadCut(c)
                \/ EnqueueBegin(c) \/ EnqueueReleased(c)
                \/ DeleteConn(c) \/ UncountConn(c) \/ ServeReturn(c)

ShutdownStep == \/ StoreMode \/ ApplyReadDeadlineAll \/ LoadStarted
                \/ AcceptDone \/ StopNormal \/ StopCritical
                \/ ForceCloseAll \/ PollZero \/ ShutdownReturn

Next ==
  \/ AcceptLoop
  \/ \E c \in Conns : \/ Connect(c)
                      \/ ServeStep(c)
                      \/ ReadFrame(c) \/ ReadBroken(c) \/ EnqueueSend(c)
  \/ CloseListener \/ ShutdownStep \/ CtxExpires
  \/ Returned

Spec == Init /\ [][Next]_vars

\* Goroutines run when they can and the shutdown context has a timeout.
\* Clients owe nothing, and neither do the queues: an Enqueue may block until
\* StopEnqueue when the workers are stuck.
Fairness ==
  /\ WF_vars(AcceptLoop)
  /\ \A c \in Conns : WF_vars(ServeStep(c))
  /\ WF_vars(ShutdownStep)
  /\ WF_vars(CtxExpires)

FairSpec == Spec /\ Fairness

-----------------------------------------------------------------------------
(* Properties *)

ServePC == {"top", "setDeadline", "read", "enqueue", "blocked", "delete",
            "uncount", "wgDone"}

\* Every variable stays in its type.
TypeOK ==
  /\ apc \in {"unstarted", "listen", "set", "accept", "count", "over",
              "insert", "spawn", "done"}
  /\ acc \in Conns \union {NoConn}
  /\ started \in BOOLEAN
  /\ listener \in {"none", "open", "closed"}
  /\ published \in BOOLEAN
  /\ conns \in SUBSET Conns
  /\ connCount \in Nat
  /\ connsWG \in SUBSET Conns
  /\ cpc \in [Conns -> ServePC \union {"absent", "backlog", "accepted", "gone"}]
  /\ deadline \in [Conns -> BOOLEAN]
  /\ sockOpen \in [Conns -> BOOLEAN]
  /\ dest \in [Conns -> Queues \union {"none"}]
  /\ sent \in [Conns -> Nat]
  /\ shutdownMode \in BOOLEAN
  /\ closed \in SUBSET Queues
  /\ spc \in {"run", "store", "apply", "loadStarted", "waitAccept", "poll",
              "stopNormal", "stopCritical", "wgWait", "returned"}
  /\ ctxDone \in BOOLEAN
  /\ drained \in BOOLEAN

\* No more than cfg.MaxConnections connections are in the table, although the
\* limit is enforced on a counter that the accept loop and the serve
\* goroutines update apart from the table.
LimitHolds == Cardinality(conns) <= MaxConnections

\* Once Shutdown has applied the read deadlines, no serve goroutine blocks in
\* readFrame without one: neither a connection the accept loop was just adding
\* to the table nor a goroutine that had loaded shutdownMode before.
ReadersBounded ==
  spc \notin {"run", "store", "apply"} =>
    \A c \in Conns : cpc[c] = "read" => deadline[c]

\* When Shutdown returns after it saw the accept loop end, every connection is
\* gone, the counter is back to zero and no goroutine will call Enqueue again.
DrainedIsQuiet ==
  spc = "returned" /\ drained =>
    /\ connCount = 0 /\ conns = {}
    /\ \A c \in Conns : cpc[c] \in {"absent", "gone"}

\* A Shutdown that closed the listener always returns: the context bounds it
\* even when a client never falls silent and the workers never take another
\* envelope.
ShutdownReturns == (spc = "store" /\ listener = "closed") ~> spc = "returned"
=============================================================================
