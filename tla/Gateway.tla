------------------------------ MODULE Gateway -------------------------------
(***************************************************************************)
(* cmd/server/main.go: the whole gateway process, from the configuration   *)
(* to the exit.  main wires the writers, the two queues with their workers *)
(* and the TCP server, waits for a signal, and then takes the parts down   *)
(* in an order on which all of them depend.                                *)
(*                                                                         *)
(* The server is module TCPServer.  A queue is its channel and its workers *)
(* as module Queue has them, without the metrics.  Kafka and the fallback  *)
(* writer are open or closed: what Manager.Write does with an envelope is  *)
(* module WriterManager, and which handler it goes through is Pipeline.    *)
(***************************************************************************)
EXTENDS TCPServer, Config

CONSTANT Environments   \* the environments the process may be started in

ASSUME LimitConfigured ==
  \A e \in Environments : Load(e).Server.MaxConnections = MaxConnections
\* What strconv.Atoi takes is an integer.
ASSUME IntegersParsed ==
  \A e \in Environments : \A k \in DOMAIN e :
    "int" \in DOMAIN e[k] => e[k]["int"] \in Int

VARIABLES
  cfg,              \* config.Load()
  main,             \* main's progress
  ch,               \* per queue: q.ch
  idle,             \* per queue: workers that wait for an envelope
  busy,             \* per queue: envelopes inside dispatch
  kafkaOpen,        \* k.writers is not nil
  fallbackOpen,     \* the fallback writer takes records
  dispatched,       \* history: envelopes dispatch returned for
  accepted,         \* history: envelopes Enqueue returned true for
  refused           \* history: envelopes Enqueue returned false for

queues == <<ch, idle, busy>>
writers == <<kafkaOpen, fallbackOpen>>
ghistory == <<dispatched, accepted, refused>>
gvars == <<vars, cfg, main, queues, writers, ghistory>>

GInit ==
  /\ Init
  /\ cfg \in {Load(e) : e \in Environments}
  /\ main = "start"
  /\ ch = [q \in Queues |-> <<>>]
  /\ idle = [q \in Queues |-> 0]
  /\ busy = [q \in Queues |-> {}]
  /\ kafkaOpen = FALSE
  /\ fallbackOpen = FALSE
  /\ dispatched = {}
  /\ accepted = {}
  /\ refused = {}

\* The arguments main passes to NewNamed and Start.
Capacity == [normal |-> cfg.Server.QueueSize,
             critical |-> cfg.Server.CriticalQueueSize]
WorkerCount == [normal |-> cfg.Server.WorkerCount,
                critical |-> cfg.Server.CriticalWorkerCount]

\* The envelope a serve goroutine has in hand, and its queue
InHand(c) == <<c, sent[c], dest[c]>>

Ended == {"exited", "failed", "panicked"}
Alive == main \notin Ended
\* The goroutines main starts run from here on.
Running == Alive /\ main # "start" /\ main # "queues"

-----------------------------------------------------------------------------
(* Faulty variants of some of the actions below, one plausible mistake     *)
(* each.  No specification uses them: they are what the properties at the  *)
(* end of the module must tell from the code.                              *)

\* Close does not wait for the workers.
ProducersGone(q) == Producers(q) = {}

\* The queues are closed as soon as the signal comes, before srv.Shutdown.
CloseOnSignal ==
  /\ main = "run"
  /\ main' = "shutdown"
  /\ closed' = Queues
  /\ UNCHANGED <<accept, table, serving, shutdownMode, spc, ctxDone, drained,
                 cfg, queues, writers, ghistory>>

\* A worker leaves as soon as q.done is closed.
ExitUndrained(q) ==
  /\ Running
  /\ idle[q] > 0
  /\ q \in closed
  /\ idle' = [idle EXCEPT ![q] = @ - 1]
  /\ UNCHANGED <<vars, cfg, main, ch, busy, writers, ghistory>>

-----------------------------------------------------------------------------
(* main, up to the signal *)

\* NewKafkaWriter and NewFallbackWriter; a directory that cannot be prepared
\* ends the process.
WireWriters ==
  /\ main = "start"
  /\ \/ main' = "queues" /\ kafkaOpen' = TRUE /\ fallbackOpen' = TRUE
     \/ main' = "failed" /\ UNCHANGED writers
  /\ UNCHANGED <<vars, cfg, queues, ghistory>>

\* NewNamed and Start for both queues; make panics on a negative size, and
\* Start with no workers starts none.
WireQueues ==
  /\ main = "queues"
  /\ \/ /\ \E q \in Queues : Capacity[q] < 0
        /\ main' = "panicked"
        /\ UNCHANGED idle
     \/ /\ \A q \in Queues : Capacity[q] >= 0
        /\ main' = "run"
        /\ idle' = [q \in Queues |-> IF WorkerCount[q] > 0
                                     THEN WorkerCount[q] ELSE 0]
  /\ UNCHANGED <<vars, cfg, ch, busy, writers, ghistory>>

Signal ==
  /\ main = "run"
  /\ main' = "shutdown"
  /\ UNCHANGED <<vars, cfg, queues, writers, ghistory>>

-----------------------------------------------------------------------------
(* The goroutines of the server *)

ServerStep(A) ==
  /\ Running
  /\ A
  /\ UNCHANGED <<cfg, main, queues, writers, ghistory>>

\* A step of a serve goroutine; it may be the end of an Enqueue that failed.
Serve(c) ==
  /\ Running
  /\ ServeStep(c)
  /\ refused' = IF cpc[c] \in {"enqueue", "blocked"} /\ cpc'[c] = "delete"
                THEN refused \union {InHand(c)} ELSE refused
  /\ UNCHANGED <<cfg, main, queues, writers, dispatched, accepted>>

\* Enqueue's send: there is room in the channel, or, on a channel without a
\* buffer, a worker to take the envelope.
Send(c) ==
  LET q == dest[c] IN
  /\ Running
  /\ EnqueueSend(c)
  /\ \/ /\ Len(ch[q]) < Capacity[q]
        /\ ch' = [ch EXCEPT ![q] = Append(@, InHand(c))]
        /\ UNCHANGED <<idle, busy>>
     \/ /\ Capacity[q] = 0 /\ idle[q] > 0
        /\ idle' = [idle EXCEPT ![q] = @ - 1]
        /\ busy' = [busy EXCEPT ![q] = @ \union {InHand(c)}]
        /\ UNCHANGED ch
  /\ accepted' = accepted \union {InHand(c)}
  /\ UNCHANGED <<cfg, main, writers, dispatched, refused>>

\* srv.Start returned the error of net.Listen: os.Exit(1), whatever main is
\* doing at the time.
ServerError ==
  /\ Running
  /\ apc = "done" /\ listener = "none"
  /\ main' = "failed"
  /\ UNCHANGED <<vars, cfg, queues, writers, ghistory>>

-----------------------------------------------------------------------------
(* The workers *)

Take(q) ==
  /\ Running
  /\ idle[q] > 0
  /\ ch[q] # <<>>
  /\ ch' = [ch EXCEPT ![q] = Tail(@)]
  /\ idle' = [idle EXCEPT ![q] = @ - 1]
  /\ busy' = [busy EXCEPT ![q] = @ \union {Head(ch[q])}]
  /\ UNCHANGED <<vars, cfg, main, writers, ghistory>>

\* dispatch: the handler rejects the envelope, or Manager.Write has
\* KafkaWriter.writerFor look up the topic's writer, which panics on the map
\* that KafkaWriter.Close has set to nil.
Dispatch(q, e) ==
  /\ Running
  /\ e \in busy[q]
  /\ \/ /\ busy' = [busy EXCEPT ![q] = @ \ {e}]
        /\ idle' = [idle EXCEPT ![q] = @ + 1]
        /\ dispatched' = dispatched \union {e}
        /\ UNCHANGED main
     \/ /\ ~kafkaOpen
        /\ main' = "panicked"
        /\ UNCHANGED <<busy, idle, dispatched>>
  /\ UNCHANGED <<vars, cfg, ch, writers, accepted, refused>>

\* q.done is closed, producers.Wait returned and the channel is empty.
WorkerExit(q) ==
  /\ Running
  /\ idle[q] > 0
  /\ q \in closed
  /\ Producers(q) = {}
  /\ ch[q] = <<>>
  /\ idle' = [idle EXCEPT ![q] = @ - 1]
  /\ UNCHANGED <<vars, cfg, main, ch, busy, writers, ghistory>>

-----------------------------------------------------------------------------
(* main, after the signal *)

\* Queue.Close: StopEnqueue's critical section ...
CloseBegin(q, l) ==
  /\ closed' = closed \union {q}
  /\ main' = l
  /\ UNCHANGED <<accept, table, serving, shutdownMode, spc, ctxDone, drained,
                 cfg, queues, writers, ghistory>>

\* ... then producers.Wait and wg.Wait.
WorkersGone(q) == Producers(q) = {} /\ idle[q] = 0 /\ busy[q] = {}

\* srv.Shutdown returned: normalQ.Close()
CloseNormal ==
  /\ main = "shutdown" /\ spc = "returned"
  /\ CloseBegin("normal", "closeNormal")

CloseCritical ==
  /\ main = "closeNormal" /\ WorkersGone("normal")
  /\ CloseBegin("critical", "closeCritical")

\* manager.Shutdown: Flush returns on its timer or on the context, and
\* KafkaWriter.Close waits for the writers and drops them.
CloseKafka ==
  /\ main = "closeCritical" /\ WorkersGone("critical")
  /\ main' = "closeKafka"
  /\ kafkaOpen' = FALSE
  /\ UNCHANGED <<vars, cfg, queues, fallbackOpen, ghistory>>

CloseFallback ==
  /\ main = "closeKafka"
  /\ main' = "closeFallback"
  /\ fallbackOpen' = FALSE
  /\ UNCHANGED <<vars, cfg, queues, kafkaOpen, ghistory>>

\* metricsServer.Shutdown, bounded by the context, and the return of main
Exit ==
  /\ main = "closeFallback"
  /\ main' = "exited"
  /\ UNCHANGED <<vars, cfg, queues, writers, ghistory>>

-----------------------------------------------------------------------------
MainStep == \/ WireWriters \/ WireQueues
            \/ CloseNormal \/ CloseCritical \/ CloseKafka \/ CloseFallback
            \/ Exit

\* srv.Shutdown, as main calls it
MainShutdown == /\ main = "shutdown"
                /\ CloseListener \/ ShutdownStep

WorkerStep(q) == \/ Take(q) \/ WorkerExit(q)
                 \/ \E e \in busy[q] : Dispatch(q, e)

Terminated == ~Alive /\ UNCHANGED gvars

GNext ==
  \/ Alive /\ MainStep
  \/ Signal \/ ServerError
  \/ ServerStep(AcceptLoop) \/ ServerStep(MainShutdown)
  \/ ServerStep(CtxExpires)
  \/ \E c \in Conns : \/ Serve(c) \/ Send(c)
                      \/ ServerStep(Connect(c)) \/ ServerStep(ReadFrame(c))
                      \/ ServerStep(ReadBroken(c))
  \/ \E q \in Queues : WorkerStep(q)
  \/ Terminated

GSpec == GInit /\ [][GNext]_gvars

\* Goroutines run when they can: dispatch returns, since a Kafka write has a
\* timeout, and so the context does.  Neither clients nor the operator owe
\* anything.
GFairness ==
  /\ WF_gvars(MainStep) /\ WF_gvars(ServerStep(MainShutdown))
  /\ WF_gvars(ServerStep(AcceptLoop)) /\ WF_gvars(ServerStep(CtxExpires))
  /\ \A c \in Conns : WF_gvars(Serve(c)) /\ WF_gvars(Send(c))
  /\ \A q \in Queues : WF_gvars(WorkerStep(q))

GFairSpec == GSpec /\ GFairness

-----------------------------------------------------------------------------
(* Properties *)

\* A process that shuts down has dispatched every envelope it accepted, even
\* one accepted while the queues were being closed, and even when the context
\* ran out or the server never started.  The exception is the queue that was
\* configured with no workers.
NothingLeftBehind ==
  main \in Ended =>
    \A e \in accepted : e \in dispatched \/ WorkerCount[e[3]] <= 0

\* No worker meets the closed writers: of the panics this module has, writerFor's
\* and make's, only the one of make on a negative size happens.
WritersOutliveWorkers ==
  main = "panicked" => \E q \in Queues : Capacity[q] < 0

\* An envelope the server has read is refused only after the context ran out,
\* or when the signal came before the server was up.
RefusedOnlyWhenForced == refused # {} => ctxDone \/ ~drained

\* A signal that finds the server listening ends the process, although clients
\* may keep their connections, a queue may be full and no worker may be there
\* to empty it.
SignalEnds == (main = "shutdown" /\ listener = "closed") ~> (main \in Ended)
=============================================================================
