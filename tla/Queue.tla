------------------------------- MODULE Queue -------------------------------
(***************************************************************************)
(* internal/queue/queue.go: a fixed-capacity channel, producers blocked in *)
(* Enqueue, a pool of workers started by Start, and the two-phase Close    *)
(* (StopEnqueue, then wait for the workers).                               *)
(*                                                                         *)
(* Each goroutine is a thread with a program counter; a step is what the   *)
(* goroutine does between two points where another one can interfere.      *)
(* q.closed and q.done change in one critical section of producerMu and    *)
(* are one variable here.  The wait group q.producers is the set of the    *)
(* producers between Add and Done: Wait passes when it is empty.           *)
(***************************************************************************)
EXTENDS Naturals, Sequences

CONSTANTS
  Producers,        \* connection goroutines calling Enqueue
  Workers,          \* goroutines spawned by Start
  Envs,             \* the envelopes offered, each at most once
  Capacity,         \* the capacity of the channel
  NoEnv             \* a thread that holds no envelope

ASSUME ThreadsAssumption == Producers \cap Workers = {} /\ Workers # {}
ASSUME CapacityAssumption == Capacity \in Nat \ {0}
ASSUME NoEnvAssumption == NoEnv \notin Envs

Threads == Producers \union Workers

VARIABLES
  ch,               \* q.ch
  closed,           \* q.closed, and q.done closed
  producers,        \* q.producers
  pc,               \* where each thread is
  env,              \* the envelope each thread holds
  loop,             \* which of its two loops a worker is in
  closer,           \* progress of StopEnqueue and Close in main
  depth,            \* len(q.ch) as read by a thread inside reportDepth
  gauge,            \* the queue depth metric
  offered,          \* envelopes some Enqueue call was made for
  accepted,         \* envelopes whose send on q.ch happened
  handled           \* how often fn was called with each envelope

vars == <<ch, closed, producers, pc, env, loop, closer, depth, gauge,
          offered, accepted, handled>>

ProducerPC == {"idle", "select", "report", "set"}
WorkerPC == {"recv", "fn", "report", "set", "wait", "exit"}

Init ==
  /\ ch = <<>>
  /\ closed = FALSE
  /\ producers = {}
  /\ pc = [t \in Threads |-> IF t \in Producers THEN "idle" ELSE "recv"]
  /\ env = [t \in Threads |-> NoEnv]
  /\ loop = [w \in Workers |-> "main"]
  /\ closer = "running"
  /\ depth = [t \in Threads |-> 0]
  /\ gauge = 0
  /\ offered = {}
  /\ accepted = {}
  /\ handled = [e \in Envs |-> 0]

-----------------------------------------------------------------------------
(* Faulty variants of some of the actions below, one plausible mistake     *)
(* each.  No specification uses them: they are what the properties at the  *)
(* end of the module must tell from the code.                              *)

\* The channel is made one slot larger than asked for.
SendBeyondCapacity(p) ==
  /\ pc[p] = "select"
  /\ Len(ch) <= Capacity
  /\ ch' = Append(ch, env[p])
  /\ accepted' = accepted \union {env[p]}
  /\ env' = [env EXCEPT ![p] = NoEnv]
  /\ pc' = [pc EXCEPT ![p] = "report"]
  /\ UNCHANGED <<closed, producers, loop, closer, depth, gauge, offered,
                 handled>>

\* Enqueue does not register in q.producers.
BeginUnregistered(p, e) ==
  /\ pc[p] = "idle"
  /\ e \notin offered
  /\ ~closed
  /\ pc' = [pc EXCEPT ![p] = "select"]
  /\ env' = [env EXCEPT ![p] = e]
  /\ offered' = offered \union {e}
  /\ UNCHANGED <<ch, closed, producers, loop, closer, depth, gauge, accepted,
                 handled>>

\* continue instead of return on q.done in Enqueue.
RetryWhenDone(p) ==
  /\ pc[p] = "select"
  /\ closed
  /\ UNCHANGED vars

\* The worker does not call q.producers.Wait() before draining.
DrainAtOnce(w) ==
  /\ pc[w] = "wait"
  /\ loop' = [loop EXCEPT ![w] = "drain"]
  /\ pc' = [pc EXCEPT ![w] = "recv"]
  /\ UNCHANGED <<ch, closed, producers, env, closer, depth, gauge, offered,
                 accepted, handled>>

\* The worker returns on q.done without draining.
LeaveUndrained(w) ==
  /\ pc[w] = "wait"
  /\ producers = {}
  /\ pc' = [pc EXCEPT ![w] = "exit"]
  /\ UNCHANGED <<ch, closed, producers, env, loop, closer, depth, gauge,
                 offered, accepted, handled>>

\* break on q.done leaves the select only, and the worker starts over.
BackToMainLoop(w) ==
  /\ pc[w] = "wait"
  /\ producers = {}
  /\ pc' = [pc EXCEPT ![w] = "recv"]
  /\ UNCHANGED <<ch, closed, producers, env, loop, closer, depth, gauge,
                 offered, accepted, handled>>

\* StopEnqueue returns without waiting for the producers it released.
StopWithoutWaiting ==
  /\ closer = "stopping"
  /\ closer' = "stopped"
  /\ UNCHANGED <<ch, closed, producers, pc, env, loop, depth, gauge, offered,
                 accepted, handled>>

-----------------------------------------------------------------------------
(* Enqueue *)

\* The critical section of producerMu, when the queue is open.
EnqueueBegin(p, e) ==
  /\ pc[p] = "idle"
  /\ e \notin offered
  /\ ~closed
  /\ producers' = producers \union {p}
  /\ pc' = [pc EXCEPT ![p] = "select"]
  /\ env' = [env EXCEPT ![p] = e]
  /\ offered' = offered \union {e}
  /\ UNCHANGED <<ch, closed, loop, closer, depth, gauge, accepted, handled>>

\* The same critical section when it is closed: Enqueue returns false.
EnqueueRefused(p, e) ==
  /\ pc[p] = "idle"
  /\ e \notin offered
  /\ closed
  /\ offered' = offered \union {e}
  /\ UNCHANGED <<ch, closed, producers, pc, env, loop, closer, depth, gauge,
                 accepted, handled>>

\* case q.ch <- env.  Go picks any ready case, so it may also be taken
\* after q.done was closed.
EnqueueSend(p) ==
  /\ pc[p] = "select"
  /\ Len(ch) < Capacity
  /\ ch' = Append(ch, env[p])
  /\ accepted' = accepted \union {env[p]}
  /\ env' = [env EXCEPT ![p] = NoEnv]
  /\ pc' = [pc EXCEPT ![p] = "report"]
  /\ UNCHANGED <<closed, producers, loop, closer, depth, gauge, offered,
                 handled>>

\* case <-q.done: Enqueue returns false and its deferred Done runs.
EnqueueReleased(p) ==
  /\ pc[p] = "select"
  /\ closed
  /\ producers' = producers \ {p}
  /\ env' = [env EXCEPT ![p] = NoEnv]
  /\ pc' = [pc EXCEPT ![p] = "idle"]
  /\ UNCHANGED <<ch, closed, loop, closer, depth, gauge, offered, accepted,
                 handled>>

\* reportDepth reads len(q.ch) ...
ReadDepth(t) ==
  /\ pc[t] = "report"
  /\ depth' = [depth EXCEPT ![t] = Len(ch)]
  /\ pc' = [pc EXCEPT ![t] = "set"]
  /\ UNCHANGED <<ch, closed, producers, env, loop, closer, gauge, offered,
                 accepted, handled>>

\* ... and sets the gauge; Enqueue then returns true.
EnqueueReturn(p) ==
  /\ pc[p] = "set"
  /\ gauge' = depth[p]
  /\ producers' = producers \ {p}
  /\ pc' = [pc EXCEPT ![p] = "idle"]
  /\ UNCHANGED <<ch, closed, env, loop, closer, depth, offered, accepted,
                 handled>>

-----------------------------------------------------------------------------
(* The goroutine spawned by Start *)

\* case env := <-q.ch, in the main loop or in the draining loop.
Recv(w) ==
  /\ pc[w] = "recv"
  /\ ch # <<>>
  /\ env' = [env EXCEPT ![w] = Head(ch)]
  /\ ch' = Tail(ch)
  /\ pc' = [pc EXCEPT ![w] = "fn"]
  /\ UNCHANGED <<closed, producers, loop, closer, depth, gauge, offered,
                 accepted, handled>>

\* fn(env)
CallFn(w) ==
  /\ pc[w] = "fn"
  /\ handled' = [handled EXCEPT ![env[w]] = @ + 1]
  /\ env' = [env EXCEPT ![w] = NoEnv]
  /\ pc' = [pc EXCEPT ![w] = "report"]
  /\ UNCHANGED <<ch, closed, producers, loop, closer, depth, gauge, offered,
                 accepted>>

\* The end of reportDepth, back to the top of the current loop.
WorkerLoop(w) ==
  /\ pc[w] = "set"
  /\ gauge' = depth[w]
  /\ pc' = [pc EXCEPT ![w] = "recv"]
  /\ UNCHANGED <<ch, closed, producers, env, loop, closer, depth, offered,
                 accepted, handled>>

\* case <-q.done
SeeDone(w) ==
  /\ pc[w] = "recv"
  /\ loop[w] = "main"
  /\ closed
  /\ pc' = [pc EXCEPT ![w] = "wait"]
  /\ UNCHANGED <<ch, closed, producers, env, loop, closer, depth, gauge,
                 offered, accepted, handled>>

\* q.producers.Wait() returns.
ProducersGone(w) ==
  /\ pc[w] = "wait"
  /\ producers = {}
  /\ loop' = [loop EXCEPT ![w] = "drain"]
  /\ pc' = [pc EXCEPT ![w] = "recv"]
  /\ UNCHANGED <<ch, closed, producers, env, closer, depth, gauge, offered,
                 accepted, handled>>

\* default: return
Exit(w) ==
  /\ pc[w] = "recv"
  /\ loop[w] = "drain"
  /\ ch = <<>>
  /\ pc' = [pc EXCEPT ![w] = "exit"]
  /\ UNCHANGED <<ch, closed, producers, env, loop, closer, depth, gauge,
                 offered, accepted, handled>>

-----------------------------------------------------------------------------
(* StopEnqueue and Close, called by main (StopEnqueue possibly by          *)
(* server.Shutdown first; the second call finds closeOnce spent and falls  *)
(* through both waits).                                                    *)

StopEnqueue ==
  /\ closer = "running"
  /\ closed' = TRUE
  /\ closer' = "stopping"
  /\ UNCHANGED <<ch, producers, pc, env, loop, depth, gauge, offered,
                 accepted, handled>>

StopEnqueueReturn ==
  /\ closer = "stopping"
  /\ producers = {}
  /\ closer' = "stopped"
  /\ UNCHANGED <<ch, closed, producers, pc, env, loop, depth, gauge, offered,
                 accepted, handled>>

CloseReturn ==
  /\ closer = "stopped"
  /\ \A w \in Workers : pc[w] = "exit"
  /\ closer' = "closed"
  /\ UNCHANGED <<ch, closed, producers, pc, env, loop, depth, gauge, offered,
                 accepted, handled>>

\* The queue has been closed and every envelope has been offered.
Terminated ==
  /\ closer = "closed"
  /\ offered = Envs
  /\ UNCHANGED vars

-----------------------------------------------------------------------------
ProducerStep(p) == EnqueueSend(p) \/ EnqueueReleased(p) \/ ReadDepth(p)
                   \/ EnqueueReturn(p)

WorkerStep(w) == Recv(w) \/ CallFn(w) \/ ReadDepth(w) \/ WorkerLoop(w)
                 \/ SeeDone(w) \/ ProducersGone(w) \/ Exit(w)

Next ==
  \/ \E p \in Producers :
       \/ \E e \in Envs : EnqueueBegin(p, e) \/ EnqueueRefused(p, e)
       \/ ProducerStep(p)
  \/ \E w \in Workers : WorkerStep(w)
  \/ StopEnqueue \/ StopEnqueueReturn \/ CloseReturn
  \/ Terminated

\* The Go scheduler runs every runnable goroutine, and fn (a Kafka write
\* with a timeout or a file append) terminates.  Nothing obliges a client to
\* send or an operator to stop the gateway.
Fairness ==
  /\ \A p \in Producers : WF_vars(ProducerStep(p))
  /\ \A w \in Workers : WF_vars(WorkerStep(w))
  /\ WF_vars(StopEnqueueReturn)
  /\ WF_vars(CloseReturn)

Spec == Init /\ [][Next]_vars
FairSpec == Spec /\ Fairness

-----------------------------------------------------------------------------
(* Properties *)

\* Every variable stays in its type; the channel never holds more than its
\* capacity.
TypeOK ==
  /\ ch \in Seq(Envs)
  /\ Len(ch) <= Capacity
  /\ closed \in BOOLEAN
  /\ producers \in SUBSET Producers
  /\ pc \in [Threads -> ProducerPC \union WorkerPC]
  /\ \A p \in Producers : pc[p] \in ProducerPC
  /\ \A w \in Workers : pc[w] \in WorkerPC
  /\ env \in [Threads -> Envs \union {NoEnv}]
  /\ loop \in [Workers -> {"main", "drain"}]
  /\ closer \in {"running", "stopping", "stopped", "closed"}
  /\ depth \in [Threads -> Nat]
  /\ gauge \in Nat
  /\ offered \in SUBSET Envs
  /\ accepted \in SUBSET Envs
  /\ handled \in [Envs -> Nat]

\* When Close returns, fn has been called exactly once for every envelope
\* whose Enqueue was accepted and never for another one, whatever the
\* interleaving of blocked producers, workers that see q.done early and
\* workers that drain.
CloseHandlesAllOnce ==
  closer = "closed" =>
    \A e \in Envs : handled[e] = IF e \in accepted THEN 1 ELSE 0

\* From the return of StopEnqueue on, nothing is put on the channel any more:
\* this is what lets a draining worker exit on an empty channel.
NoSendOnceStopped ==
  [][(closer \in {"stopped", "closed"}) => accepted' = accepted]_vars

\* A worker in its draining loop never shares the channel with a producer that
\* could still send.
DrainingAlone ==
  (\E w \in Workers : loop[w] = "drain" \/ pc[w] = "exit")
    => \A p \in Producers : pc[p] # "select"

\* The strengthening the proofs need, in three parts.
\*
\* q.producers counts exactly the producers between Add and Done; an envelope
\* is held only by a blocked producer or by a worker inside fn.
Registered ==
  /\ producers = {p \in Producers : pc[p] # "idle"}
  /\ \A p \in Producers : env[p] # NoEnv <=> pc[p] = "select"
  /\ \A w \in Workers : env[w] # NoEnv <=> pc[w] = "fn"

\* How far StopEnqueue has come and how far each worker may be by then.  A
\* worker that exited leaves an empty channel, and no registered producer can
\* fill it again.
StopPhases ==
  /\ closed <=> closer # "running"
  /\ closer \in {"stopped", "closed"} => producers = {}
  /\ closer = "closed" => \A w \in Workers : pc[w] = "exit"
  /\ \A w \in Workers :
       /\ pc[w] = "wait" => closed
       /\ loop[w] = "drain" => closed /\ producers = {}
       /\ pc[w] = "exit" => loop[w] = "drain" /\ ch = <<>>

InChannel(e) == \E i \in 1..Len(ch) : ch[i] = e
InHand(e) == \E w \in Workers : env[w] = e

\* Every envelope is in at most one place: on offer by one producer, in one
\* slot of the channel, in the hands of one worker, or handled once.
OnePlace ==
  /\ accepted \subseteq offered
  /\ \A p \in Producers :
       /\ env[p] # NoEnv => env[p] \in offered \ accepted
       /\ \A q \in Producers : env[p] = env[q] /\ env[p] # NoEnv => p = q
  /\ \A i, j \in 1..Len(ch) : ch[i] = ch[j] => i = j
  /\ \A v, w \in Workers : env[v] = env[w] /\ env[v] # NoEnv => v = w
  /\ \A e \in Envs :
       /\ ~(InChannel(e) /\ InHand(e))
       /\ InChannel(e) \/ InHand(e) => e \in accepted /\ handled[e] = 0
       /\ e \in accepted => InChannel(e) \/ InHand(e) \/ handled[e] = 1
       /\ e \notin accepted => handled[e] = 0

\* An accepted envelope is never lost and never doubled on its way from the
\* channel to fn, at any point of any interleaving.
IInv == TypeOK /\ Registered /\ StopPhases /\ OnePlace

\* The queue implements its contract: accepted envelopes are handed over
\* exactly once and, the threads being scheduled fairly, eventually.
Contract == INSTANCE QueueContract WITH
  pending <- {e \in accepted : handled[e] = 0},
  open <- closer # "closed"

ContractSpec == Contract!CSpec

\* An Enqueue blocked on a full channel always returns, and StopEnqueue and
\* Close always return once called: no producer, worker and closer wait for
\* each other forever.
EnqueueReturns == \A p \in Producers : pc[p] = "select" ~> pc[p] = "idle"
CloseReturns == (closer = "stopping") ~> (closer = "closed")
=============================================================================
