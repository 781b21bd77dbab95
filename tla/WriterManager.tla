--------------------------- MODULE WriterManager ---------------------------
(***************************************************************************)
(* internal/writer/manager.go over kafka.go and FallbackWriter: the worker *)
(* goroutines inside Manager.Write, the recovery goroutine, and Shutdown   *)
(* as main calls it, over a Kafka that fails and comes back and a process  *)
(* that may die and be started again.                                      *)
(*                                                                         *)
(* m.healthy is atomic, so every Load and Store is a step of its own, and  *)
(* so is each update of the health metric.  Kafka is external: it is what  *)
(* kafka.go assumes of WriteMessages and of the dialer.                    *)
(***************************************************************************)
EXTENDS FallbackWriter

CONSTANTS
  Workers,          \* queue workers that call Manager.Write
  NoEnv,            \* no envelope in hand
  MaxOutages,       \* bound: times Kafka goes down, or turns down a write
  MaxTimeouts       \* bound: writes Kafka took although WriteMessages failed

ASSUME WorkersAssumption == NoEnv \notin Envs /\ NoEnv # Garbage
ASSUME KafkaBounds == MaxOutages \in Nat /\ MaxTimeouts \in Nat

VARIABLES
  healthy,          \* m.healthy
  healthGauge,      \* the kafka healthy metric
  wpc, wenv,        \* where each worker is inside Manager.Write, and with what
  rpc, rec,         \* where the recovery goroutine is, and its record
  main,             \* progress of Shutdown
  kafkaUp,          \* external: Kafka answers probes, and takes all but a few writes
  delivered,        \* external: how often Kafka has each envelope
  outages, timeouts,\* counters for the bounds
  taken,            \* history: envelopes passed to Manager.Write
  replayFailed,     \* history: records whose replay returned an error
  crashLost         \* history: envelopes in the hands of a worker, and in no file,
                    \* when the process died

mgr == <<healthy, healthGauge>>
threads == <<wpc, wenv, rpc, rec, main>>
kafka == <<kafkaUp, delivered, outages, timeouts>>
mhistory == <<taken, replayFailed, crashLost>>
vars == <<fvars, mgr, threads, kafka, mhistory>>

MInit ==
  /\ FInit
  /\ healthy = TRUE
  /\ healthGauge = TRUE
  /\ wpc = [w \in Workers |-> "idle"]
  /\ wenv = [w \in Workers |-> NoEnv]
  /\ rpc = "idle"
  /\ rec = NoEnv
  /\ main = "run"
  /\ kafkaUp = TRUE
  /\ delivered = [e \in Envs |-> 0]
  /\ outages = 0
  /\ timeouts = 0
  /\ taken = {}
  /\ replayFailed = {}
  /\ crashLost = {}

WGoto(w, l) == wpc' = [wpc EXCEPT ![w] = l]
WReturn(w) == WGoto(w, "idle") /\ wenv' = [wenv EXCEPT ![w] = NoEnv]

-----------------------------------------------------------------------------
(* Faulty variants of some of the actions below, one plausible mistake     *)
(* each.  No specification uses them: they are what the properties at the  *)
(* end of the module must tell from the code.                              *)

\* No return after a successful Kafka write.
WriteBoth(w) ==
  /\ wpc[w] = "kafka"
  /\ kafkaUp
  /\ delivered' = [delivered EXCEPT ![wenv[w]] = @ + 1]
  /\ WGoto(w, "fallback")
  /\ UNCHANGED <<fvars, mgr, wenv, rpc, rec, main, kafkaUp, outages, timeouts,
                 mhistory>>

\* The envelope whose Kafka write failed does not go to the fallback writer.
DropOnKafkaError(w) ==
  /\ wpc[w] = "gauge"
  /\ healthGauge' = FALSE
  /\ WReturn(w)
  /\ UNCHANGED <<fvars, healthy, rpc, rec, main, kafka, mhistory>>

\* break instead of return on stopCh.
IgnoreStop ==
  /\ phase = "up" /\ rpc = "idle" /\ main = "stopping"
  /\ UNCHANGED vars

\* tryRecover does not look at the ok result of Peek.
ReplayNothing ==
  /\ rpc \in {"peek", "drainPeek"}
  /\ PeekNothing \/ PeekScanError
  /\ rpc' = "replay"
  /\ UNCHANGED <<mgr, wpc, wenv, rec, main, kafka, mhistory>>

\* tryRecover does not probe when there is nothing to replay.
NoProbe ==
  /\ rpc \in {"peek", "drainPeek"}
  /\ PeekNothing \/ PeekScanError
  /\ rpc' = "idle"
  /\ UNCHANGED <<mgr, wpc, wenv, rec, main, kafka, mhistory>>

\* Shutdown does not wait for the recovery goroutine.
CloseKafkaAtOnce ==
  /\ phase = "up" /\ main = "stopping"
  /\ main' = "kafkaClosed"
  /\ UNCHANGED <<fvars, mgr, wpc, wenv, rpc, rec, kafka, mhistory>>

-----------------------------------------------------------------------------
(* Kafka *)

KafkaOutage ==
  /\ kafkaUp
  /\ outages < MaxOutages
  /\ kafkaUp' = FALSE
  /\ outages' = outages + 1
  /\ UNCHANGED <<fvars, mgr, threads, delivered, timeouts, mhistory>>

KafkaBack ==
  /\ ~kafkaUp
  /\ kafkaUp' = TRUE
  /\ UNCHANGED <<fvars, mgr, threads, delivered, outages, timeouts, mhistory>>

\* KafkaWriter.Write returns nil.
KafkaTakes(e) ==
  /\ kafkaUp
  /\ delivered' = [delivered EXCEPT ![e] = @ + 1]
  /\ UNCHANGED <<kafkaUp, outages, timeouts>>

\* KafkaWriter.Write returns an error: Kafka is down; it answers probes and turns
\* down this write (a topic that does not exist, a message too large); or it has the
\* message and the acknowledgement came after writeTimeout.
KafkaFails(e) ==
  \/ ~kafkaUp /\ UNCHANGED kafka
  \/ /\ kafkaUp
     /\ outages < MaxOutages
     /\ outages' = outages + 1
     /\ UNCHANGED <<kafkaUp, delivered, timeouts>>
  \/ /\ kafkaUp
     /\ timeouts < MaxTimeouts
     /\ timeouts' = timeouts + 1
     /\ delivered' = [delivered EXCEPT ![e] = @ + 1]
     /\ UNCHANGED <<kafkaUp, outages>>

-----------------------------------------------------------------------------
(* Manager.Write, called by a worker *)

\* m.healthy.Load()
Write(w, e) ==
  /\ main = "run" /\ phase = "up"
  /\ wpc[w] = "idle"
  /\ e \notin taken
  /\ WGoto(w, IF healthy THEN "kafka" ELSE "fallback")
  /\ wenv' = [wenv EXCEPT ![w] = e]
  /\ taken' = taken \union {e}
  /\ UNCHANGED <<fvars, mgr, rpc, rec, main, kafka, replayFailed, crashLost>>

WriteKafka(w) ==
  /\ wpc[w] = "kafka"
  /\ KafkaTakes(wenv[w])
  /\ WReturn(w)
  /\ UNCHANGED <<fvars, mgr, rpc, rec, main, mhistory>>

WriteKafkaError(w) ==
  /\ wpc[w] = "kafka"
  /\ KafkaFails(wenv[w])
  /\ WGoto(w, "store")
  /\ UNCHANGED <<fvars, mgr, wenv, rpc, rec, main, mhistory>>

\* m.healthy.Store(false)
WriteStoreUnhealthy(w) ==
  /\ wpc[w] = "store"
  /\ healthy' = FALSE
  /\ WGoto(w, "gauge")
  /\ UNCHANGED <<fvars, healthGauge, wenv, rpc, rec, main, kafka, mhistory>>

\* metrics.KafkaHealthy(false)
WriteGauge(w) ==
  /\ wpc[w] = "gauge"
  /\ healthGauge' = FALSE
  /\ WGoto(w, "fallback")
  /\ UNCHANGED <<fvars, healthy, wenv, rpc, rec, main, kafka, mhistory>>

\* m.writeFallback(env): an error is logged and the envelope dropped.
WriteFallback(w) ==
  /\ wpc[w] = "fallback"
  /\ WriteStep(wenv[w])
  /\ \/ op' = "none" /\ WReturn(w)
     \/ op' # "none" /\ WGoto(w, "rotate") /\ UNCHANGED wenv
  /\ UNCHANGED <<mgr, rpc, rec, main, kafka, mhistory>>

WriteRotate(w) ==
  /\ wpc[w] = "rotate"
  /\ RotateStep
  /\ \/ op' = "none" /\ WReturn(w)
     \/ op' # "none" /\ UNCHANGED <<wpc, wenv>>
  /\ UNCHANGED <<mgr, rpc, rec, main, kafka, mhistory>>

-----------------------------------------------------------------------------
(* recoveryLoop and tryRecover.  The labels of the drain loop start with   *)
(* drain.                                                                  *)

\* case <-ticker.C with m.healthy.Load() false; when it is true the loop
\* continues and nothing changes.
Tick ==
  /\ phase = "up"
  /\ rpc = "idle"
  /\ ~healthy
  /\ rpc' = "peek"
  /\ UNCHANGED <<fvars, mgr, wpc, wenv, rec, main, kafka, mhistory>>

\* case <-m.stopCh
RecoveryStop ==
  /\ phase = "up"
  /\ rpc = "idle"
  /\ main = "stopping"
  /\ rpc' = "exited"
  /\ UNCHANGED <<fvars, mgr, wpc, wenv, rec, main, kafka, mhistory>>

\* An iteration of the loop inside m.fallback.Peek().
RecoveryPeekOn ==
  /\ rpc \in {"peek", "drainPeek"}
  /\ PeekOpen \/ PeekSkip \/ PeekEOF \/ PeekEOFFails
  /\ UNCHANGED <<mgr, threads, kafka, mhistory>>

RecoveryPeekRecord(e) ==
  /\ rpc \in {"peek", "drainPeek"}
  /\ PeekRecord(e)
  /\ rec' = e
  /\ rpc' = IF rpc = "peek" THEN "replay" ELSE "drain"
  /\ UNCHANGED <<mgr, wpc, wenv, main, kafka, mhistory>>

RecoveryPeekNothing ==
  /\ rpc \in {"peek", "drainPeek"}
  /\ PeekNothing \/ PeekScanError
  /\ rpc' = IF rpc = "peek" THEN "probe" ELSE "idle"
  /\ UNCHANGED <<mgr, wpc, wenv, rec, main, kafka, mhistory>>

Probe ==
  /\ rpc = "probe"
  /\ rpc' = IF kafkaUp THEN "probeStore" ELSE "idle"
  /\ UNCHANGED <<fvars, mgr, wpc, wenv, rec, main, kafka, mhistory>>

Replay ==
  /\ rpc \in {"replay", "drain"}
  /\ KafkaTakes(rec)
  /\ rec' = NoEnv
  /\ rpc' = IF rpc = "replay" THEN "replayStore" ELSE "drainPeek"
  /\ UNCHANGED <<fvars, mgr, wpc, wenv, main, mhistory>>

ReplayError ==
  /\ rpc \in {"replay", "drain"}
  /\ KafkaFails(rec)
  /\ replayFailed' = replayFailed \union {rec}
  /\ rec' = NoEnv
  /\ rpc' = IF rpc = "replay" THEN "idle" ELSE "drainStore"
  /\ UNCHANGED <<fvars, mgr, wpc, wenv, main, taken, crashLost>>

\* m.healthy.Store(true), or Store(false) when the drain failed
RecoveryStore ==
  /\ rpc \in {"probeStore", "replayStore", "drainStore"}
  /\ healthy' = (rpc # "drainStore")
  /\ rpc' = CASE rpc = "probeStore" -> "probeGauge"
              [] rpc = "replayStore" -> "replayGauge"
              [] rpc = "drainStore" -> "drainGauge"
  /\ UNCHANGED <<fvars, healthGauge, wpc, wenv, rec, main, kafka, mhistory>>

RecoveryGauge ==
  /\ rpc \in {"probeGauge", "replayGauge", "drainGauge"}
  /\ healthGauge' = (rpc # "drainGauge")
  /\ rpc' = IF rpc = "replayGauge" THEN "drainPeek" ELSE "idle"
  /\ UNCHANGED <<fvars, healthy, wpc, wenv, rec, main, kafka, mhistory>>

\* The drain loop's deadline has passed; it is read before each Peek.
DrainDeadline ==
  /\ rpc = "drainPeek" /\ op # "peek"
  /\ rpc' = "idle"
  /\ UNCHANGED <<fvars, mgr, wpc, wenv, rec, main, kafka, mhistory>>

-----------------------------------------------------------------------------
(* Shutdown, called by main once the queues are closed and their workers   *)
(* have exited; the end of the process; NewManager in the next one.        *)

Shutdown ==
  /\ phase = "up" /\ main = "run"
  /\ \A w \in Workers : wpc[w] = "idle"
  /\ main' = "stopping"
  /\ UNCHANGED <<fvars, mgr, wpc, wenv, rpc, rec, kafka, mhistory>>

\* m.recoveryWG.Wait() returns; Flush waits and m.kafka.Close() drops the
\* per-topic writers.
ShutdownKafka ==
  /\ phase = "up" /\ main = "stopping"
  /\ rpc = "exited"
  /\ main' = "kafkaClosed"
  /\ UNCHANGED <<fvars, mgr, wpc, wenv, rpc, rec, kafka, mhistory>>

ShutdownFallback ==
  /\ main = "kafkaClosed"
  /\ Close
  /\ main' = "exited"
  /\ UNCHANGED <<mgr, wpc, wenv, rpc, rec, kafka, mhistory>>

ProcessDies ==
  /\ Crash
  /\ crashLost' = crashLost \union
       ({wenv[w] : w \in {v \in Workers : wpc[v] # "rotate"}} \ {NoEnv})
  /\ wpc' = [w \in Workers |-> "idle"]
  /\ wenv' = [w \in Workers |-> NoEnv]
  /\ rpc' = "exited"
  /\ rec' = NoEnv
  /\ main' = "exited"
  /\ UNCHANGED <<mgr, kafka, taken, replayFailed>>

NewManager ==
  /\ NewFallbackWriter
  /\ healthy' = TRUE
  /\ healthGauge' = TRUE
  /\ rpc' = "idle"
  /\ main' = "run"
  /\ UNCHANGED <<wpc, wenv, rec, kafka, mhistory>>

\* The fallback directory cannot be adopted: main exits.
StartFails ==
  /\ NewFallbackWriterFails
  /\ UNCHANGED <<mgr, threads, kafka, mhistory>>

\* The process has ended for good.
Ended ==
  /\ phase # "up"
  /\ restarts = MaxRestarts
  /\ UNCHANGED vars

-----------------------------------------------------------------------------
WorkerStep(w) == \/ WriteKafka(w) \/ WriteKafkaError(w)
                 \/ WriteStoreUnhealthy(w) \/ WriteGauge(w)
                 \/ WriteFallback(w) \/ WriteRotate(w)

RecoveryStep == \/ Tick \/ RecoveryStop
                \/ RecoveryPeekOn \/ RecoveryPeekNothing
                \/ \E e \in Envs : RecoveryPeekRecord(e)
                \/ Probe \/ Replay \/ ReplayError
                \/ RecoveryStore \/ RecoveryGauge \/ DrainDeadline

MNext ==
  \/ KafkaOutage \/ KafkaBack
  \/ \E w \in Workers : WorkerStep(w) \/ \E e \in Envs : Write(w, e)
  \/ RecoveryStep
  \/ Shutdown \/ ShutdownKafka \/ ShutdownFallback
  \/ ProcessDies \/ NewManager \/ StartFails \/ Ended

MSpec == MInit /\ [][MNext]_vars

\* Goroutines run when they can: every call a worker or the recovery goroutine
\* makes returns (writeTimeout, the probe's timeout, file operations), the
\* ticker ticks, and main carries a shutdown through once it began.  Kafka
\* need not come back, nobody need write, and no crash or shutdown is owed.
\* The select of recoveryLoop picks among ready cases at random, so stopCh is
\* not passed over forever in favour of the ticker.
MFairness ==
  /\ \A w \in Workers : WF_vars(WorkerStep(w))
  /\ WF_vars(RecoveryStep) /\ SF_vars(RecoveryStop)
  /\ WF_vars(ShutdownKafka)
  /\ WF_vars(ShutdownFallback)

MFairSpec == MSpec /\ MFairness

-----------------------------------------------------------------------------
(* Properties *)

RecoveryPC ==
  {"idle", "peek", "probe", "probeStore", "probeGauge", "replay",
   "replayStore", "replayGauge", "drainPeek", "drain", "drainStore",
   "drainGauge", "exited"}

\* Every variable stays in its type.
MTypeOK ==
  /\ FTypeOK
  /\ healthy \in BOOLEAN
  /\ healthGauge \in BOOLEAN
  /\ wpc \in [Workers -> {"idle", "kafka", "store", "gauge", "fallback",
                          "rotate"}]
  /\ wenv \in [Workers -> Envs \union {NoEnv}]
  /\ rpc \in RecoveryPC
  /\ rec \in Envs \union {NoEnv}
  /\ main \in {"run", "stopping", "kafkaClosed", "exited"}
  /\ kafkaUp \in BOOLEAN
  /\ delivered \in [Envs -> Nat]
  /\ outages \in 0..MaxOutages
  /\ timeouts \in 0..MaxTimeouts
  /\ taken \in SUBSET Envs
  /\ replayFailed \in SUBSET Envs
  /\ crashLost \in SUBSET Envs

InFlight(e) == rec = e \/ \E w \in Workers : wenv[w] = e

\* Manager.Write "never returns error to callers": an envelope handed to it is
\* in Kafka, or on its way there, or in a file ahead of the scanner, unless
\* the log says it was lost, rotate pruned its file, its replay was answered
\* with an error, or the process died before a worker had stored it.
NoSilentLoss ==
  \A e \in taken :
    \/ delivered[e] > 0
    \/ InFlight(e)
    \/ Ahead(e)
    \/ e \in refused \union pruned \union replayFailed \union crashLost

\* Kafka never gets an envelope once more than the restarts, the timed-out
\* writes and the failed reads explain; lines too long for the scanner are
\* left out of this instance.
DuplicatesExplained ==
  \A e \in Envs : delivered[e] <= 1 + restarts + timeouts + faults

\* No worker and no recovery write uses KafkaWriter after Close has set its
\* map of writers to nil (writerFor would panic on it), and none touches the
\* fallback files after they were closed.
ClosedLast ==
  main \in {"kafkaClosed", "exited"} =>
    /\ rpc = "exited"
    /\ \A w \in Workers : wpc[w] = "idle"

\* "Health ... stays off until the recovery probe succeeds" (manager.go) and
\* then comes back for good: if Kafka stays up and the process keeps running,
\* the manager ends up healthy whatever the workers and the recovery
\* goroutine did to the flag before.  Writes turned down while probes succeed
\* switch it off again each time; there are only finitely many of them here.
HealthRestored == <>[](kafkaUp /\ main = "run" /\ phase = "up") => <>[]healthy

\* Shutdown returns, also while the recovery goroutine drains or Kafka is
\* down, unless the process dies first.
ShutdownReturns == main = "stopping" ~> main = "exited"

\* README.md 4.2, what happens to a record whose replay failed:
\* "补发失败则保留，等待下次重试" (kept, and retried later).
FailedReplayKept ==
  \A e \in replayFailed : delivered[e] > 0 \/ InFlight(e) \/ Ahead(e) \/ e \in pruned
=============================================================================
