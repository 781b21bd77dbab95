------------------------ MODULE WriterManagerProofs ------------------------
(***************************************************************************)
(* Proofs about WriterManager for any set of workers, envelopes and bounds.*)
(* What the fallback files do is known from FallbackWriterProofs, whose    *)
(* step lemmas hold for any caller.  MInv is inductive; DInv adds what     *)
(* bounds the number of duplicates.                                        *)
(***************************************************************************)
EXTENDS WriterManager, FallbackWriterProofs

\* A worker has an envelope exactly while it is inside Manager.Write, and the
\* recovery goroutine has a record exactly between Peek and the answer of Kafka.
InHand ==
  /\ \A w \in Workers : wpc[w] = "idle" <=> wenv[w] = NoEnv
  /\ rec # NoEnv <=> rpc \in {"replay", "drain"}

\* The order of Shutdown: workers, recovery goroutine, Kafka, files.
Stopped ==
  /\ main # "run" => \A w \in Workers : wpc[w] = "idle"
  /\ main \in {"kafkaClosed", "exited"} => rpc = "exited"
  /\ phase # "up" => main = "exited"

\* At most one worker is inside rotate, and the line it rotates for is safe.
Rotating ==
  /\ \A w \in Workers : wpc[w] = "rotate" => op \in {"rotate", "prune"}
  /\ \A w \in Workers, e \in Envs :
       wpc[w] = "rotate" /\ wenv[w] = e => Ahead(e) \/ e \in pruned
  /\ \A v, w \in Workers : wpc[v] = "rotate" /\ wpc[w] = "rotate" => v = w

\* When the file being scanned is gone, rotate has pruned it.
Orphaned ==
  peek # NoPeek /\ kind[peek.file] = "absent" => EnvsIn({peek.file}) \subseteq pruned

\* The record being replayed is the last line scanned: a crash leaves it in its
\* file, to be scanned again.
Recalled ==
  rec # NoEnv => /\ peek # NoPeek
                 /\ peek.pos > 0
                 /\ lines[peek.file][peek.pos] = rec

\* The inductive invariant.
MInv ==
  /\ MTypeOK
  /\ FInv
  /\ InHand
  /\ Stopped
  /\ Rotating
  /\ Orphaned
  /\ Recalled
  /\ NoSilentLoss

\* An envelope is in one place at a time: with one worker, or in one line.
Once ==
  /\ \A e \in Envs \ taken : delivered[e] = 0
  /\ \A w \in Workers : wenv[w] \in taken \union {NoEnv}
  /\ \A v, w \in Workers : wenv[v] = wenv[w] /\ wenv[v] # NoEnv => v = w
  /\ \A t \in Ts : \A k \in 1..Len(lines[t]) :
       /\ lines[t][k] \in taken \union {Garbage}
       /\ \A w \in Workers : lines[t][k] = wenv[w] => wpc[w] = "rotate"
  /\ \A t, u \in Ts : \A k \in 1..Len(lines[t]), l \in 1..Len(lines[u]) :
       lines[t][k] = lines[u][l] /\ lines[t][k] # Garbage => t = u /\ k = l

\* A line the scanner may still come to, also in a file pruned while open.
Readable(e) ==
  \E t \in Ts : /\ kind[t] # "absent" \/ peek.file = t
                /\ \E k \in 1..Len(lines[t]) :
                     lines[t][k] = e /\ (peek.file = t => k > peek.pos)

\* The envelope may reach Kafka without another restart or failure.
Pending(e) ==
  \/ rec = e
  \/ Readable(e)
  \/ \E w \in Workers : wenv[w] = e /\ wpc[w] # "rotate"

\* What may explain a delivery beyond the first.
Spent == restarts + timeouts + faults

\* Deliveries beyond the first are paid for by restarts, timed-out writes and
\* failed reads, and a further one is owed only where one of them happened.
Paid(e) ==
  /\ delivered[e] <= 1 + Spent
  /\ phase = "up" /\ Pending(e) => delivered[e] <= Spent

\* Every envelope is paid for.
Budget == \A e \in Envs : Paid(e)

\* The inductive invariant for the number of duplicates.
DInv == MInv /\ Once /\ Budget

-----------------------------------------------------------------------------
(* The files under the manager *)

\* What a Write leaves to the caller: it is done unless the file is full.
LEMMA WriteLeaves ==
  ASSUME FTypeOK, NEW e \in Envs, WriteStep(e)
  PROVE  /\ op = "none" /\ phase = "up" /\ phase' = "up"
         /\ op' # "none" => op' = "rotate" /\ WriteAppend(e)
         /\ WriteAppend(e) \/ e \in refused'
<1>1. CASE WriteAppend(e)
  BY <1>1 DEF WriteAppend
<1>2. CASE WriteOpenFails(e)
  BY <1>2 DEF WriteOpenFails, memory
<1>3. CASE WriteFails(e)
  BY <1>3 DEF WriteFails
<1> QED
  BY <1>1, <1>2, <1>3 DEF WriteStep

\* Every step of the manager leaves the files alone or is an operation on them,
\* and only a worker writes to them.
LEMMA FileOperations ==
  ASSUME MNext
  PROVE  \/ \E w \in Workers : WriteFallback(w)
         \/ RotateStep \/ PeekStep
         \/ Close \/ Crash \/ NewFallbackWriter \/ NewFallbackWriterFails
         \/ UNCHANGED fvars
<1>1. ASSUME NEW w \in Workers, WorkerStep(w)
      PROVE  WriteFallback(w) \/ RotateStep \/ UNCHANGED fvars
  BY <1>1 DEF WorkerStep, WriteKafka, WriteKafkaError, WriteStoreUnhealthy,
              WriteGauge, WriteRotate
<1>2. CASE RecoveryStep
  BY <1>2 DEF RecoveryStep, Tick, RecoveryStop, RecoveryPeekOn, RecoveryPeekNothing,
              RecoveryPeekRecord, Probe, Replay, ReplayError, RecoveryStore,
              RecoveryGauge, DrainDeadline, PeekStep
<1>3. CASE \E w \in Workers, e \in Envs : Write(w, e)
  BY <1>3 DEF Write
<1>4. CASE Shutdown \/ ShutdownKafka \/ ShutdownFallback \/ ProcessDies \/ NewManager
           \/ StartFails \/ Ended \/ KafkaOutage \/ KafkaBack
  BY <1>4 DEF Shutdown, ShutdownKafka, ShutdownFallback, ProcessDies, NewManager,
              StartFails, Ended, KafkaOutage, KafkaBack, vars
<1> QED
  BY <1>1, <1>2, <1>3, <1>4 DEF MNext

\* What a worker writes is an envelope, so that the lemmas about the files apply.
LEMMA FilesStep ==
  ASSUME MTypeOK, InHand, MNext
  PROVE  FStep \/ UNCHANGED fvars
<1>1. ASSUME NEW w \in Workers, WriteFallback(w)
      PROVE  FStep
  <2>1. wenv[w] \in Envs
    BY <1>1 DEF WriteFallback, InHand, MTypeOK
  <2> QED
    BY <1>1, <2>1 DEF WriteFallback, FStep
<1> QED
  BY <1>1, FileOperations DEF FStep

\* The invariant of the files holds inside the process.
LEMMA FilesInv ==
  ASSUME MTypeOK, InHand, FInv, MNext
  PROVE  FInv'
BY FilesStep, FInvStep, FInvStutter

\* Nothing the files say of an envelope changes when they do not.
LEMMA AheadSame ==
  ASSUME UNCHANGED fvars, NEW e
  PROVE  Ahead(e)' <=> Ahead(e)
BY DEF fvars, disk, memory, Ahead

-----------------------------------------------------------------------------
(* Types, program counters and the order of Shutdown *)

\* Every step of the manager keeps the types.
LEMMA MTypeStep ==
  ASSUME MTypeOK, InHand, FInv, MNext
  PROVE  MTypeOK'
<1> USE DEF MTypeOK
<1>0. FTypeOK'
  BY FilesInv DEF FInv
<1>1. \A w \in Workers : wpc[w] # "idle" => wenv[w] \in Envs
  BY DEF InHand
<1>2. rpc \in {"replay", "drain"} => rec \in Envs
  BY DEF InHand
<1>3. ASSUME NEW e \in Envs, KafkaTakes(e) \/ KafkaFails(e)
      PROVE  /\ kafkaUp' \in BOOLEAN /\ delivered' \in [Envs -> Nat]
             /\ outages' \in 0..MaxOutages /\ timeouts' \in 0..MaxTimeouts
  BY <1>3, KafkaBounds DEF KafkaTakes, KafkaFails, kafka
<1>4. CASE KafkaOutage
  <2>1. outages' \in 0..MaxOutages
    BY <1>4, KafkaBounds DEF KafkaOutage
  <2> QED
    BY <1>0, <1>4, <2>1 DEF KafkaOutage, mgr, threads, mhistory
<1>5. CASE KafkaBack
  BY <1>0, <1>5 DEF KafkaBack, mgr, threads, mhistory
<1>6. ASSUME NEW w \in Workers, NEW e \in Envs, Write(w, e)
      PROVE  MTypeOK'
  BY <1>0, <1>6 DEF Write, WGoto, mgr, kafka
<1>7. ASSUME NEW w \in Workers, WriteKafka(w)
      PROVE  MTypeOK'
  BY <1>0, <1>1, <1>3, <1>7 DEF WriteKafka, WReturn, WGoto, mgr, mhistory
<1>8. ASSUME NEW w \in Workers, WriteKafkaError(w)
      PROVE  MTypeOK'
  BY <1>0, <1>1, <1>3, <1>8 DEF WriteKafkaError, WGoto, mgr, mhistory
<1>9. ASSUME NEW w \in Workers, WriteStoreUnhealthy(w)
      PROVE  MTypeOK'
  BY <1>0, <1>9 DEF WriteStoreUnhealthy, WGoto, kafka, mhistory
<1>10. ASSUME NEW w \in Workers, WriteGauge(w)
       PROVE  MTypeOK'
  BY <1>0, <1>10 DEF WriteGauge, WGoto, kafka, mhistory
<1>11. ASSUME NEW w \in Workers, WriteFallback(w)
       PROVE  MTypeOK'
  BY <1>0, <1>11 DEF WriteFallback, WReturn, WGoto, mgr, kafka, mhistory
<1>12. ASSUME NEW w \in Workers, WriteRotate(w)
       PROVE  MTypeOK'
  BY <1>0, <1>12 DEF WriteRotate, WReturn, WGoto, mgr, kafka, mhistory
<1>13. CASE Tick \/ RecoveryStop \/ Probe \/ DrainDeadline
  BY <1>0, <1>13 DEF Tick, RecoveryStop, Probe, DrainDeadline, mgr, kafka, mhistory,
                     RecoveryPC
<1>14. CASE RecoveryPeekOn
  BY <1>0, <1>14 DEF RecoveryPeekOn, mgr, threads, kafka, mhistory
<1>15. CASE RecoveryPeekNothing
  BY <1>0, <1>15 DEF RecoveryPeekNothing, mgr, kafka, mhistory, RecoveryPC
<1>16. ASSUME NEW e \in Envs, RecoveryPeekRecord(e)
       PROVE  MTypeOK'
  BY <1>0, <1>16 DEF RecoveryPeekRecord, mgr, kafka, mhistory, RecoveryPC
<1>17. CASE Replay
  BY <1>0, <1>2, <1>3, <1>17 DEF Replay, mgr, mhistory, RecoveryPC
<1>18. CASE ReplayError
  BY <1>0, <1>2, <1>3, <1>18 DEF ReplayError, mgr, RecoveryPC
<1>19. CASE RecoveryStore
  BY <1>0, <1>19 DEF RecoveryStore, kafka, mhistory, RecoveryPC
<1>20. CASE RecoveryGauge
  BY <1>0, <1>20 DEF RecoveryGauge, kafka, mhistory, RecoveryPC
<1>21. CASE Shutdown \/ ShutdownKafka
  BY <1>0, <1>21 DEF Shutdown, ShutdownKafka, mgr, kafka, mhistory
<1>22. CASE ShutdownFallback
  BY <1>0, <1>22 DEF ShutdownFallback, mgr, kafka, mhistory
<1>23. CASE ProcessDies
  BY <1>0, <1>23 DEF ProcessDies, mgr, kafka, RecoveryPC
<1>24. CASE NewManager
  BY <1>0, <1>24 DEF NewManager, kafka, mhistory, RecoveryPC
<1>25. CASE StartFails
  BY <1>0, <1>25 DEF StartFails, mgr, threads, kafka, mhistory
<1>26. CASE Ended
  BY <1>0, <1>26 DEF Ended, vars, mgr, threads, kafka, mhistory
<1> QED
  BY <1>4, <1>5, <1>6, <1>7, <1>8, <1>9, <1>10, <1>11, <1>12, <1>13, <1>14, <1>15,
     <1>16, <1>17, <1>18, <1>19, <1>20, <1>21, <1>22, <1>23, <1>24, <1>25, <1>26
     DEF MNext, WorkerStep, RecoveryStep

\* Every step keeps the goroutines and the order of Shutdown consistent.
LEMMA ThreadsStep ==
  ASSUME MTypeOK, InHand, Stopped, FInv, MNext
  PROVE  InHand' /\ Stopped'
<1> USE DEF MTypeOK, InHand, Stopped
<1>1. CASE KafkaOutage \/ KafkaBack
  BY <1>1 DEF KafkaOutage, KafkaBack, threads, fvars
<1>2. ASSUME NEW w \in Workers, NEW e \in Envs, Write(w, e)
      PROVE  InHand' /\ Stopped'
  BY <1>2, WorkersAssumption DEF Write, WGoto, fvars
<1>3. ASSUME NEW w \in Workers, WriteKafka(w)
      PROVE  InHand' /\ Stopped'
  BY <1>3 DEF WriteKafka, WReturn, WGoto, fvars
<1>4. ASSUME NEW w \in Workers,
             WriteKafkaError(w) \/ WriteStoreUnhealthy(w) \/ WriteGauge(w)
      PROVE  InHand' /\ Stopped'
  BY <1>4 DEF WriteKafkaError, WriteStoreUnhealthy, WriteGauge, WGoto, fvars
<1>5. ASSUME NEW w \in Workers, WriteFallback(w)
      PROVE  InHand' /\ Stopped'
  <2>1. phase' = "up"
    BY <1>5, WriteLeaves DEF WriteFallback, FInv
  <2> QED
    BY <1>5, <2>1 DEF WriteFallback, WReturn, WGoto
<1>6. ASSUME NEW w \in Workers, WriteRotate(w)
      PROVE  InHand' /\ Stopped'
  <2>1. phase' = "up"
    BY <1>6 DEF WriteRotate, RotateStep, RotateRename, RotateFails, RotatePrune,
                RotatePruneFails
  <2> QED
    BY <1>6, <2>1 DEF WriteRotate, WReturn, WGoto
<1>7. CASE Tick \/ RecoveryStop \/ Probe \/ DrainDeadline
  BY <1>7 DEF Tick, RecoveryStop, Probe, DrainDeadline, fvars
<1>8. CASE RecoveryPeekOn \/ RecoveryPeekNothing
  <2>1. UNCHANGED phase
    BY <1>8 DEF RecoveryPeekOn, RecoveryPeekNothing, PeekOpen, PeekSkip, PeekEOF,
                PeekEOFFails, PeekNothing, PeekScanError
  <2> QED
    BY <1>8, <2>1 DEF RecoveryPeekOn, RecoveryPeekNothing, threads
<1>9. ASSUME NEW e \in Envs, RecoveryPeekRecord(e)
      PROVE  InHand' /\ Stopped'
  BY <1>9, WorkersAssumption DEF RecoveryPeekRecord, PeekRecord
<1>10. CASE Replay \/ ReplayError
  BY <1>10 DEF Replay, ReplayError, fvars
<1>11. CASE RecoveryStore \/ RecoveryGauge
  BY <1>11 DEF RecoveryStore, RecoveryGauge, fvars
<1>12. CASE Shutdown \/ ShutdownKafka
  BY <1>12 DEF Shutdown, ShutdownKafka, fvars
<1>13. CASE ShutdownFallback
  BY <1>13 DEF ShutdownFallback
<1>14. CASE ProcessDies
  BY <1>14 DEF ProcessDies
<1>15. CASE NewManager
  BY <1>15 DEF NewManager, NewFallbackWriter
<1>16. CASE StartFails
  BY <1>16 DEF StartFails, NewFallbackWriterFails, threads
<1>17. CASE Ended
  BY <1>17 DEF Ended, vars, threads, fvars
<1> QED
  BY <1>1, <1>2, <1>3, <1>4, <1>5, <1>6, <1>7, <1>8, <1>9, <1>10, <1>11, <1>12,
     <1>13, <1>14, <1>15, <1>16, <1>17 DEF MNext, WorkerStep, RecoveryStep

-----------------------------------------------------------------------------
(* Nothing is lost silently *)

\* The worker inside rotate holds f.mu until rotate ends, and the line it wrote is
\* in the active file, in a .log.done file, or pruned with it.
LEMMA RotatingStep ==
  ASSUME MInv, MNext
  PROVE  Rotating'
<1>0. FTypeOK /\ Handles /\ wpc \in [Workers -> {"idle", "kafka", "store", "gauge",
                                                 "fallback", "rotate"}]
  BY DEF MInv, FInv, MTypeOK
<1>1. ASSUME UNCHANGED <<fvars, wpc, wenv>>
      PROVE  Rotating'
  <2>1. UNCHANGED <<op, pruned>>
    BY <1>1 DEF fvars, memory, history
  <2> QED
    BY <1>1, <2>1, AheadSame DEF MInv, Rotating
<1>2. ASSUME \A w \in Workers : wpc'[w] # "rotate"
      PROVE  Rotating'
  BY <1>2 DEF Rotating
<1>3. op \notin {"rotate", "prune"} => \A w \in Workers : wpc[w] # "rotate"
  BY DEF MInv, Rotating
\* A worker that does not touch the files.
<1>4. ASSUME NEW w \in Workers, UNCHANGED fvars, wpc[w] # "rotate",
             NEW l, l # "rotate", WGoto(w, l), \A v \in Workers : v # w => wenv'[v] = wenv[v]
      PROVE  Rotating'
  <2>1. UNCHANGED <<op, pruned>>
    BY <1>4 DEF fvars, memory, history
  <2>2. \A v \in Workers : wpc'[v] = "rotate" => v # w /\ wpc[v] = "rotate"
    BY <1>0, <1>4 DEF WGoto
  <2> QED
    BY <1>4, <2>1, <2>2, AheadSame DEF MInv, Rotating
<1>5. ASSUME NEW w \in Workers, NEW e \in Envs, Write(w, e)
      PROVE  Rotating'
  <2>1. \E l : l # "rotate" /\ WGoto(w, l)
    BY <1>5 DEF Write
  <2>2. UNCHANGED fvars /\ wpc[w] # "rotate" /\ \A v \in Workers : v # w => wenv'[v] = wenv[v]
    BY <1>5 DEF Write, MInv, MTypeOK
  <2> QED
    BY <1>4, <2>1, <2>2
<1>6. ASSUME NEW w \in Workers, WriteKafka(w)
      PROVE  Rotating'
  <2>1. wenv' = [wenv EXCEPT ![w] = NoEnv] /\ wenv \in [Workers -> Envs \union {NoEnv}]
    BY <1>6 DEF WriteKafka, WReturn, MInv, MTypeOK
  <2> QED
    BY <1>4, <1>6, <2>1 DEF WriteKafka, WReturn
<1>7. ASSUME NEW w \in Workers,
             WriteKafkaError(w) \/ WriteStoreUnhealthy(w) \/ WriteGauge(w)
      PROVE  Rotating'
  BY <1>4, <1>7 DEF WriteKafkaError, WriteStoreUnhealthy, WriteGauge
<1>8. ASSUME NEW w \in Workers, WriteFallback(w)
      PROVE  Rotating'
  <2>1. wenv[w] \in Envs /\ WriteStep(wenv[w])
    BY <1>8 DEF WriteFallback, MInv, InHand, MTypeOK
  <2>2. \A v \in Workers : wpc[v] # "rotate"
    BY <1>0, <1>3, <2>1, WriteLeaves
  <2>3. CASE op' = "none"
    BY <1>0, <1>2, <1>8, <2>2, <2>3 DEF WriteFallback, WReturn, WGoto
  <2>4. CASE op' # "none"
    <3>1. PICK e \in Envs : e = wenv[w]
      BY <2>1
    <3>2. op' = "rotate" /\ WriteAppend(e)
      BY <1>0, <2>1, <2>4, <3>1, WriteLeaves
    <3>3. Ahead(e)'
      BY <1>0, <3>2, AheadNew
    <3>4. wpc' = [wpc EXCEPT ![w] = "rotate"] /\ wenv' = wenv
      BY <1>8, <2>4 DEF WriteFallback, WGoto
    <3>5. \A v \in Workers : wpc'[v] = "rotate" => v = w
      BY <1>0, <2>2, <3>4
    <3> QED
      BY <3>1, <3>2, <3>3, <3>4, <3>5 DEF Rotating
  <2> QED
    BY <2>3, <2>4
<1>9. ASSUME NEW w \in Workers, WriteRotate(w)
      PROVE  Rotating'
  <2>1. \A v \in Workers : wpc[v] = "rotate" => v = w
    BY <1>9 DEF WriteRotate, MInv, Rotating
  <2>2. CASE op' = "none"
    BY <1>0, <1>2, <1>9, <2>1, <2>2 DEF WriteRotate, WReturn, WGoto
  <2>3. CASE op' # "none"
    <3>1. op' \in {"rotate", "prune"} /\ UNCHANGED <<wpc, wenv>>
      BY <1>9, <2>3 DEF WriteRotate, RotateStep, RotateRename, RotateFails,
                        RotatePrune, RotatePruneFails
    <3>2. ASSUME NEW e \in Envs, Ahead(e) \/ e \in pruned
          PROVE  Ahead(e)' \/ e \in pruned'
      <4>1. OtherStep(e) /\ FStep
        BY <1>9 DEF WriteRotate, OtherStep, FStep
      <4> QED
        BY <1>0, <3>2, <4>1, AheadKept, HistoryGrows
    <3> QED
      BY <3>1, <3>2 DEF MInv, Rotating
  <2> QED
    BY <2>2, <2>3
<1>10. CASE Tick \/ RecoveryStop \/ Probe \/ Replay \/ ReplayError \/ RecoveryStore
            \/ RecoveryGauge \/ DrainDeadline
  BY <1>1, <1>10 DEF Tick, RecoveryStop, Probe, Replay, ReplayError, RecoveryStore,
                     RecoveryGauge, DrainDeadline
<1>11. CASE RecoveryPeekOn \/ RecoveryPeekNothing \/ \E e \in Envs : RecoveryPeekRecord(e)
  <2>1. Peeking /\ UNCHANGED wpc
    BY <1>11 DEF RecoveryPeekOn, RecoveryPeekNothing, RecoveryPeekRecord, PeekOpen,
                 PeekSkip, PeekEOF, PeekEOFFails, PeekNothing, PeekScanError,
                 PeekRecord, threads
  <2> QED
    BY <1>2, <1>3, <2>1 DEF Peeking
<1>12. CASE Shutdown \/ ShutdownKafka \/ KafkaOutage \/ KafkaBack \/ Ended
  BY <1>1, <1>12 DEF Shutdown, ShutdownKafka, KafkaOutage, KafkaBack, Ended, vars,
                     threads
<1>13. CASE ShutdownFallback \/ NewManager \/ StartFails
  <2>1. \A w \in Workers : wpc[w] = "idle"
    BY <1>13 DEF ShutdownFallback, NewManager, StartFails, NewFallbackWriter,
                 NewFallbackWriterFails, MInv, Stopped
  <2> QED
    BY <1>2, <1>13, <2>1 DEF ShutdownFallback, NewManager, StartFails, threads
<1>14. CASE ProcessDies
  BY <1>2, <1>14 DEF ProcessDies
<1> QED
  BY <1>5, <1>6, <1>7, <1>8, <1>9, <1>10, <1>11, <1>12, <1>13, <1>14
     DEF MNext, WorkerStep, RecoveryStep

\* Only the scanner's own end of file deletes the file without pruning it.
LEMMA OrphanedFiles ==
  ASSUME FInv, Orphaned, FStep
  PROVE  Orphaned'
<1>0. FTypeOK /\ Handles /\ Handles' /\ None \notin Ts
  BY HandlesStep, BoundsAssumption DEF FInv, Ts, None
<1>1. CASE peek' = NoPeek
  BY <1>1 DEF Orphaned
<1>2. ASSUME NEW e \in Envs, WriteStep(e)
      PROVE  Orphaned'
  <2>1. UNCHANGED <<peek, pruned>>
    BY <1>0, <1>2, WriteCases
  <2>2. peek # NoPeek => lines'[peek.file] = lines[peek.file]
    <3> HAVE peek # NoPeek
    <3>1. peek.file \in Ts /\ kind'[peek.file] # "log"
      BY <1>0, <2>1 DEF Handles
    <3>2. CASE UNCHANGED lines
      BY <3>2
    <3>3. ASSUME Target \in Ts, \E x : AppendTo(Target, <<x>>)
          PROVE  peek.file # Target
      BY <1>0, <3>1, <3>3 DEF AppendTo, FTypeOK
    <3> QED
      BY <1>0, <1>2, <3>1, <3>2, <3>3, OneMoreLine
  <2>3. peek # NoPeek /\ kind'[peek.file] = "absent" => kind[peek.file] = "absent"
    BY <1>0, <1>2, WriteCases DEF Handles, WriteAppend, AppendTo, FTypeOK, disk
  <2> QED
    BY <2>1, <2>2, <2>3 DEF Orphaned, EnvsIn
<1>3. ASSUME UNCHANGED <<lines, pruned>>, peek # NoPeek, peek'.file = peek.file,
             \A t \in Ts : kind'[t] = "absent" => kind[t] = "absent"
      PROVE  Orphaned'
  <2>1. peek.file \in Ts
    BY <1>0, <1>3 DEF Handles
  <2> QED
    BY <1>3, <2>1 DEF Orphaned, EnvsIn
<1>4. CASE RotateRename \/ RotateFails
  <2>1. \A t \in Ts : kind'[t] = "absent" => kind[t] = "absent"
    BY <1>0, <1>4 DEF RotateRename, RotateFails, FTypeOK, disk
  <2> QED
    BY <1>1, <1>3, <1>4, <2>1 DEF RotateRename, RotateFails, disk, history
<1>5. ASSUME NEW S, kind' = [t \in Ts |-> IF t \in S THEN "absent" ELSE kind[t]],
             pruned' = pruned \union EnvsIn(S), UNCHANGED <<lines, peek>>
      PROVE  Orphaned'
  <2>1. peek # NoPeek => peek.file \in Ts
    BY <1>0 DEF Handles
  <2>2. peek.file \in S => EnvsIn({peek.file}) \subseteq EnvsIn(S)
    BY DEF EnvsIn
  <2>3. EnvsIn({peek.file})' = EnvsIn({peek.file})
    BY <1>5 DEF EnvsIn
  <2> QED
    BY <1>5, <2>1, <2>2, <2>3 DEF Orphaned
<1>6. CASE RotatePrune
  BY <1>5, <1>6 DEF RotatePrune
<1>7. CASE RotatePruneFails
  BY <1>1, <1>3, <1>5, <1>7 DEF RotatePruneFails
<1>8. CASE PeekOpen
  <2>1. Done \in SUBSET Ts /\ Done # {}
    BY <1>8 DEF PeekOpen, Done
  <2>2. kind[Oldest(Done)] = "done"
    BY <2>1, OldestIsFirst DEF Done
  <2> QED
    BY <1>8, <2>2 DEF PeekOpen, Orphaned, disk
<1>9. CASE PeekSkip \/ \E e \in Envs : PeekRecord(e)
  <2>1. peek'.file = peek.file /\ peek # NoPeek
    BY <1>0, <1>9, PeekAdvances DEF PeekSkip, PeekRecord, HasLine, FTypeOK
  <2> QED
    BY <1>3, <1>9, <2>1 DEF PeekSkip, PeekRecord, disk, history
<1>10. CASE PeekNothing \/ PeekScanError \/ PeekEOF \/ PeekEOFFails
  BY <1>1, <1>10 DEF PeekNothing, PeekScanError, PeekEOF, PeekEOFFails
<1>11. CASE Close \/ Crash \/ NewFallbackWriter \/ NewFallbackWriterFails
  BY <1>0, <1>1, <1>11 DEF Close, Crash, NewFallbackWriter, NewFallbackWriterFails,
                           memory, Handles
<1> QED
  BY <1>2, <1>4, <1>6, <1>7, <1>8, <1>9, <1>10, <1>11 DEF FStep, RotateStep, PeekStep

\* The same for every step of the manager.
LEMMA OrphanedStep ==
  ASSUME MInv, MNext
  PROVE  Orphaned'
<1>1. CASE UNCHANGED fvars
  BY <1>1 DEF MInv, Orphaned, EnvsIn, fvars, disk, memory, history
<1> QED
  BY <1>1, FilesStep, OrphanedFiles DEF MInv

\* The scanner stays behind the record until Kafka has answered.
LEMMA RecalledStep ==
  ASSUME MInv, MNext
  PROVE  Recalled'
<1>0. FTypeOK /\ Handles /\ InHand /\ MTypeOK
  BY DEF MInv, FInv
<1>1. CASE rec' = NoEnv
  BY <1>1 DEF Recalled
<1>2. CASE UNCHANGED <<fvars, rec>>
  BY <1>2 DEF MInv, Recalled, fvars, disk, memory
<1>3. ASSUME FStep, UNCHANGED <<peek, rec>>
      PROVE  Recalled'
  <2>1. rec # NoEnv => lines'[peek.file][peek.pos] = lines[peek.file][peek.pos]
    <3> HAVE rec # NoEnv
    <3>1. /\ peek.file \in Ts /\ peek.pos > 0
          /\ peek.pos \in 0..Len(lines[peek.file])
      BY <1>0 DEF MInv, Recalled, Handles
    <3>2. Len(lines[peek.file]) \in Nat
      BY <1>0, <3>1 DEF FTypeOK
    <3> QED
      BY <1>0, <1>3, <3>1, <3>2, LinesStay
  <2> QED
    BY <1>3, <2>1 DEF MInv, Recalled
<1>4. ASSUME NEW w \in Workers, WriteFallback(w)
      PROVE  Recalled'
  <2>1. wenv[w] \in Envs /\ WriteStep(wenv[w])
    BY <1>0, <1>4 DEF WriteFallback, InHand, MTypeOK
  <2>2. UNCHANGED <<peek, rec>>
    BY <1>0, <1>4, <2>1, WriteCases DEF WriteFallback
  <2> QED
    BY <1>3, <2>1, <2>2 DEF FStep
<1>5. ASSUME NEW w \in Workers, WriteRotate(w)
      PROVE  Recalled'
  BY <1>3, <1>5 DEF WriteRotate, FStep, RotateStep, RotateRename, RotateFails,
                    RotatePrune, RotatePruneFails
<1>6. ASSUME NEW e \in Envs, RecoveryPeekRecord(e)
      PROVE  Recalled'
  <2>1. PeekRecord(e) /\ rec' = e
    BY <1>6 DEF RecoveryPeekRecord
  <2>2. peek'.file = peek.file /\ peek'.pos = peek.pos + 1 /\ peek.pos \in Nat
    BY <1>0, <2>1, PeekAdvances DEF PeekRecord, FTypeOK
  <2>3. lines'[peek'.file][peek'.pos] = e
    BY <2>1, <2>2 DEF PeekRecord, NextLine, disk
  <2>4. peek' # NoPeek /\ peek'.pos > 0
    BY <2>2 DEF NoPeek
  <2> QED
    BY <2>1, <2>3, <2>4 DEF Recalled
<1>7. CASE RecoveryPeekOn \/ RecoveryPeekNothing
  BY <1>0, <1>1, <1>7 DEF RecoveryPeekOn, RecoveryPeekNothing, InHand, threads
<1>8. CASE ShutdownFallback \/ NewManager \/ StartFails
  BY <1>0, <1>1, <1>8 DEF ShutdownFallback, NewManager, StartFails, InHand, MInv,
                          Stopped, threads, NewFallbackWriter, NewFallbackWriterFails
<1>9. CASE ProcessDies \/ Replay \/ ReplayError
  BY <1>1, <1>9 DEF ProcessDies, Replay, ReplayError
<1>10. CASE Tick \/ RecoveryStop \/ Probe \/ RecoveryStore \/ RecoveryGauge
            \/ DrainDeadline
  BY <1>2, <1>10 DEF Tick, RecoveryStop, Probe, RecoveryStore, RecoveryGauge,
                     DrainDeadline
<1>11. ASSUME NEW w \in Workers,
              \/ WriteKafka(w) \/ WriteKafkaError(w) \/ WriteStoreUnhealthy(w)
              \/ WriteGauge(w) \/ \E e \in Envs : Write(w, e)
       PROVE  Recalled'
  BY <1>2, <1>11 DEF WriteKafka, WriteKafkaError, WriteStoreUnhealthy, WriteGauge, Write
<1>12. CASE Shutdown \/ ShutdownKafka \/ KafkaOutage \/ KafkaBack \/ Ended
  BY <1>2, <1>12 DEF Shutdown, ShutdownKafka, KafkaOutage, KafkaBack, Ended, vars,
                     threads
<1> QED
  BY <1>4, <1>5, <1>6, <1>7, <1>8, <1>9, <1>10, <1>11, <1>12
     DEF MNext, WorkerStep, RecoveryStep

\* Kafka forgets nothing and histories only grow.
LEMMA Monotone ==
  ASSUME MInv, MNext
  PROVE  /\ \A e \in Envs : delivered[e] > 0 => delivered'[e] > 0
         /\ refused \subseteq refused' /\ pruned \subseteq pruned'
         /\ replayFailed \subseteq replayFailed' /\ crashLost \subseteq crashLost'
<1>0. FTypeOK /\ delivered \in [Envs -> Nat]
  BY DEF MInv, MTypeOK
<1>1. refused \subseteq refused' /\ pruned \subseteq pruned'
  <2>1. CASE UNCHANGED fvars
    BY <2>1 DEF fvars, history
  <2> QED
    BY <1>0, <2>1, FilesStep, HistoryGrows DEF MInv
<1>2. replayFailed \subseteq replayFailed' /\ crashLost \subseteq crashLost'
  BY DEF MNext, WorkerStep, RecoveryStep, KafkaOutage, KafkaBack, Write, WriteKafka,
     WriteKafkaError, WriteStoreUnhealthy, WriteGauge, WriteFallback, WriteRotate,
     Tick, RecoveryStop, RecoveryPeekOn, RecoveryPeekNothing, RecoveryPeekRecord,
     Probe, Replay, ReplayError, RecoveryStore, RecoveryGauge, DrainDeadline,
     Shutdown, ShutdownKafka, ShutdownFallback, ProcessDies, NewManager, StartFails,
     Ended, vars, mhistory
<1>3. ASSUME NEW x, KafkaTakes(x) \/ KafkaFails(x)
      PROVE  \A e \in Envs : delivered[e] > 0 => delivered'[e] > 0
  BY <1>0, <1>3 DEF KafkaTakes, KafkaFails, kafka
<1>4. ASSUME UNCHANGED delivered
      PROVE  \A e \in Envs : delivered[e] > 0 => delivered'[e] > 0
  BY <1>4
<1>5. \/ UNCHANGED delivered
      \/ \E x : KafkaTakes(x) \/ KafkaFails(x)
  BY DEF MNext, WorkerStep, RecoveryStep, KafkaOutage, KafkaBack, Write, WriteKafka,
     WriteKafkaError, WriteStoreUnhealthy, WriteGauge, WriteFallback, WriteRotate,
     Tick, RecoveryStop, RecoveryPeekOn, RecoveryPeekNothing, RecoveryPeekRecord,
     Probe, Replay, ReplayError, RecoveryStore, RecoveryGauge, DrainDeadline,
     Shutdown, ShutdownKafka, ShutdownFallback, ProcessDies, NewManager, StartFails,
     Ended, vars, kafka
<1> QED
  BY <1>1, <1>2, <1>3, <1>4, <1>5

\* A line ahead of the scanner stays there, is pruned, or is being replayed.
LEMMA AheadOrReplayed ==
  ASSUME MInv, MNext, NEW e \in Envs, Ahead(e)
  PROVE  Ahead(e)' \/ e \in pruned' \/ rec' = e
<1>0. FTypeOK /\ Handles
  BY DEF MInv, FInv
<1>1. CASE UNCHANGED fvars
  BY <1>1, AheadSame
<1>2. CASE OtherStep(e)
  BY <1>0, <1>2, AheadKept
<1>3. ASSUME NEW x \in Envs, RecoveryPeekRecord(x)
      PROVE  (x = e /\ rec' = e) \/ OtherStep(e)
  BY <1>3 DEF RecoveryPeekRecord, OtherStep
<1>4. ASSUME NEW w \in Workers, WriteFallback(w)
      PROVE  OtherStep(e)
  <2>1. wenv[w] \in Envs
    BY <1>4 DEF WriteFallback, MInv, InHand, MTypeOK
  <2> QED
    BY <1>4, <2>1 DEF WriteFallback, OtherStep
<1>5. ASSUME NEW w \in Workers, WorkerStep(w) \/ \E x \in Envs : Write(w, x)
      PROVE  UNCHANGED fvars \/ OtherStep(e)
  BY <1>4, <1>5 DEF WorkerStep, WriteKafka, WriteKafkaError, WriteStoreUnhealthy,
                    WriteGauge, WriteRotate, Write, OtherStep
<1>6. CASE RecoveryPeekOn \/ RecoveryPeekNothing
  BY <1>2, <1>6 DEF RecoveryPeekOn, RecoveryPeekNothing, OtherStep
<1>7. CASE Tick \/ RecoveryStop \/ Probe \/ Replay \/ ReplayError \/ RecoveryStore
           \/ RecoveryGauge \/ DrainDeadline
  BY <1>1, <1>7 DEF Tick, RecoveryStop, Probe, Replay, ReplayError, RecoveryStore,
                    RecoveryGauge, DrainDeadline
<1>8. CASE ShutdownFallback \/ ProcessDies \/ NewManager \/ StartFails
  BY <1>2, <1>8 DEF ShutdownFallback, ProcessDies, NewManager, StartFails, OtherStep
<1>9. CASE Shutdown \/ ShutdownKafka \/ KafkaOutage \/ KafkaBack \/ Ended
  BY <1>1, <1>9 DEF Shutdown, ShutdownKafka, KafkaOutage, KafkaBack, Ended, vars
<1> QED
  BY <1>1, <1>2, <1>3, <1>5, <1>6, <1>7, <1>8, <1>9 DEF MNext, RecoveryStep

\* What NoSilentLoss says of one envelope.
Accounted(e) ==
  \/ delivered[e] > 0
  \/ InFlight(e)
  \/ Ahead(e)
  \/ e \in refused \union pruned \union replayFailed \union crashLost

\* The record being replayed is delivered, answered with an error, or, when the
\* process dies, still in its file.
LEMMA RecordKept ==
  ASSUME MInv, MNext, NEW e \in Envs, rec = e
  PROVE  Accounted(e)'
<1>0. /\ FTypeOK /\ Handles /\ MTypeOK
      /\ rpc \in {"replay", "drain"} /\ rec # NoEnv
  BY WorkersAssumption DEF MInv, FInv, InHand
<1>1. CASE rec' = rec
  BY <1>1 DEF Accounted, InFlight
<1>2. CASE Replay
  BY <1>0, <1>2 DEF Replay, KafkaTakes, Accounted, MTypeOK
<1>3. CASE ReplayError
  BY <1>3 DEF ReplayError, Accounted
<1>4. CASE ProcessDies
  <2>1. /\ peek # NoPeek /\ peek.pos > 0 /\ lines[peek.file][peek.pos] = e
        /\ peek.file \in Ts /\ peek.pos \in 0..Len(lines[peek.file])
    BY <1>0 DEF MInv, Recalled, Handles
  <2>2. peek.pos \in 1..Len(lines[peek.file])
    BY <1>0, <2>1 DEF FTypeOK
  <2>3. peek' = NoPeek /\ UNCHANGED <<kind, lines, pruned>> /\ None \notin Ts
    BY <1>4, BoundsAssumption DEF ProcessDies, Crash, disk, history, None, Ts
  <2>4. CASE kind[peek.file] = "absent"
    <3>1. e \in EnvsIn({peek.file})
      BY <2>1, <2>2 DEF EnvsIn
    <3> QED
      BY <2>1, <2>3, <2>4, <3>1 DEF MInv, Orphaned, Accounted
  <2>5. CASE kind[peek.file] # "absent"
    <3>1. Ahead(e)'
      BY <2>1, <2>2, <2>3, <2>5 DEF Ahead, NoPeek
    <3> QED
      BY <3>1 DEF Accounted
  <2> QED
    BY <2>4, <2>5
<1>5. rec' = rec \/ Replay \/ ReplayError \/ ProcessDies
  BY <1>0 DEF MNext, WorkerStep, RecoveryStep, KafkaOutage, KafkaBack, Write,
     WriteKafka, WriteKafkaError, WriteStoreUnhealthy, WriteGauge, WriteFallback,
     WriteRotate, Tick, RecoveryStop, RecoveryPeekOn, RecoveryPeekNothing,
     RecoveryPeekRecord, Probe, RecoveryStore, RecoveryGauge, DrainDeadline, Shutdown,
     ShutdownKafka, ShutdownFallback, NewManager, StartFails, Ended, vars, threads
<1> QED
  BY <1>1, <1>2, <1>3, <1>4, <1>5

\* A worker lets go of its envelope only once it is delivered, in a file, refused
\* by the file system, or lost with the process.
LEMMA EnvelopeKept ==
  ASSUME MInv, MNext, NEW v \in Workers, NEW e \in Envs, wenv[v] = e
  PROVE  Accounted(e)'
<1>0. /\ FTypeOK /\ Handles /\ MTypeOK /\ wpc[v] # "idle"
      /\ wenv \in [Workers -> Envs \union {NoEnv}]
  BY WorkersAssumption DEF MInv, FInv, InHand, MTypeOK
<1>1. CASE wenv'[v] = e
  BY <1>1 DEF Accounted, InFlight
<1>2. ASSUME NEW w \in Workers, NEW x \in Envs, Write(w, x)
      PROVE  wenv'[v] = e
  BY <1>0, <1>2 DEF Write
<1>3. ASSUME NEW w \in Workers, WReturn(w), w # v
      PROVE  wenv'[v] = e
  BY <1>0, <1>3 DEF WReturn
<1>4. CASE WriteKafka(v)
  BY <1>0, <1>4 DEF WriteKafka, KafkaTakes, Accounted, MTypeOK
<1>5. CASE WriteFallback(v)
  <2>1. WriteStep(e)
    BY <1>5 DEF WriteFallback
  <2>2. WriteAppend(e) => Ahead(e)'
    BY <1>0, AheadNew
  <2> QED
    BY <1>0, <2>1, <2>2, WriteLeaves DEF Accounted
<1>6. CASE WriteRotate(v)
  <2>1. Ahead(e) \/ e \in pruned
    BY <1>6 DEF WriteRotate, MInv, Rotating
  <2>2. OtherStep(e) /\ FStep
    BY <1>6 DEF WriteRotate, OtherStep, FStep
  <2> QED
    BY <1>0, <2>1, <2>2, AheadKept, HistoryGrows DEF Accounted
<1>7. ASSUME NEW w \in Workers, w # v, WriteKafka(w) \/ WriteFallback(w) \/ WriteRotate(w)
      PROVE  wenv'[v] = e
  BY <1>3, <1>7 DEF WriteKafka, WriteFallback, WriteRotate
<1>8. CASE ProcessDies
  <2>1. CASE wpc[v] = "rotate"
    <3>1. Ahead(e) \/ e \in pruned
      BY <2>1 DEF MInv, Rotating
    <3>2. OtherStep(e) /\ FStep
      BY <1>8 DEF ProcessDies, OtherStep, FStep
    <3> QED
      BY <1>0, <3>1, <3>2, AheadKept, HistoryGrows DEF Accounted
  <2>2. CASE wpc[v] # "rotate"
    BY <1>8, <2>2, WorkersAssumption DEF ProcessDies, Accounted
  <2> QED
    BY <2>1, <2>2
<1>9. \/ wenv' = wenv
      \/ \E w \in Workers : \/ WriteKafka(w) \/ WriteFallback(w) \/ WriteRotate(w)
                            \/ \E x \in Envs : Write(w, x)
      \/ ProcessDies
  BY DEF MNext, WorkerStep, RecoveryStep, KafkaOutage, KafkaBack, WriteKafkaError,
     WriteStoreUnhealthy, WriteGauge, Tick, RecoveryStop, RecoveryPeekOn,
     RecoveryPeekNothing, RecoveryPeekRecord, Probe, Replay, ReplayError,
     RecoveryStore, RecoveryGauge, DrainDeadline, Shutdown, ShutdownKafka,
     ShutdownFallback, NewManager, StartFails, Ended, vars, threads
<1> QED
  BY <1>1, <1>2, <1>4, <1>5, <1>6, <1>7, <1>8, <1>9

\* No step of the manager loses an envelope silently.
LEMMA LossStep ==
  ASSUME MInv, MNext
  PROVE  NoSilentLoss'
<1>1. ASSUME NEW e \in Envs, Accounted(e)
      PROVE  Accounted(e)'
  <2>1. CASE InFlight(e)
    BY <2>1, RecordKept, EnvelopeKept DEF InFlight
  <2>2. CASE Ahead(e)
    BY <2>2, AheadOrReplayed DEF Accounted, InFlight
  <2>3. CASE \/ delivered[e] > 0
             \/ e \in refused \union pruned \union replayFailed \union crashLost
    BY <2>3, Monotone DEF Accounted
  <2> QED
    BY <1>1, <2>1, <2>2, <2>3 DEF Accounted
<1>2. taken \subseteq Envs /\ \A e \in taken : Accounted(e)
  BY DEF MInv, MTypeOK, NoSilentLoss, Accounted
<1>3. \A e \in taken' : e \in taken \/ (e \in Envs /\ InFlight(e)')
  <2>1. ASSUME NEW w \in Workers, NEW x \in Envs, Write(w, x)
        PROVE  taken' = taken \union {x} /\ InFlight(x)'
    BY <2>1 DEF Write, MInv, MTypeOK, InFlight
  <2>2. taken' = taken \/ \E w \in Workers, x \in Envs : Write(w, x)
    BY DEF MNext, WorkerStep, RecoveryStep, KafkaOutage, KafkaBack, WriteKafka,
       WriteKafkaError, WriteStoreUnhealthy, WriteGauge, WriteFallback, WriteRotate,
       Tick, RecoveryStop, RecoveryPeekOn, RecoveryPeekNothing, RecoveryPeekRecord,
       Probe, Replay, ReplayError, RecoveryStore, RecoveryGauge, DrainDeadline,
       Shutdown, ShutdownKafka, ShutdownFallback, ProcessDies, NewManager,
       StartFails, Ended, vars, mhistory
  <2>3. ASSUME NEW e \in taken', e \notin taken
        PROVE  e \in Envs /\ InFlight(e)'
    <3>1. PICK w \in Workers, x \in Envs : Write(w, x)
      BY <2>2, <2>3
    <3>2. e = x
      BY <2>1, <2>3, <3>1
    <3> QED
      BY <2>1, <3>1, <3>2
  <2> QED
    BY <2>3
<1>4. \A e \in taken' : Accounted(e)'
  BY <1>1, <1>2, <1>3 DEF Accounted
<1> QED
  BY <1>4 DEF NoSilentLoss, Accounted

-----------------------------------------------------------------------------
(* The manager *)

\* MInv holds when the program starts.
LEMMA MInvInit == MInit => MInv
<1> SUFFICES ASSUME MInit PROVE MInv
  OBVIOUS
<1>1. FInv
  BY FInvInit DEF MInit
<1>2. MTypeOK
  BY <1>1, KafkaBounds DEF MInit, MTypeOK, FInv, RecoveryPC
<1>3. InHand /\ Stopped /\ Rotating /\ Orphaned /\ Recalled /\ NoSilentLoss
  BY DEF MInit, FInit, InHand, Stopped, Rotating, Orphaned, Recalled, NoSilentLoss
<1> QED
  BY <1>1, <1>2, <1>3 DEF MInv

\* MInv is kept by every step.
LEMMA MInvStep ==
  ASSUME MInv, MNext
  PROVE  MInv'
BY FilesInv, MTypeStep, ThreadsStep, RotatingStep, OrphanedStep, RecalledStep,
   LossStep DEF MInv

\* Only the variables matter.
LEMMA MInvStutter ==
  ASSUME MInv, UNCHANGED vars
  PROVE  MInv'
<1>2. FInv'
  BY FInvStutter DEF MInv, vars
<1>3. MTypeOK' /\ InHand' /\ Stopped'
  BY <1>2 DEF MInv, FInv, MTypeOK, InHand, Stopped, vars, fvars, mgr, threads, kafka,
              mhistory
<1>4. \A e : Ahead(e)' <=> Ahead(e)
  BY AheadSame DEF vars
<1>5. Rotating' /\ NoSilentLoss'
  BY <1>4 DEF MInv, Rotating, NoSilentLoss, InFlight, vars, fvars, memory, history,
              threads, kafka, mhistory
<1>6. Orphaned' /\ Recalled'
  BY DEF MInv, Orphaned, Recalled, EnvsIn, vars, fvars, disk, memory, history, threads
<1> QED
  BY <1>2, <1>3, <1>5, <1>6 DEF MInv

\* MInv holds throughout, over outages, timeouts, failing files and crashes.
THEOREM MInductive == MSpec => []MInv
<1>1. MInv /\ [MNext]_vars => MInv'
  BY MInvStep, MInvStutter
<1> QED
  BY <1>1, MInvInit, PTL DEF MSpec

\* Every variable keeps its type.
THEOREM MTypeCorrect == MSpec => []MTypeOK
<1>1. MInv => MTypeOK
  BY DEF MInv
<1> QED
  BY <1>1, MInductive, PTL

\* An envelope handed to Manager.Write is in Kafka, on its way there, in a file
\* ahead of the scanner, or its loss has one of the four causes the code logs or
\* accepts.
THEOREM NoneLostSilently == MSpec => []NoSilentLoss
<1>1. MInv => NoSilentLoss
  BY DEF MInv
<1> QED
  BY <1>1, MInductive, PTL

\* Nobody uses the Kafka writers or the files once Shutdown has closed them.
THEOREM LastOne == MSpec => []ClosedLast
<1>1. MInv => ClosedLast
  BY DEF MInv, Stopped, ClosedLast
<1> QED
  BY <1>1, MInductive, PTL

\* Inside the manager, too, what was written to a file is handed out or pruned
\* before it is gone.
THEOREM FilesInProcess ==
  MSpec => [](NothingStoredIsLost /\ NoStrandedLog /\ FilesGaugeExact)
<1>1. MInv => NothingStoredIsLost /\ NoStrandedLog /\ FilesGaugeExact
  BY GaugeFromFInv DEF MInv, FInv
<1> QED
  BY <1>1, MInductive, PTL

-----------------------------------------------------------------------------
(* Duplicates *)

\* Only a worker inside fallback.Write adds a line, and one at most.
LEMMA LinesOfManager ==
  ASSUME MInv, MNext
  PROVE  UNCHANGED lines \/ \E w \in Workers : WriteFallback(w)
BY DEF MNext, WorkerStep, RecoveryStep, KafkaOutage, KafkaBack, Write, WriteKafka,
   WriteKafkaError, WriteStoreUnhealthy, WriteGauge, WriteRotate, RotateStep,
   RotateRename, RotateFails, RotatePrune, RotatePruneFails, Tick, RecoveryStop,
   RecoveryPeekOn, RecoveryPeekNothing, RecoveryPeekRecord, PeekOpen, PeekSkip,
   PeekEOF, PeekEOFFails, PeekNothing, PeekScanError, PeekRecord, Probe, Replay,
   ReplayError, RecoveryStore, RecoveryGauge, DrainDeadline, Shutdown,
   ShutdownKafka, ShutdownFallback, Close, ProcessDies, Crash, NewManager,
   NewFallbackWriter, StartFails, NewFallbackWriterFails, Ended, vars, fvars, disk

\* The lines after a Write are the old ones and perhaps one more.
LEMMA LinesAfterWrite ==
  ASSUME FTypeOK, Handles, NEW e \in Envs, WriteStep(e)
  PROVE  \E u \in Ts \union {None} : \A t \in Ts : \A k \in 1..Len(lines'[t]) :
           \/ k \in 1..Len(lines[t]) /\ lines'[t][k] = lines[t][k]
           \/ t = u /\ k = Len(lines[u]) + 1 /\ lines'[t][k] \in {Garbage, e}
<1>0. \A t \in Ts : Len(lines[t]) \in Nat
  BY DEF FTypeOK
<1>1. CASE UNCHANGED lines
  BY <1>1
<1>2. ASSUME Target \in Ts, NEW x \in {Garbage, e}, AppendTo(Target, <<x>>),
             \A t \in Ts : t # Target => lines'[t] = lines[t]
      PROVE  \A t \in Ts : \A k \in 1..Len(lines'[t]) :
               \/ k \in 1..Len(lines[t]) /\ lines'[t][k] = lines[t][k]
               \/ t = Target /\ k = Len(lines[Target]) + 1 /\ lines'[t][k] \in {Garbage, e}
  <2>1. /\ Len(lines'[Target]) = Len(lines[Target]) + 1
        /\ lines'[Target][Len(lines[Target]) + 1] = x
    BY <1>2, AppendedLine DEF Line
  <2>2. \A k \in 1..Len(lines[Target]) : lines'[Target][k] = lines[Target][k]
    BY <1>2, LinesStay DEF FStep
  <2>3. ASSUME NEW k \in 1..Len(lines'[Target])
        PROVE  k \in 1..Len(lines[Target]) \/ k = Len(lines[Target]) + 1
    BY <1>0, <1>2, <2>1
  <2> QED
    BY <1>2, <2>1, <2>2, <2>3
<1> QED
  BY <1>1, <1>2, OneMoreLine

\* An envelope stays in one place: it goes from the worker to one line, and no
\* worker takes it again.
LEMMA OnceStep ==
  ASSUME MInv, Once, MNext
  PROVE  Once'
<1>0. /\ MTypeOK /\ FTypeOK /\ Handles /\ InHand
      /\ \A t \in Ts : \A k \in 1..Len(lines[t]) : lines[t][k] \in Envs \union {Garbage}
  BY DEF MInv, FInv, FTypeOK
<1>1. taken \subseteq taken'
  BY DEF MNext, WorkerStep, RecoveryStep, KafkaOutage, KafkaBack, Write, WriteKafka,
     WriteKafkaError, WriteStoreUnhealthy, WriteGauge, WriteFallback, WriteRotate,
     Tick, RecoveryStop, RecoveryPeekOn, RecoveryPeekNothing, RecoveryPeekRecord,
     Probe, Replay, ReplayError, RecoveryStore, RecoveryGauge, DrainDeadline,
     Shutdown, ShutdownKafka, ShutdownFallback, ProcessDies, NewManager, StartFails,
     Ended, vars, mhistory
<1>2. \A e \in Envs \ taken' : delivered'[e] = 0
  <2>1. ASSUME NEW x \in taken, KafkaTakes(x) \/ KafkaFails(x)
        PROVE  \A e \in Envs \ taken : delivered'[e] = delivered[e]
    BY <1>0, <2>1 DEF KafkaTakes, KafkaFails, kafka, MTypeOK
  <2>2. ASSUME NEW w \in Workers, WriteKafka(w) \/ WriteKafkaError(w)
        PROVE  wenv[w] \in taken
    BY <1>0, <2>2 DEF WriteKafka, WriteKafkaError, Once, InHand
  <2>3. Replay \/ ReplayError => rec \in taken
    <3> HAVE Replay \/ ReplayError
    <3>1. rec # NoEnv /\ rec \in Envs
      BY <1>0 DEF Replay, ReplayError, InHand, MTypeOK
    <3>2. /\ peek.file \in Ts /\ peek.pos > 0 /\ peek.pos \in 0..Len(lines[peek.file])
          /\ lines[peek.file][peek.pos] = rec
      BY <1>0, <3>1 DEF MInv, Recalled, Handles
    <3>3. peek.pos \in 1..Len(lines[peek.file])
      BY <1>0, <3>2 DEF FTypeOK
    <3> QED
      BY <3>1, <3>2, <3>3, EnvsAssumption DEF Once
  <2>4. \/ UNCHANGED delivered
        \/ \E w \in Workers : /\ WriteKafka(w) \/ WriteKafkaError(w)
                              /\ KafkaTakes(wenv[w]) \/ KafkaFails(wenv[w])
        \/ (Replay \/ ReplayError) /\ (KafkaTakes(rec) \/ KafkaFails(rec))
    BY DEF MNext, WorkerStep, RecoveryStep, KafkaOutage, KafkaBack, Write, WriteKafka,
       WriteKafkaError, WriteStoreUnhealthy, WriteGauge, WriteFallback, WriteRotate,
       Tick, RecoveryStop, RecoveryPeekOn, RecoveryPeekNothing, RecoveryPeekRecord,
       Probe, Replay, ReplayError, RecoveryStore, RecoveryGauge, DrainDeadline,
       Shutdown, ShutdownKafka, ShutdownFallback, ProcessDies, NewManager, StartFails,
       Ended, vars, kafka
  <2>5. \A e \in Envs \ taken : delivered'[e] = delivered[e]
    BY <2>1, <2>2, <2>3, <2>4
  <2> QED
    BY <1>1, <2>5 DEF Once
\* Steps that add no line: what a worker holds it held before, in a state in which
\* it has not written it, or it takes an envelope nobody has seen.
<1>3. ASSUME UNCHANGED lines,
             \A w \in Workers : wenv'[w] = NoEnv \/
               (wenv'[w] = wenv[w] /\ (wpc[w] = "rotate" => wpc'[w] = "rotate"))
      PROVE  Once'
  <2>1. \A t \in Ts : \A k \in 1..Len(lines[t]) : lines[t][k] # NoEnv
    BY <1>0, WorkersAssumption
  <2> QED
    BY <1>1, <1>2, <1>3, <2>1 DEF Once
<1>4. ASSUME NEW w \in Workers, NEW e \in Envs, Write(w, e)
      PROVE  Once'
  <2>1. /\ UNCHANGED lines /\ e \notin taken /\ taken' = taken \union {e}
        /\ wenv' = [wenv EXCEPT ![w] = e] /\ wpc[w] = "idle"
        /\ \A v \in Workers : v # w => wpc'[v] = wpc[v]
    BY <1>0, <1>4 DEF Write, WGoto, MTypeOK, fvars, disk
  <2>2. wenv'[w] = e /\ \A v \in Workers : v # w => wenv'[v] = wenv[v] /\ wenv[v] # e
    BY <1>0, <2>1, WorkersAssumption DEF MTypeOK, Once
  <2>3. \A t \in Ts : \A k \in 1..Len(lines[t]) : lines[t][k] # e
    BY <2>1, EnvsAssumption DEF Once
  <2> QED
    BY <1>2, <2>1, <2>2, <2>3 DEF Once
<1>5. ASSUME NEW w \in Workers, WriteFallback(w)
      PROVE  Once'
  <2>1. PICK e \in Envs : e = wenv[w] /\ WriteStep(e)
    BY <1>0, <1>5 DEF WriteFallback, InHand, MTypeOK
  <2>2. /\ e \in taken /\ taken' = taken
        /\ \A t \in Ts : \A k \in 1..Len(lines[t]) : lines[t][k] # e
    BY <1>5, <2>1, WorkersAssumption DEF WriteFallback, Once, mhistory
  <2>3. PICK u \in Ts \union {None} : \A t \in Ts : \A k \in 1..Len(lines'[t]) :
          \/ k \in 1..Len(lines[t]) /\ lines'[t][k] = lines[t][k]
          \/ t = u /\ k = Len(lines[u]) + 1 /\ lines'[t][k] \in {Garbage, e}
    BY <1>0, <2>1, LinesAfterWrite
  <2>4. \A v \in Workers : v # w => wenv'[v] = wenv[v] /\ wpc'[v] = wpc[v] /\ wenv[v] # e
    <3>1. \A v \in Workers : v # w => wenv[v] # e
      BY <2>1, WorkersAssumption DEF Once
    <3>2. \A v \in Workers : v # w => wenv'[v] = wenv[v] /\ wpc'[v] = wpc[v]
      BY <1>0, <1>5 DEF WriteFallback, WReturn, WGoto, MTypeOK
    <3> QED
      BY <3>1, <3>2
  <2>5. wenv'[w] = NoEnv \/ (wenv'[w] = e /\ wpc'[w] = "rotate")
    BY <1>0, <1>5, <2>1 DEF WriteFallback, WReturn, WGoto, MTypeOK
  <2>6. ASSUME NEW t \in Ts, NEW k \in 1..Len(lines'[t])
        PROVE  /\ lines'[t][k] \in taken \union {Garbage}
               /\ lines'[t][k] # NoEnv
               /\ \A v \in Workers : lines'[t][k] = wenv'[v] => wpc'[v] = "rotate"
    <3>1. CASE k \in 1..Len(lines[t]) /\ lines'[t][k] = lines[t][k]
      <4>1. /\ lines[t][k] \in taken \union {Garbage} /\ lines[t][k] # NoEnv
            /\ lines[t][k] # e
            /\ \A v \in Workers : lines[t][k] = wenv[v] => wpc[v] = "rotate"
        BY <1>0, <2>2, <3>1, WorkersAssumption DEF Once
      <4> QED
        BY <2>4, <2>5, <3>1, <4>1
    <3>2. CASE lines'[t][k] \in {Garbage, e}
      <4>1. Garbage # NoEnv /\ e # NoEnv /\ \A v \in Workers : wenv[v] # Garbage
        BY <1>0, WorkersAssumption, EnvsAssumption DEF MTypeOK
      <4> QED
        BY <2>2, <2>4, <2>5, <3>2, <4>1, EnvsAssumption
    <3> QED
      BY <2>3, <2>6, <3>1, <3>2
  <2>7. ASSUME NEW t \in Ts, NEW s \in Ts, NEW k \in 1..Len(lines'[t]),
               NEW l \in 1..Len(lines'[s]),
               lines'[t][k] = lines'[s][l], lines'[t][k] # Garbage
        PROVE  t = s /\ k = l
    <3>1. CASE lines'[t][k] = e
      <4>1. t = u /\ k = Len(lines[u]) + 1
        BY <2>2, <2>3, <2>7, <3>1
      <4>2. s = u /\ l = Len(lines[u]) + 1
        BY <2>2, <2>3, <2>7, <3>1
      <4> QED
        BY <4>1, <4>2
    <3>2. CASE lines'[t][k] # e
      <4>1. k \in 1..Len(lines[t]) /\ lines'[t][k] = lines[t][k]
        BY <2>3, <2>7, <3>2
      <4>2. l \in 1..Len(lines[s]) /\ lines'[s][l] = lines[s][l]
        BY <2>3, <2>7, <3>2
      <4>3. \A k1 \in 1..Len(lines[t]), l1 \in 1..Len(lines[s]) :
              lines[t][k1] = lines[s][l1] /\ lines[t][k1] # Garbage => t = s /\ k1 = l1
        BY DEF Once
      <4> QED
        BY <2>7, <4>1, <4>2, <4>3
    <3> QED
      BY <3>1, <3>2
  <2>8. \A v \in Workers : wenv'[v] \in taken \union {NoEnv}
    BY <2>2, <2>4, <2>5 DEF Once
  <2>9. \A v, x \in Workers : wenv'[v] = wenv'[x] /\ wenv'[v] # NoEnv => v = x
    BY <2>1, <2>4, <2>5 DEF Once
  <2> QED
    BY <1>2, <2>2, <2>6, <2>7, <2>8, <2>9 DEF Once
<1>6. ASSUME NEW w \in Workers, WriteKafka(w) \/ WriteRotate(w), UNCHANGED lines
      PROVE  Once'
  <2>1. \A v \in Workers : wenv'[v] = NoEnv \/
               (wenv'[v] = wenv[v] /\ (wpc[v] = "rotate" => wpc'[v] = "rotate"))
    BY <1>0, <1>6 DEF WriteKafka, WriteRotate, WReturn, WGoto, MTypeOK
  <2> QED
    BY <1>3, <1>6, <2>1
<1>7. ASSUME NEW w \in Workers, UNCHANGED lines,
             WriteKafkaError(w) \/ WriteStoreUnhealthy(w) \/ WriteGauge(w)
      PROVE  Once'
  <2>1. \A v \in Workers : wenv'[v] = wenv[v] /\ (wpc[v] = "rotate" => wpc'[v] = "rotate")
    BY <1>0, <1>7 DEF WriteKafkaError, WriteStoreUnhealthy, WriteGauge, WGoto, MTypeOK
  <2> QED
    BY <1>3, <1>7, <2>1
<1>8. ASSUME UNCHANGED lines,
             \/ UNCHANGED <<wpc, wenv>>
             \/ ProcessDies
      PROVE  Once'
  BY <1>3, <1>8 DEF ProcessDies
<1>9. \/ UNCHANGED <<wpc, wenv>> \/ ProcessDies
      \/ \E w \in Workers : WorkerStep(w) \/ \E e \in Envs : Write(w, e)
  BY DEF MNext, RecoveryStep, KafkaOutage, KafkaBack, Tick, RecoveryStop,
     RecoveryPeekOn, RecoveryPeekNothing, RecoveryPeekRecord, Probe, Replay,
     ReplayError, RecoveryStore, RecoveryGauge, DrainDeadline, Shutdown, ShutdownKafka,
     ShutdownFallback, NewManager, StartFails, Ended, vars, threads
<1> QED
  BY <1>4, <1>5, <1>6, <1>7, <1>8, <1>9, LinesOfManager DEF WorkerStep


\* The sum after a step, in values the provers can do arithmetic on.
LEMMA SpentPrimed ==
  \A r, t, f : r = restarts' /\ t = timeouts' /\ f = faults' => Spent' = r + t + f
BY DEF Spent

\* What pays for duplicates only grows.
LEMMA SpentGrows ==
  ASSUME MInv, MNext
  PROVE  /\ Spent \in Nat /\ Spent' \in Nat /\ Spent <= Spent'
         /\ restarts' > restarts \/ timeouts' > timeouts \/ faults' > faults =>
              Spent' > Spent
<1>0. MTypeOK /\ FTypeOK /\ InHand /\ FInv
  BY DEF MInv, FInv, MTypeOK
<1>1. MTypeOK' /\ FTypeOK'
  BY <1>0, MTypeStep DEF MTypeOK
<1>2. /\ restarts \in Nat /\ timeouts \in Nat /\ faults \in Nat
      /\ restarts' \in Nat /\ timeouts' \in Nat /\ faults' \in Nat
  BY <1>0, <1>1, BoundsAssumption, KafkaBounds DEF MTypeOK, FTypeOK
<1>3. timeouts <= timeouts'
  <2>1. UNCHANGED timeouts \/ \E e : KafkaTakes(e) \/ KafkaFails(e)
    BY DEF MNext, WorkerStep, RecoveryStep, KafkaOutage, KafkaBack, Write, WriteKafka,
       WriteKafkaError, WriteStoreUnhealthy, WriteGauge, WriteFallback, WriteRotate,
       Tick, RecoveryStop, RecoveryPeekOn, RecoveryPeekNothing, RecoveryPeekRecord,
       Probe, Replay, ReplayError, RecoveryStore, RecoveryGauge, DrainDeadline,
       Shutdown, ShutdownKafka, ShutdownFallback, ProcessDies, NewManager, StartFails,
       Ended, vars, kafka
  <2> QED
    BY <1>2, <2>1 DEF KafkaTakes, KafkaFails, kafka
<1>4. restarts <= restarts' /\ faults <= faults'
  <2>1. UNCHANGED fvars => restarts' = restarts /\ faults' = faults
    BY DEF fvars
  <2>2. FStep =>
          restarts' \in {restarts, restarts + 1} /\ faults' \in {faults, faults + 1}
    <3>1. ASSUME NEW e \in Envs, WriteStep(e)
          PROVE  restarts' = restarts /\ faults' \in {faults, faults + 1}
      BY <3>1 DEF WriteStep, WriteAppend, WriteOpenFails, WriteFails, Fault
    <3>2. RotateStep => restarts' = restarts /\ faults' \in {faults, faults + 1}
      BY DEF RotateStep, RotateRename, RotateFails, RotatePrune, RotatePruneFails, Fault
    <3>3. PeekStep => restarts' = restarts /\ faults' \in {faults, faults + 1}
      BY DEF PeekStep, PeekOpen, PeekNothing, PeekSkip, PeekScanError, PeekEOF,
         PeekEOFFails, PeekRecord, Fault
    <3>4. Close \/ Crash => restarts' = restarts /\ faults' \in {faults, faults + 1}
      BY DEF Close, Crash, Fault
    <3>5. NewFallbackWriter \/ NewFallbackWriterFails =>
            restarts' = restarts + 1 /\ faults' \in {faults, faults + 1}
      BY DEF NewFallbackWriter, NewFallbackWriterFails, Fault
    <3> QED
      BY <3>1, <3>2, <3>3, <3>4, <3>5 DEF FStep
  <2> QED
    BY <1>0, <1>2, <2>1, <2>2, FilesStep
<1>5. PICK r \in Nat : r = restarts'
  BY <1>2
<1>6. PICK t \in Nat : t = timeouts'
  BY <1>2
<1>7. PICK f \in Nat : f = faults'
  BY <1>2
<1>8. Spent' = r + t + f
  BY <1>5, <1>6, <1>7, SpentPrimed
<1>9. /\ r + t + f \in Nat /\ restarts + timeouts + faults \in Nat
      /\ restarts + timeouts + faults <= r + t + f
      /\ r > restarts \/ t > timeouts \/ f > faults =>
           r + t + f > restarts + timeouts + faults
  <2>1. restarts <= r /\ timeouts <= t /\ faults <= f
    BY <1>3, <1>4, <1>5, <1>6, <1>7
  <2> QED
    BY <1>2, <2>1
<1>10. /\ Spent \in Nat /\ Spent' \in Nat /\ Spent <= Spent'
       /\ r > restarts \/ t > timeouts \/ f > faults => Spent' > Spent
  BY <1>8, <1>9, Zenon DEF Spent
<1> QED
  BY <1>5, <1>6, <1>7, <1>10, Zenon

\* A Write brings no other envelope than its own in front of the scanner.
LEMMA ReadableAfterWrite ==
  ASSUME FTypeOK, Handles, NEW x \in Envs, WriteStep(x), NEW e \in Envs, Readable(e)'
  PROVE  phase = "up" /\ (Readable(e) \/ e = x)
<1>0. e # Garbage /\ \A t \in Ts : Len(lines[t]) \in Nat
  BY EnvsAssumption DEF FTypeOK
<1>1. PICK t \in Ts : /\ kind'[t] # "absent" \/ peek'.file = t
                      /\ \E k \in 1..Len(lines'[t]) :
                           lines'[t][k] = e /\ (peek'.file = t => k > peek'.pos)
  BY DEF Readable
<1>2. PICK k \in 1..Len(lines'[t]) : lines'[t][k] = e /\ (peek'.file = t => k > peek'.pos)
  BY <1>1
<1>3. phase = "up" /\ UNCHANGED peek
  BY WriteCases
<1>4. PICK u \in Ts \union {None} : \A s \in Ts : \A l \in 1..Len(lines'[s]) :
        \/ l \in 1..Len(lines[s]) /\ lines'[s][l] = lines[s][l]
        \/ s = u /\ l = Len(lines[u]) + 1 /\ lines'[s][l] \in {Garbage, x}
  BY LinesAfterWrite
<1>5. CASE lines'[t][k] \in {Garbage, x}
  BY <1>0, <1>2, <1>3, <1>5
<1>6. CASE k \in 1..Len(lines[t]) /\ lines'[t][k] = lines[t][k]
  <2>1. lines[t] # <<>>
    BY <1>0, <1>6
  <2>2. kind[t] # "absent" \/ kind'[t] = kind[t]
    <3>1. CASE UNCHANGED kind
      BY <3>1
    <3>2. CASE kind' = [kind EXCEPT ![Target] = "log"] /\ Target \in Ts
      <4>1. Target = nextTs => lines[Target] = <<>>
        BY <3>2, BoundsAssumption DEF Handles, FTypeOK
      <4>2. Target # nextTs => kind[Target] = "log"
        BY DEF Target, Handles
      <4> QED
        BY <2>1, <3>2, <4>1, <4>2 DEF FTypeOK
    <3> QED
      BY <3>1, <3>2, WriteCases, TargetIsFile DEF AppendTo, WriteAppend, disk
  <2>3. kind[t] # "absent" \/ peek.file = t
    BY <1>1, <1>3, <2>2
  <2> QED
    BY <1>2, <1>3, <1>6, <2>3 DEF Readable
<1> QED
  BY <1>4, <1>5, <1>6

\* With no line too long for the scanner, nothing else does, unless the process
\* restarts or an operation fails.
LEMMA ReadableFrom ==
  ASSUME FTypeOK, Handles, Huge = {}, phase' = "up",
         \/ RotateStep \/ PeekStep
         \/ Close \/ Crash \/ NewFallbackWriter \/ NewFallbackWriterFails,
         NEW e \in Envs, Readable(e)'
  PROVE  \/ Readable(e) /\ phase = "up"
         \/ restarts' > restarts
         \/ faults' > faults
<1>0. /\ \A t \in Ts : Len(lines[t]) \in Nat /\ t # None
      /\ peek.pos \in Nat /\ restarts \in Nat /\ faults \in Nat
  BY BoundsAssumption DEF FTypeOK, Ts, None
<1>1. PICK t \in Ts : /\ kind'[t] # "absent" \/ peek'.file = t
                      /\ \E k \in 1..Len(lines'[t]) :
                           lines'[t][k] = e /\ (peek'.file = t => k > peek'.pos)
  BY DEF Readable
<1>2. PICK k \in 1..Len(lines'[t]) : lines'[t][k] = e /\ (peek'.file = t => k > peek'.pos)
  BY <1>1
<1>3. ASSUME UNCHANGED lines,
             kind[t] # "absent" \/ peek.file = t,
             peek.file = t => k > peek.pos
      PROVE  Readable(e)
  BY <1>2, <1>3 DEF Readable
<1>4. CASE RotateStep
  <2>1. UNCHANGED <<lines, peek, phase>>
    BY <1>4 DEF RotateStep, RotateRename, RotateFails, RotatePrune, RotatePruneFails,
                disk
  <2>2. kind'[t] # "absent" => kind[t] # "absent"
    <3>1. CASE RotateRename
      BY <3>1 DEF RotateRename, Handles, FTypeOK
    <3>2. CASE RotateFails
      BY <3>2 DEF RotateFails, disk
    <3>3. CASE RotatePrune
      BY <3>3 DEF RotatePrune
    <3>4. CASE RotatePruneFails
      BY <3>4 DEF RotatePruneFails
    <3> QED
      BY <1>4, <3>1, <3>2, <3>3, <3>4 DEF RotateStep
  <2> QED
    BY <1>1, <1>2, <1>3, <2>1, <2>2
<1>5. CASE PeekStep
  <2>1. UNCHANGED <<lines, phase>>
    BY <1>5 DEF PeekStep, PeekOpen, PeekNothing, PeekSkip, PeekScanError, PeekEOF,
                PeekEOFFails, PeekRecord, disk
  <2>2. CASE PeekOpen
    <3>1. peek.file # t /\ UNCHANGED kind
      BY <1>0, <2>2 DEF PeekOpen, NoPeek, disk
    <3>2. kind[t] # "absent"
      <4>1. CASE kind'[t] # "absent"
        BY <3>1, <4>1
      <4>2. CASE peek'.file = t
        <5>1. Done \in SUBSET Ts /\ Done # {} /\ t = Oldest(Done)
          BY <2>2, <4>2 DEF PeekOpen, Done
        <5>2. t \in Done
          BY <5>1, OldestIsFirst
        <5> QED
          BY <5>2 DEF Done
      <4> QED
        BY <1>1, <4>1, <4>2
    <3> QED
      BY <1>3, <2>1, <3>1, <3>2
  <2>3. CASE PeekNothing
    BY <1>1, <1>2, <1>3, <2>1, <2>3 DEF PeekNothing, disk
  <2>4. CASE PeekSkip \/ \E x \in Envs : PeekRecord(x)
    <3>1. UNCHANGED kind /\ peek' = [peek EXCEPT !.pos = @ + 1]
      BY <2>4 DEF PeekSkip, PeekRecord, disk
    <3>2. peek'.file = peek.file /\ peek'.pos = peek.pos + 1
      BY <3>1 DEF FTypeOK
    <3> QED
      BY <1>0, <1>1, <1>2, <1>3, <2>1, <3>1, <3>2
  <2>5. CASE PeekScanError
    BY <1>0, <2>5 DEF PeekScanError, Fault
  <2>6. CASE PeekEOF
    <3>1. peek'.file # t /\ kind' = [kind EXCEPT ![peek.file] = "absent"]
      BY <1>0, <2>6 DEF PeekEOF, NoPeek
    <3>2. kind[t] # "absent" /\ peek.file # t
      BY <1>1, <3>1 DEF FTypeOK
    <3> QED
      BY <1>3, <2>1, <3>2
  <2>7. CASE PeekEOFFails
    BY <1>0, <2>7 DEF PeekEOFFails, Fault
  <2> QED
    BY <1>5, <2>1, <2>2, <2>3, <2>4, <2>5, <2>6, <2>7 DEF PeekStep, Peeking,
       PeekOpen, PeekNothing, PeekSkip, PeekRecord, PeekEOF
<1>6. CASE Close \/ Crash \/ NewFallbackWriter \/ NewFallbackWriterFails
  BY <1>0, <1>6 DEF Close, Crash, NewFallbackWriter, NewFallbackWriterFails
<1>7. RotateStep \/ PeekStep => phase = "up"
  BY DEF RotateStep, RotateRename, RotateFails, RotatePrune, RotatePruneFails,
     PeekStep, PeekOpen, PeekNothing, PeekSkip, PeekScanError, PeekEOF,
     PeekEOFFails, PeekRecord, Peeking
<1> QED
  BY <1>4, <1>5, <1>6, <1>7

\* Where an envelope that may still reach Kafka comes from: it could before, it is
\* new, or a restart or an I/O error explains it.
LEMMA PendingFrom ==
  ASSUME MInv, Huge = {}, MNext, phase' = "up", NEW e \in Envs, Pending(e)'
  PROVE  \/ phase = "up" /\ Pending(e)
         \/ Spent' > Spent
         \/ e \notin taken
<1>0. /\ MTypeOK /\ FTypeOK /\ Handles /\ InHand /\ Stopped
      /\ e # NoEnv
  BY WorkersAssumption DEF MInv, FInv, MTypeOK
<1>1. restarts' > restarts \/ faults' > faults => Spent' > Spent
  BY SpentGrows
<1>2. (\E w \in Workers : wpc[w] # "idle") \/ rec # NoEnv => phase = "up"
  BY <1>0 DEF Stopped, InHand
<1>3. CASE rec' = e
  <2>1. CASE UNCHANGED rec
    BY <1>0, <1>2, <1>3, <2>1 DEF Pending
  <2>2. CASE RecoveryPeekRecord(e)
    <3>1. /\ phase = "up" /\ peek # NoPeek /\ peek.pos < Len(lines[peek.file])
          /\ lines[peek.file][peek.pos + 1] = e
      BY <2>2 DEF RecoveryPeekRecord, PeekRecord, Peeking, HasLine, NextLine
    <3>2. peek.file \in Ts /\ peek.pos \in Nat /\ Len(lines[peek.file]) \in Nat
      BY <1>0, <3>1 DEF Handles, FTypeOK
    <3>3. peek.pos + 1 \in 1..Len(lines[peek.file]) /\ peek.pos + 1 > peek.pos
      BY <3>1, <3>2
    <3>4. Readable(e)
      BY <3>1, <3>2, <3>3 DEF Readable
    <3> QED
      BY <3>1, <3>4 DEF Pending
  <2>3. UNCHANGED rec \/ rec' = NoEnv \/ \E x \in Envs : RecoveryPeekRecord(x) /\ rec' = x
    BY DEF MNext, WorkerStep, RecoveryStep, KafkaOutage, KafkaBack, Write, WriteKafka,
       WriteKafkaError, WriteStoreUnhealthy, WriteGauge, WriteFallback, WriteRotate,
       Tick, RecoveryStop, RecoveryPeekOn, RecoveryPeekNothing, RecoveryPeekRecord,
       Probe, Replay, ReplayError, RecoveryStore, RecoveryGauge, DrainDeadline,
       Shutdown, ShutdownKafka, ShutdownFallback, ProcessDies, NewManager, StartFails,
       Ended, vars, threads
  <2> QED
    BY <1>0, <1>3, <2>1, <2>2, <2>3
<1>4. ASSUME NEW w \in Workers, wenv'[w] = e, wpc'[w] # "rotate"
      PROVE  (phase = "up" /\ Pending(e)) \/ e \notin taken
  <2>1. ASSUME wenv[w] = e, wpc[w] # "rotate"
        PROVE  phase = "up" /\ Pending(e)
    BY <1>0, <1>2, <2>1 DEF Pending, InHand
  <2>2. CASE UNCHANGED <<wpc, wenv>>
    BY <1>4, <2>1, <2>2
  <2>3. CASE ProcessDies
    BY <1>0, <1>4, <2>3 DEF ProcessDies
  <2>4. ASSUME NEW v \in Workers, NEW x \in Envs, Write(v, x)
        PROVE  (phase = "up" /\ Pending(e)) \/ e \notin taken
    <3>1. CASE v = w
      BY <1>0, <1>4, <2>4, <3>1 DEF Write, MTypeOK
    <3>2. CASE v # w
      BY <1>0, <1>4, <2>1, <2>4, <3>2 DEF Write, WGoto, MTypeOK
    <3> QED
      BY <3>1, <3>2
  <2>5. ASSUME NEW v \in Workers, WorkerStep(v)
        PROVE  wenv[w] = e /\ wpc[w] # "rotate"
    <3>1. CASE v # w
      BY <1>0, <1>4, <2>5, <3>1 DEF WorkerStep, WriteKafka, WriteKafkaError,
         WriteStoreUnhealthy, WriteGauge, WriteFallback, WriteRotate, WReturn, WGoto,
         MTypeOK
    <3>2. CASE v = w
      BY <1>0, <1>4, <2>5, <3>2 DEF WorkerStep, WriteKafka, WriteKafkaError,
         WriteStoreUnhealthy, WriteGauge, WriteFallback, WriteRotate, WReturn, WGoto,
         MTypeOK
    <3> QED
      BY <3>1, <3>2
  <2>6. \/ UNCHANGED <<wpc, wenv>> \/ ProcessDies
        \/ \E v \in Workers : WorkerStep(v) \/ \E x \in Envs : Write(v, x)
    BY DEF MNext, RecoveryStep, KafkaOutage, KafkaBack, Tick, RecoveryStop,
       RecoveryPeekOn, RecoveryPeekNothing, RecoveryPeekRecord, Probe, Replay,
       ReplayError, RecoveryStore, RecoveryGauge, DrainDeadline, Shutdown,
       ShutdownKafka, ShutdownFallback, NewManager, StartFails, Ended, vars, threads
  <2> QED
    BY <2>1, <2>2, <2>3, <2>4, <2>5, <2>6
<1>5. CASE Readable(e)'
  <2>1. CASE UNCHANGED fvars
    BY <1>5, <2>1 DEF fvars, disk, memory, Readable, Pending
  <2>2. ASSUME NEW w \in Workers, WriteFallback(w)
        PROVE  phase = "up" /\ Pending(e)
    <3>1. wenv[w] \in Envs /\ wpc[w] = "fallback" /\ WriteStep(wenv[w])
      BY <1>0, <2>2 DEF WriteFallback, InHand, MTypeOK
    <3>2. phase = "up" /\ (Readable(e) \/ e = wenv[w])
      BY <1>0, <1>5, <3>1, ReadableAfterWrite
    <3> QED
      BY <3>1, <3>2 DEF Pending
  <2>3. CASE \/ RotateStep \/ PeekStep
             \/ Close \/ Crash \/ NewFallbackWriter \/ NewFallbackWriterFails
    BY <1>0, <1>1, <1>5, <2>3, ReadableFrom DEF Pending
  <2> QED
    BY <2>1, <2>2, <2>3, FileOperations
<1> QED
  BY <1>3, <1>4, <1>5 DEF Pending

\* What Kafka has just taken is nowhere else: with no worker that may still send it,
\* and on no line ahead of the scanner.
LEMMA TakenIsDone ==
  ASSUME MInv, Once, MNext, NEW e \in Envs,
         \/ rec = e /\ Replay
         \/ \E w \in Workers : wenv[w] = e /\ WriteKafka(w)
  PROVE  ~Pending(e)'
<1>0. MTypeOK /\ FTypeOK /\ Handles /\ InHand /\ Recalled /\ e # NoEnv /\ e # Garbage
  BY WorkersAssumption, EnvsAssumption DEF MInv, FInv, MTypeOK
<1>1. rec # NoEnv => /\ peek.file \in Ts /\ peek.pos \in 1..Len(lines[peek.file])
                     /\ lines[peek.file][peek.pos] = rec /\ peek.pos \in Nat
  <2> HAVE rec # NoEnv
  <2>1. /\ peek.file \in Ts /\ peek.pos > 0 /\ peek.pos \in 0..Len(lines[peek.file])
        /\ lines[peek.file][peek.pos] = rec
    BY <1>0 DEF Recalled, Handles
  <2>2. Len(lines[peek.file]) \in Nat
    BY <1>0, <2>1 DEF FTypeOK
  <2> QED
    BY <2>1, <2>2
<1>2. CASE rec = e /\ Replay
  <2>1. /\ rec' = NoEnv
        /\ UNCHANGED <<wpc, wenv, kind, lines, peek>>
    BY <1>2 DEF Replay, fvars, disk, memory
  <2>2. \A w \in Workers : wenv[w] = e => wpc[w] = "rotate"
    BY <1>0, <1>1, <1>2 DEF Once
  <2>3. ASSUME NEW t \in Ts, NEW k \in 1..Len(lines[t]), lines[t][k] = e
        PROVE  t = peek.file /\ k = peek.pos
    BY <1>0, <1>1, <1>2, <2>3 DEF Once
  <2>4. ~Readable(e)
    <3> SUFFICES ASSUME NEW t \in Ts, NEW k \in 1..Len(lines[t]),
                        lines[t][k] = e, peek.file = t => k > peek.pos
                 PROVE  FALSE
      BY DEF Readable
    <3>1. t = peek.file /\ k = peek.pos
      BY <2>3
    <3> QED
      BY <1>0, <1>1, <1>2, <3>1
  <2>5. ~Readable(e)'
    BY <2>1, <2>4 DEF Readable
  <2> QED
    BY <1>0, <2>1, <2>2, <2>5 DEF Pending
<1>3. ASSUME NEW w \in Workers, wenv[w] = e, WriteKafka(w)
      PROVE  ~Pending(e)'
  <2>1. /\ wpc[w] = "kafka"
        /\ wenv' = [wenv EXCEPT ![w] = NoEnv]
        /\ UNCHANGED <<rec, kind, lines, peek>>
    BY <1>3 DEF WriteKafka, WReturn, fvars, disk, memory
  <2>2. \A t \in Ts : \A k \in 1..Len(lines[t]) : lines[t][k] # e
    BY <1>3, <2>1 DEF Once
  <2>3. rec # e
    BY <1>0, <1>1, <2>2
  <2>4. \A v \in Workers : wenv'[v] # e
    BY <1>0, <1>3, <2>1 DEF Once, MTypeOK
  <2>5. ~Readable(e)'
    BY <2>1, <2>2 DEF Readable
  <2> QED
    BY <2>1, <2>3, <2>4, <2>5 DEF Pending
<1> QED
  BY <1>2, <1>3

\* What reaches Kafka was pending before.
LEMMA TakenWasPending ==
  ASSUME MInv, MNext
  PROVE  \/ UNCHANGED delivered
         \/ \E e \in Envs :
              /\ phase = "up" /\ Pending(e)
              /\ \/ /\ \/ rec = e /\ Replay
                       \/ \E w \in Workers : wenv[w] = e /\ WriteKafka(w)
                    /\ KafkaTakes(e)
                 \/ KafkaFails(e)
<1>0. MTypeOK /\ InHand /\ Stopped
  BY DEF MInv
<1>1. ASSUME NEW w \in Workers, WriteKafka(w) \/ WriteKafkaError(w)
      PROVE  wenv[w] \in Envs /\ phase = "up" /\ Pending(wenv[w])
  <2>1. wpc[w] = "kafka"
    BY <1>1 DEF WriteKafka, WriteKafkaError
  <2>2. wenv[w] \in Envs
    BY <1>0, <2>1 DEF InHand, MTypeOK
  <2>3. phase = "up"
    BY <1>0, <2>1 DEF Stopped
  <2> QED
    BY <2>1, <2>2, <2>3 DEF Pending
<1>2. Replay \/ ReplayError => rec \in Envs /\ phase = "up" /\ Pending(rec)
  BY <1>0 DEF Replay, ReplayError, InHand, MTypeOK, Stopped, Pending
<1>3. \/ UNCHANGED delivered
      \/ \E w \in Workers : \/ WriteKafka(w) /\ KafkaTakes(wenv[w])
                            \/ WriteKafkaError(w) /\ KafkaFails(wenv[w])
      \/ Replay /\ KafkaTakes(rec)
      \/ ReplayError /\ KafkaFails(rec)
  BY DEF MNext, WorkerStep, RecoveryStep, KafkaOutage, KafkaBack, Write, WriteKafka,
     WriteKafkaError, WriteStoreUnhealthy, WriteGauge, WriteFallback, WriteRotate,
     Tick, RecoveryStop, RecoveryPeekOn, RecoveryPeekNothing, RecoveryPeekRecord,
     Probe, Replay, ReplayError, RecoveryStore, RecoveryGauge, DrainDeadline,
     Shutdown, ShutdownKafka, ShutdownFallback, ProcessDies, NewManager, StartFails,
     Ended, vars, kafka
<1> QED
  BY <1>1, <1>2, <1>3

\* A delivery that nothing explains is the first one.
LEMMA BudgetStep ==
  ASSUME MInv, Once, Budget, Huge = {}, MNext
  PROVE  Budget'
<1>0. /\ MTypeOK /\ delivered \in [Envs -> Nat]
      /\ Spent \in Nat /\ Spent' \in Nat /\ Spent <= Spent'
  BY SpentGrows DEF MInv, MTypeOK
<1> SUFFICES ASSUME NEW e \in Envs
             PROVE  Paid(e)'
  BY DEF Budget
<1>1. /\ delivered[e] <= 1 + Spent
      /\ phase = "up" /\ Pending(e) => delivered[e] <= Spent
      /\ e \notin taken => delivered[e] = 0
  BY DEF Budget, Paid, Once
<1>2. ASSUME delivered'[e] = delivered[e]
      PROVE  Paid(e)'
  <2>1. delivered'[e] <= 1 + Spent'
    BY <1>0, <1>1, <1>2
  <2>2. ASSUME phase' = "up", Pending(e)'
        PROVE  delivered'[e] <= Spent'
    <3>1. (phase = "up" /\ Pending(e)) \/ Spent' > Spent \/ e \notin taken
      BY <2>2, PendingFrom
    <3> QED
      BY <1>0, <1>1, <1>2, <3>1
  <2> QED
    BY <2>1, <2>2 DEF Paid
<1>3. ASSUME phase = "up", Pending(e), KafkaTakes(e), ~Pending(e)'
      PROVE  Paid(e)'
  <2>1. delivered'[e] = delivered[e] + 1
    BY <1>0, <1>3 DEF KafkaTakes
  <2>2. delivered'[e] <= 1 + Spent'
    BY <1>0, <1>1, <1>3, <2>1
  <2> QED
    BY <1>3, <2>2 DEF Paid
<1>4. ASSUME phase = "up", Pending(e), KafkaFails(e), delivered'[e] # delivered[e]
      PROVE  Paid(e)'
  <2>1. delivered'[e] = delivered[e] + 1 /\ timeouts' = timeouts + 1
    BY <1>0, <1>4 DEF KafkaFails, kafka
  <2>2. Spent' >= Spent + 1
    <3>1. timeouts \in Nat
      BY <1>0, KafkaBounds DEF MTypeOK
    <3>2. Spent' > Spent
      BY <2>1, <3>1, SpentGrows
    <3> QED
      BY <1>0, <3>2
  <2>3. delivered'[e] <= Spent' /\ delivered'[e] <= 1 + Spent'
    BY <1>0, <1>1, <1>4, <2>1, <2>2
  <2> QED
    BY <2>3 DEF Paid
<1>5. ASSUME NEW x \in Envs, KafkaTakes(x) \/ KafkaFails(x), x # e
      PROVE  delivered'[e] = delivered[e]
  BY <1>0, <1>5 DEF KafkaTakes, KafkaFails, kafka
<1>6. CASE UNCHANGED delivered
  BY <1>2, <1>6
<1>7. ASSUME NEW x \in Envs, phase = "up", Pending(x),
             \/ /\ \/ rec = x /\ Replay
                   \/ \E w \in Workers : wenv[w] = x /\ WriteKafka(w)
                /\ KafkaTakes(x)
             \/ KafkaFails(x)
      PROVE  Paid(e)'
  <2>1. CASE x # e
    BY <1>2, <1>5, <1>7, <2>1
  <2>2. CASE x = e
    BY <1>2, <1>3, <1>4, <1>7, <2>2, TakenIsDone
  <2> QED
    BY <2>1, <2>2
<1> QED
  BY <1>6, <1>7, TakenWasPending

\* Nothing is taken, written or delivered when the program starts.
LEMMA DInvInit == MInit => DInv
<1> HAVE MInit
<1>1. MInv
  BY MInvInit
<1>2. Once
  BY WorkersAssumption DEF MInit, FInit, Once
<1>3. Budget
  <2>1. Spent = 0 /\ \A e \in Envs : delivered[e] = 0
    BY DEF MInit, FInit, Spent
  <2> QED
    BY <2>1 DEF Budget, Paid
<1> QED
  BY <1>1, <1>2, <1>3 DEF DInv

\* Only the variables matter.
LEMMA DInvStutter ==
  ASSUME DInv, UNCHANGED vars
  PROVE  DInv'
<1>1. UNCHANGED <<kind, lines, peek, phase, faults, restarts, timeouts, rec, wpc, wenv,
                  delivered, taken>>
  BY DEF vars, fvars, disk, memory, threads, kafka, mhistory
<1>2. MInv'
  BY MInvStutter DEF DInv
<1>3. Once'
  BY <1>1 DEF DInv, Once
<1>4. Spent' = Spent
  BY <1>1 DEF Spent
<1>5. \A e \in Envs : Pending(e)' <=> Pending(e)
  BY <1>1 DEF Pending, Readable
<1>6. Budget'
  BY <1>1, <1>4, <1>5 DEF DInv, Budget, Paid
<1> QED
  BY <1>2, <1>3, <1>6 DEF DInv

\* When no line is too long for the scanner, no envelope is in two places and every
\* delivery beyond the first is paid for.
THEOREM DInductive ==
  ASSUME Huge = {}
  PROVE  MSpec => []DInv
<1>1. ASSUME DInv, MNext
      PROVE  DInv'
  BY <1>1, MInvStep, OnceStep, BudgetStep DEF DInv
<1>2. DInv /\ [MNext]_vars => DInv'
  BY <1>1, DInvStutter
<1> QED
  BY <1>2, DInvInit, PTL DEF MSpec

\* Kafka gets an envelope at most once more than the restarts, the timed-out writes
\* and the failed file operations explain, for any number of workers, files and
\* envelopes; lines too long for the scanner are left out, as in the run, because
\* every rescan of their file repeats the lines before them.
THEOREM Duplicates ==
  ASSUME Huge = {}
  PROVE  MSpec => []DuplicatesExplained
<1>1. DInv => DuplicatesExplained
  <2> HAVE DInv
  <2>1. MTypeOK /\ FTypeOK
    BY DEF DInv, MInv, MTypeOK
  <2>2. restarts \in Nat /\ timeouts \in Nat /\ faults \in Nat /\ delivered \in [Envs -> Nat]
    BY <2>1, BoundsAssumption, KafkaBounds DEF MTypeOK, FTypeOK
  <2>3. ASSUME NEW e \in Envs
        PROVE  delivered[e] <= 1 + (restarts + timeouts + faults)
    BY DEF DInv, Budget, Paid, Spent
  <2> QED
    BY <2>2, <2>3 DEF DuplicatesExplained
<1> QED
  BY <1>1, DInductive, PTL
=============================================================================
