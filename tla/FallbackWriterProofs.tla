------------------------ MODULE FallbackWriterProofs ------------------------
(***************************************************************************)
(* Proofs about FallbackWriter for any set of envelopes and any file size, *)
(* number of files, faults and restarts.  FInv is inductive under every    *)
(* operation, whoever calls it: the step lemmas name no specification, so  *)
(* that WriterManagerProofs can use them for the writer inside the         *)
(* manager.  OInv adds what the order of replay needs, for which each      *)
(* envelope must be written at most once.                                  *)
(***************************************************************************)
EXTENDS FallbackWriter, FiniteSetTheorems, SequenceTheorems, TLAPS

\* What a line of a file can be.
Line == Envs \union {Garbage}

\* What the holder of f.mu and the descriptors refer to: the active file is a
\* .log and the newest one, names not used yet have no file, the scanner is
\* inside the file it reads, and rotate runs for a line Write has appended.
\* Nothing of this outlives the process.
Handles ==
  /\ current # None => kind[current] = "log" /\ nextTs = current + 1
  /\ \A t \in Ts : t >= nextTs => kind[t] = "absent" /\ lines[t] = <<>>
  /\ peek # NoPeek => /\ peek.file \in Ts /\ peek.file < nextTs
                      /\ peek.pos \in 0..Len(lines[peek.file])
                      /\ kind[peek.file] # "log"
  /\ op = "rotate" => /\ current # None
                      /\ Len(lines[current]) > 0
                      /\ lines[current][Len(lines[current])] \in Envs
  /\ phase # "up" => current = None /\ peek = NoPeek /\ op = "none"

\* What is behind the scanner was handed out or did not parse.
Scanned ==
  peek # NoPeek =>
    \A i \in 1..peek.pos : lines[peek.file][i] \in handed \union {Garbage}

\* Without I/O errors the descriptor is usable, and the metric is right
\* except between the renaming and the pruning of rotate.
FaultFree ==
  faults = 0 =>
    /\ fdOpen
    /\ phase = "up" /\ op # "prune" => filesGauge = Cardinality(Done)

\* The inductive invariant.
FInv ==
  /\ FTypeOK
  /\ Handles
  /\ Scanned
  /\ NothingStoredIsLost
  /\ FaultFree
  /\ NoStrandedLog

\* The line at place k of file t was written no later than the one at l of u.
Before(t, k, u, l) == t < u \/ (t = u /\ k <= l)

\* Envelopes are known before they are written, and their lines stay in the
\* contents of the files.
Known ==
  /\ Stored \union handed \subseteq offered
  /\ \A t \in Ts : \A k \in 1..Len(lines[t]) : lines[t][k] \in offered \union {Garbage}
  /\ \A e \in Stored : \E t \in Ts : \E k \in 1..Len(lines[t]) : lines[t][k] = e

\* Without I/O errors the lines are the stored envelopes in the order in which
\* they were stored.
Sorted ==
  faults = 0 =>
    /\ \A t \in Ts : \A k \in 1..Len(lines[t]) : lines[t][k] \in Stored
    /\ \A i, j \in 1..Len(stored) : i <= j =>
         \A t, u \in Ts : \A k \in 1..Len(lines[t]), l \in 1..Len(lines[u]) :
           lines[t][k] = stored[i] /\ lines[u][l] = stored[j] => Before(t, k, u, l)

\* Without I/O errors whatever is no longer in the directory was handed out or
\* pruned, and the files before the one being scanned are gone.
Gone ==
  faults = 0 =>
    /\ \A t \in Ts : kind[t] = "absent" =>
         \A k \in 1..Len(lines[t]) : lines[t][k] \in handed \union pruned
    /\ peek # NoPeek => \A t \in Ts : t < peek.file => kind[t] = "absent"

\* Without I/O errors what precedes a line handed out was handed out or pruned.
Replayed ==
  faults = 0 =>
    \A t, u \in Ts : \A k \in 1..Len(lines[t]), l \in 1..Len(lines[u]) :
      lines[u][l] \in handed /\ Before(t, k, u, l) => lines[t][k] \in handed \union pruned

\* The inductive invariant for the order of replay.
OInv ==
  /\ FInv
  /\ Known
  /\ Sorted
  /\ Gone
  /\ Replayed

-----------------------------------------------------------------------------
(* Operators *)

\* The operations of the writer, for any envelope passed to Write.
FStep ==
  \/ \E e \in Envs : WriteStep(e)
  \/ RotateStep
  \/ PeekStep
  \/ Close \/ Crash \/ NewFallbackWriter \/ NewFallbackWriterFails

\* The directory is finite, so the files in it can be counted.
LEMMA Countable ==
  ASSUME NEW S \in SUBSET Ts
  PROVE  Cardinality(S) \in Nat
<1>1. IsFiniteSet(Ts)
  BY BoundsAssumption, FS_Interval DEF Ts
<1> QED
  BY <1>1, FS_Subset, FS_CardinalityType

\* The first of listDoneFiles is a file, and none is older.
LEMMA OldestIsFirst ==
  ASSUME NEW S \in SUBSET Ts, S # {}
  PROVE  Oldest(S) \in S /\ \A u \in S : Oldest(S) <= u
<1>1. S \subseteq Nat
  BY BoundsAssumption DEF Ts
<1>2. PICK t \in S : \A u \in S : <<u, t>> \notin OpToRel(<, Nat)
  BY <1>1, WFMin, NatLessThanWellFounded, Zenon
<1>3. \A u \in S : ~(u < t)
  BY <1>1, <1>2, Zenon DEF OpToRel
<1>4. \A u \in S : t <= u
  BY <1>1, <1>3
<1> QED
  BY <1>4 DEF Oldest

\* The file a Write goes to exists in the model.
LEMMA TargetIsFile ==
  ASSUME FTypeOK, CanOpen
  PROVE  Target \in Ts
BY BoundsAssumption DEF FTypeOK, CanOpen, Target, Ts, None

\* An append leaves the other files and the lines already there alone.
LEMMA Appended ==
  ASSUME FTypeOK, NEW t \in Ts, NEW what \in Seq(Line), AppendTo(t, what)
  PROVE  /\ lines' \in [Ts -> Seq(Line)]
         /\ kind' \in [Ts -> {"absent", "log", "done"}]
         /\ kind'[t] = "log"
         /\ \A u \in Ts : u # t => lines'[u] = lines[u] /\ kind'[u] = kind[u]
         /\ Len(lines'[t]) = Len(lines[t]) + Len(what)
         /\ \A i \in 1..Len(lines[t]) : lines'[t][i] = lines[t][i]
         /\ \A i \in 1..Len(what) : lines'[t][Len(lines[t]) + i] = what[i]
<1>1. lines[t] \in Seq(Line) /\ lines'[t] = lines[t] \o what
  BY DEF FTypeOK, AppendTo, Line
<1>2. /\ lines[t] \o what \in Seq(Line)
      /\ Len(lines[t] \o what) = Len(lines[t]) + Len(what)
      /\ \A i \in 1..Len(lines[t]) + Len(what) :
           (lines[t] \o what)[i] =
             IF i <= Len(lines[t]) THEN lines[t][i] ELSE what[i - Len(lines[t])]
  BY <1>1, ConcatProperties
<1>3. Len(lines[t]) \in Nat /\ Len(what) \in Nat
  BY <1>1, LenProperties
<1>4. lines' \in [Ts -> Seq(Line)]
  BY <1>1, <1>2 DEF FTypeOK, AppendTo, Line
<1>5. \A i \in 1..Len(lines[t]) : lines'[t][i] = lines[t][i]
  BY <1>1, <1>2, <1>3
<1>6. \A i \in 1..Len(what) : lines'[t][Len(lines[t]) + i] = what[i]
  BY <1>1, <1>2, <1>3
<1>7. Len(lines'[t]) = Len(lines[t]) + Len(what)
  BY <1>1, <1>2
<1> QED
  BY <1>4, <1>5, <1>6, <1>7 DEF FTypeOK, AppendTo

\* An appended line is the last one.
LEMMA AppendedLine ==
  ASSUME FTypeOK, NEW t \in Ts, NEW x \in Line, AppendTo(t, <<x>>)
  PROVE  /\ Len(lines'[t]) = Len(lines[t]) + 1
         /\ lines'[t][Len(lines[t]) + 1] = x
<1> DEFINE w == <<x>>
<1>1. w \in Seq(Line) /\ AppendTo(t, w)
  OBVIOUS
<1>2. Len(w) = 1 /\ w[1] = x
  OBVIOUS
<1> HIDE DEF w
<1>3. /\ Len(lines'[t]) = Len(lines[t]) + Len(w)
      /\ \A i \in 1..Len(w) : lines'[t][Len(lines[t]) + i] = w[i]
  BY <1>1, Appended
<1> QED
  BY <1>2, <1>3

\* Every way a Write can touch the files: it appends what it leaves behind to
\* the target, or fails without touching them.
LEMMA WriteCases ==
  ASSUME FTypeOK, NEW e \in Envs, WriteStep(e)
  PROVE  /\ phase = "up" /\ op = "none"
         /\ UNCHANGED <<peek, filesGauge, phase, restarts, pruned, handed>>
         /\ offered' = offered \union {e}
         /\ \/ WriteAppend(e)
            \/ /\ Target \in Ts
               /\ faults' = faults + 1 /\ faults < MaxFaults
               /\ \E what \in Seq(Line) : /\ AppendTo(Target, what)
                                          /\ what \in {<<>>, <<Garbage>>, <<e>>}
               /\ current' = None /\ fdOpen' = TRUE
               /\ refused' = refused \union {e}
               /\ UNCHANGED <<op, stored>>
            \/ /\ UNCHANGED <<disk, op, stored>>
               /\ refused' = refused \union {e}
               /\ \/ Fault /\ UNCHANGED <<current, fdOpen>>
                  \/ ~fdOpen /\ current' = None /\ fdOpen' = TRUE /\ UNCHANGED faults
<1>1. CASE WriteAppend(e)
  BY <1>1 DEF WriteAppend
<1>2. CASE WriteOpenFails(e)
  BY <1>2 DEF WriteOpenFails, Fault, memory, disk
<1>3. CASE WriteFails(e)
  <2>1. \A what \in {<<>>, <<Garbage>>, <<e>>} : what \in Seq(Line)
    <3>1. <<>> \in Seq(Line) /\ <<Garbage>> \in Seq(Line) /\ <<e>> \in Seq(Line)
      BY DEF Line
    <3> QED
      BY <3>1
  <2>2. Target \in Ts
    BY <1>3, TargetIsFile DEF WriteFails
  <2> QED
    BY <1>3, <2>1, <2>2 DEF WriteFails, Fault
<1> QED
  BY <1>1, <1>2, <1>3 DEF WriteStep

\* No operation changes a line already written: even a deleted file keeps its
\* contents for the scanner that has it open.
LEMMA LinesStay ==
  ASSUME FTypeOK, FStep
  PROVE  \A t \in Ts : /\ Len(lines[t]) <= Len(lines'[t])
                       /\ \A i \in 1..Len(lines[t]) : lines'[t][i] = lines[t][i]
<1>0. \A t \in Ts : Len(lines[t]) \in Nat
  BY DEF FTypeOK
<1>1. ASSUME NEW t \in Ts, NEW what \in Seq(Line), AppendTo(t, what)
      PROVE  \A u \in Ts : /\ Len(lines[u]) <= Len(lines'[u])
                           /\ \A i \in 1..Len(lines[u]) : lines'[u][i] = lines[u][i]
  <2>1. Len(what) \in Nat
    BY LenProperties
  <2>2. ASSUME NEW u \in Ts, u # t
        PROVE  lines'[u] = lines[u]
    BY <1>1, <2>2, Appended
  <2>3. /\ Len(lines'[t]) = Len(lines[t]) + Len(what)
        /\ \A i \in 1..Len(lines[t]) : lines'[t][i] = lines[t][i]
    BY <1>1, Appended
  <2> QED
    BY <1>0, <2>1, <2>2, <2>3
<1>2. ASSUME NEW e \in Envs, WriteStep(e)
      PROVE  \/ UNCHANGED lines
             \/ \E t \in Ts, what \in Seq(Line) : AppendTo(t, what)
  <2>1. <<e>> \in Seq(Line)
    BY DEF Line
  <2>2. CASE WriteAppend(e)
    BY <2>1, <2>2, TargetIsFile DEF WriteAppend
  <2> QED
    BY <1>2, <2>2, WriteCases DEF disk
<1>3. CASE UNCHANGED lines
  BY <1>0, <1>3
<1>4. CASE \E e \in Envs : WriteStep(e)
  BY <1>1, <1>2, <1>3, <1>4
<1>5. CASE RotateStep
  BY <1>3, <1>5 DEF RotateStep, RotateRename, RotateFails, RotatePrune,
                    RotatePruneFails, disk
<1>6. CASE PeekStep
  BY <1>3, <1>6 DEF PeekStep, PeekOpen, PeekNothing, PeekRecord, PeekSkip,
                    PeekScanError, PeekEOF, PeekEOFFails, disk
<1>7. CASE Close \/ Crash \/ NewFallbackWriter \/ NewFallbackWriterFails
  BY <1>3, <1>7 DEF Close, Crash, NewFallbackWriter, NewFallbackWriterFails, disk
<1> QED
  BY <1>4, <1>5, <1>6, <1>7 DEF FStep

-----------------------------------------------------------------------------
(* The type invariant *)

\* The writer starts with nothing in the directory.
LEMMA TypeInit == FInit => FTypeOK
BY BoundsAssumption DEF FInit, FTypeOK, NoPeek, None, Ts

\* Moving the scanner one line on keeps the shape of its state.
LEMMA PeekAdvances ==
  ASSUME peek \in [file : Ts \union {None}, pos : Nat],
         peek' = [peek EXCEPT !.pos = @ + 1]
  PROVE  /\ peek' \in [file : Ts \union {None}, pos : Nat]
         /\ peek'.file = peek.file /\ peek'.pos = peek.pos + 1
<1>1. peek.pos \in Nat /\ peek.pos + 1 \in Nat
  OBVIOUS
<1> QED
  BY <1>1

\* Every operation keeps the types, with any envelope passed to Write.
LEMMA TypeStep ==
  ASSUME FTypeOK, Handles, FStep
  PROVE  FTypeOK'
<1> USE DEF FTypeOK
<1>0. \A S \in SUBSET Ts : Cardinality(S) \in Nat
  BY Countable
<1>1. ASSUME NEW e \in Envs, WriteStep(e)
      PROVE  FTypeOK'
  <2>1. CASE WriteAppend(e)
    <3>1. Target \in Ts /\ <<e>> \in Seq(Line)
      BY <2>1, TargetIsFile DEF WriteAppend, Line
    <3>2. lines' \in [Ts -> Seq(Line)] /\ kind' \in [Ts -> {"absent", "log", "done"}]
      BY <2>1, <3>1, Appended DEF WriteAppend
    <3>3. nextTs' \in 1..(MaxTs + 1)
      BY <2>1, <3>1, BoundsAssumption DEF WriteAppend, AppendTo, Target, Ts, None
    <3>4. stored' \in Seq(Envs)
      BY <2>1 DEF WriteAppend
    <3> QED
      BY <2>1, <3>1, <3>2, <3>3, <3>4 DEF WriteAppend, Line
  <2>2. ASSUME Target \in Ts, NEW what \in Seq(Line), AppendTo(Target, what)
        PROVE  /\ lines' \in [Ts -> Seq(Line)]
               /\ kind' \in [Ts -> {"absent", "log", "done"}]
               /\ nextTs' \in 1..(MaxTs + 1)
    <3>1. nextTs' \in 1..(MaxTs + 1)
      BY <2>2, BoundsAssumption DEF AppendTo, Target, Ts, None
    <3> QED
      BY <2>2, <3>1, Appended
  <2>3. CASE WriteOpenFails(e)
    <3>1. faults' \in 0..MaxFaults
      BY <2>3, BoundsAssumption DEF WriteOpenFails, Fault
    <3> QED
      BY <2>3, <3>1 DEF WriteOpenFails, memory, disk
  <2>4. CASE WriteFails(e)
    <3>1. /\ lines' \in [Ts -> Seq(Line)]
          /\ kind' \in [Ts -> {"absent", "log", "done"}]
          /\ nextTs' \in 1..(MaxTs + 1)
      <4>1. CASE \E torn \in {<<>>, <<Garbage>>, <<e>>} : AppendTo(Target, torn)
        <5>1. <<>> \in Seq(Line) /\ <<Garbage>> \in Seq(Line) /\ <<e>> \in Seq(Line)
          BY DEF Line
        <5>2. Target \in Ts
          BY <2>4, TargetIsFile DEF WriteFails
        <5> QED
          BY <2>2, <4>1, <5>1, <5>2
      <4> QED
        BY <2>4, <4>1 DEF WriteFails, disk, Line
    <3>2. faults' \in 0..MaxFaults
      BY <2>4, BoundsAssumption DEF WriteFails, Fault
    <3> QED
      BY <2>4, <3>1, <3>2 DEF WriteFails, Line
  <2> QED
    BY <1>1, <2>1, <2>3, <2>4 DEF WriteStep
<1>2. CASE RotateRename
  BY <1>2 DEF RotateRename, history
<1>3. CASE RotateFails
  <2>1. lines[current][Len(lines[current])] \in Envs
    BY <1>3 DEF RotateFails, Handles
  <2>2. faults' \in 0..MaxFaults
    BY <1>3, BoundsAssumption DEF RotateFails, Fault
  <2> QED
    BY <1>3, <2>1, <2>2 DEF RotateFails, disk
<1>4. CASE RotatePrune
  <2>1. Done \ Over \in SUBSET Ts /\ EnvsIn(Over) \in SUBSET Envs
    BY DEF Done, EnvsIn
  <2> QED
    BY <1>0, <1>4, <2>1 DEF RotatePrune
<1>5. CASE RotatePruneFails
  <2>1. Done \ Over \in SUBSET Ts /\ \A S : EnvsIn(S) \in SUBSET Envs
    BY DEF Done, EnvsIn
  <2>2. kind' \in [Ts -> {"absent", "log", "done"}] /\ pruned' \in SUBSET Envs
    BY <1>5, <2>1 DEF RotatePruneFails
  <2> QED
    BY <1>0, <1>5, <2>1, <2>2, BoundsAssumption DEF RotatePruneFails, Fault
<1>6. CASE PeekOpen
  BY <1>6, OldestIsFirst DEF PeekOpen, disk, history, Done
<1>7. CASE PeekNothing
  BY <1>7, BoundsAssumption DEF PeekNothing, Fault, disk, history
<1>8. ASSUME NEW e \in Envs, PeekRecord(e)
      PROVE  FTypeOK'
  <2>1. peek' \in [file : Ts \union {None}, pos : Nat]
    BY <1>8, PeekAdvances DEF PeekRecord
  <2> QED
    BY <1>8, <2>1 DEF PeekRecord, disk
<1>9. CASE PeekSkip
  <2>1. peek' \in [file : Ts \union {None}, pos : Nat]
    BY <1>9, PeekAdvances DEF PeekSkip
  <2> QED
    BY <1>9, <2>1 DEF PeekSkip, disk, history
<1>10. CASE PeekScanError
  BY <1>10, BoundsAssumption DEF PeekScanError, Fault, disk, history, NoPeek
<1>11. CASE PeekEOF
  <2>1. Done \ {peek.file} \in SUBSET Ts
    BY DEF Done
  <2> QED
    BY <1>0, <1>11, <2>1 DEF PeekEOF, history, NoPeek
<1>16. CASE PeekEOFFails
  <2>1. Done \in SUBSET Ts
    BY DEF Done
  <2>2. kind' \in [Ts -> {"absent", "log", "done"}] /\ filesGauge' \in Nat
    BY <1>0, <1>16, <2>1 DEF PeekEOFFails
  <2> QED
    BY <1>16, <2>2, BoundsAssumption DEF PeekEOFFails, Fault, history, NoPeek
<1>12. CASE Close
  BY <1>12, BoundsAssumption DEF Close, Fault, history, NoPeek
<1>13. CASE Crash
  BY <1>13 DEF Crash, disk, history, NoPeek
<1>14. CASE NewFallbackWriter
  <2>1. {t \in Ts : kind[t] # "absent"} \in SUBSET Ts
    OBVIOUS
  <2>2. restarts' \in 0..MaxRestarts
    BY <1>14, BoundsAssumption DEF NewFallbackWriter
  <2> QED
    BY <1>0, <1>14, <2>1, <2>2 DEF NewFallbackWriter, history
<1>15. CASE NewFallbackWriterFails
  BY <1>15, BoundsAssumption DEF NewFallbackWriterFails, Fault, memory, history
<1> QED
  BY <1>1, <1>2, <1>3, <1>4, <1>5, <1>6, <1>7, <1>8, <1>9, <1>10, <1>11, <1>12,
     <1>13, <1>14, <1>15, <1>16 DEF FStep, RotateStep, PeekStep

-----------------------------------------------------------------------------
(* What the holder of f.mu refers to *)

\* No handle is open when the program starts.
LEMMA HandlesInit == FInit => Handles
BY BoundsAssumption DEF FInit, Handles, NoPeek, None, Ts

\* Opening, rotating, pruning, scanning, closing and restarting keep the
\* descriptor, the scanner and the unused names where they belong.
LEMMA HandlesStep ==
  ASSUME FTypeOK, Handles, FStep
  PROVE  Handles'
<1>0. FTypeOK' /\ Ts \subseteq Nat /\ None \notin Ts /\ nextTs \in Nat
  <2>1. nextTs \in Nat
    BY BoundsAssumption DEF FTypeOK
  <2> QED
    BY <2>1, TypeStep, BoundsAssumption DEF Ts, None
<1>1. ASSUME NEW e \in Envs, WriteStep(e)
      PROVE  Handles'
  <2>1. ASSUME Target \in Ts, NEW what \in Seq(Line), AppendTo(Target, what),
               phase = "up", UNCHANGED <<peek, phase>>
        PROVE  /\ nextTs' = Target + 1
               /\ kind'[Target] = "log"
               /\ \A t \in Ts : t >= nextTs' => kind'[t] = "absent" /\ lines'[t] = <<>>
               /\ peek # NoPeek => /\ peek.file \in Ts /\ peek.file < nextTs'
                                   /\ peek.pos \in 0..Len(lines'[peek.file])
                                   /\ kind'[peek.file] # "log"
    <3>1. nextTs' = Target + 1
      BY <2>1 DEF AppendTo, Target, FTypeOK, Handles
    <3>2. \A t \in Ts : t >= nextTs' => t # Target /\ t >= nextTs
      BY <1>0, <2>1, <3>1 DEF Target, FTypeOK, Handles
    <3>4. peek # NoPeek => Len(lines[peek.file]) <= Len(lines'[peek.file])
      BY <1>1, LinesStay DEF FStep, Handles
    <3>5. \A t \in Ts : Len(lines[t]) \in Nat
      BY DEF FTypeOK
    <3>7. \A t \in Ts : Len(lines'[t]) \in Nat
      <4>1. lines' \in [Ts -> Seq(Line)]
        BY <2>1, Appended
      <4> QED
        BY <4>1
    <3>6. \A t \in Ts : t # Target => lines'[t] = lines[t] /\ kind'[t] = kind[t]
      BY <2>1, Appended
    <3>8. kind'[Target] = "log"
      BY <2>1, Appended
    <3>9. \A t \in Ts : t >= nextTs' => kind'[t] = "absent" /\ lines'[t] = <<>>
      BY <3>2, <3>6 DEF Handles
    <3>10. ASSUME peek # NoPeek
           PROVE  /\ peek.file \in Ts /\ peek.file < nextTs'
                  /\ peek.pos \in 0..Len(lines'[peek.file])
                  /\ kind'[peek.file] # "log"
      <4>1. peek.file \in Ts /\ peek.pos \in 0..Len(lines'[peek.file])
        BY <3>4, <3>5, <3>7, <3>10 DEF Handles
      <4>2. peek.file # Target /\ peek.file < nextTs'
        <5>1. peek.file \in Nat /\ nextTs \in Nat /\ peek.file < nextTs
          BY <1>0, <3>10 DEF Handles
        <5>2. CASE current = None
          BY <3>1, <5>1, <5>2 DEF Target
        <5>3. CASE current # None
          BY <3>1, <3>10, <5>1, <5>3 DEF Target, Handles
        <5> QED
          BY <5>2, <5>3
      <4> QED
        BY <3>6, <3>10, <4>1, <4>2 DEF Handles
    <3> QED
      BY <3>1, <3>8, <3>9, <3>10
  <2>2. CASE WriteAppend(e)
    <3>1. Target \in Ts /\ <<e>> \in Seq(Line) /\ Len(<<e>>) = 1 /\ <<e>>[1] = e
      BY <2>2, TargetIsFile DEF WriteAppend, Line
    <3>2. /\ Len(lines'[Target]) = Len(lines[Target]) + 1
          /\ lines'[Target][Len(lines[Target]) + 1] = e
      BY <2>2, <3>1, AppendedLine DEF WriteAppend, Line
    <3>3. Len(lines[Target]) \in Nat
      BY <3>1 DEF FTypeOK
    <3>4. /\ nextTs' = Target + 1
          /\ kind'[Target] = "log"
          /\ \A t \in Ts : t >= nextTs' => kind'[t] = "absent" /\ lines'[t] = <<>>
          /\ peek # NoPeek => /\ peek.file \in Ts /\ peek.file < nextTs'
                              /\ peek.pos \in 0..Len(lines'[peek.file])
                              /\ kind'[peek.file] # "log"
      BY <2>1, <2>2, <3>1 DEF WriteAppend
    <3>5. /\ current' = Target /\ peek' = peek /\ phase' = "up"
      BY <2>2 DEF WriteAppend
    <3>6. /\ Len(lines'[current']) > 0
          /\ lines'[current'][Len(lines'[current'])] \in Envs
      BY <3>2, <3>3, <3>5
    <3> QED
      BY <1>0, <3>1, <3>4, <3>5, <3>6 DEF Handles
  <2>3. CASE WriteOpenFails(e)
    BY <2>3 DEF WriteOpenFails, disk, memory, Handles
  <2>4. CASE WriteFails(e)
    <3>1. CASE ~fdOpen /\ UNCHANGED disk
      BY <2>4, <3>1 DEF WriteFails, disk, Handles
    <3>2. CASE \E torn \in {<<>>, <<Garbage>>, <<e>>} : AppendTo(Target, torn)
      <4>1. <<>> \in Seq(Line) /\ <<Garbage>> \in Seq(Line) /\ <<e>> \in Seq(Line)
        BY DEF Line
      <4>2. Target \in Ts /\ phase = "up" /\ UNCHANGED <<peek, phase>>
        BY <2>4, TargetIsFile DEF WriteFails
      <4>3. /\ \A t \in Ts : t >= nextTs' => kind'[t] = "absent" /\ lines'[t] = <<>>
            /\ peek # NoPeek => /\ peek.file \in Ts /\ peek.file < nextTs'
                                /\ peek.pos \in 0..Len(lines'[peek.file])
                                /\ kind'[peek.file] # "log"
        BY <2>1, <3>2, <4>1, <4>2
      <4> QED
        BY <2>4, <4>3 DEF WriteFails, Handles
    <3> QED
      BY <2>4, <3>1, <3>2 DEF WriteFails, disk
  <2> QED
    BY <1>1, <2>2, <2>3, <2>4 DEF WriteStep
<1>2. CASE RotateRename
  BY <1>0, <1>2 DEF RotateRename, FTypeOK, Handles
<1>3. CASE RotateFails
  BY <1>3 DEF RotateFails, disk, Handles
<1>4. CASE RotatePrune
  BY <1>0, <1>4 DEF RotatePrune, FTypeOK, Over, Done, Handles
<1>5. CASE RotatePruneFails
  BY <1>0, <1>5 DEF RotatePruneFails, FTypeOK, Over, Done, Handles
<1>6. CASE PeekOpen
  <2>1. Done \in SUBSET Ts /\ Done # {}
    BY <1>6 DEF PeekOpen, Done
  <2>2. Oldest(Done) \in Ts /\ kind[Oldest(Done)] = "done" /\ Oldest(Done) < nextTs
    <3>1. Oldest(Done) \in Done
      BY <2>1, OldestIsFirst
    <3>2. Oldest(Done) \in Ts /\ kind[Oldest(Done)] = "done"
      BY <3>1 DEF Done
    <3>3. ~(Oldest(Done) >= nextTs)
      BY <3>2 DEF Handles
    <3>4. Oldest(Done) \in Nat /\ nextTs \in Nat
      BY <1>0, <3>2
    <3> QED
      BY <3>2, <3>3, <3>4
  <2>3. Len(lines[Oldest(Done)]) \in Nat
    BY <2>2 DEF FTypeOK
  <2>4. peek'.file = Oldest(Done) /\ peek'.pos = 0
    BY <1>6 DEF PeekOpen
  <2> QED
    BY <1>6, <2>2, <2>3, <2>4 DEF PeekOpen, Peeking, disk, Handles
<1>7. CASE PeekNothing
  BY <1>7 DEF PeekNothing, disk, Peeking, Handles
<1>8. ASSUME NEW e \in Envs, PeekRecord(e)
      PROVE  Handles'
  BY <1>0, <1>8 DEF PeekRecord, disk, HasLine, Peeking, FTypeOK, Handles
<1>9. CASE PeekSkip
  BY <1>0, <1>9 DEF PeekSkip, disk, HasLine, Peeking, FTypeOK, Handles
<1>10. CASE PeekScanError
  BY <1>10 DEF PeekScanError, disk, Peeking, Handles
<1>11. CASE PeekEOF
  BY <1>0, <1>11 DEF PeekEOF, Peeking, FTypeOK, Handles
<1>16. CASE PeekEOFFails
  BY <1>0, <1>16 DEF PeekEOFFails, Peeking, FTypeOK, Handles
<1>12. CASE Close
  BY <1>0, <1>12 DEF Close, FTypeOK, Handles
<1>13. CASE Crash
  BY <1>13 DEF Crash, disk, Handles
<1>14. CASE NewFallbackWriter
  BY <1>0, <1>14 DEF NewFallbackWriter, FTypeOK, Handles
<1>15. CASE NewFallbackWriterFails
  BY <1>0, <1>15 DEF NewFallbackWriterFails, memory, FTypeOK, Handles
<1> QED
  BY <1>1, <1>2, <1>3, <1>4, <1>5, <1>6, <1>7, <1>8, <1>9, <1>10, <1>11, <1>12,
     <1>13, <1>14, <1>15, <1>16 DEF FStep, RotateStep, PeekStep

-----------------------------------------------------------------------------
(* Nothing stored is lost *)

\* The scanner passes a line by handing it out or skipping it, and lines behind
\* it never change.
LEMMA ScannedStep ==
  ASSUME FTypeOK, Handles, Scanned, FStep
  PROVE  Scanned'
<1>1. handed \subseteq handed'
  BY WriteCases DEF FStep, RotateStep, RotateRename, RotateFails, RotatePrune,
     RotatePruneFails, PeekStep, PeekOpen, PeekNothing, PeekRecord, PeekSkip,
     PeekScanError, PeekEOF, PeekEOFFails, Close, Crash, NewFallbackWriter,
     NewFallbackWriterFails, history
<1>2. peek # NoPeek => \A i \in 1..peek.pos : lines'[peek.file][i] = lines[peek.file][i]
  <2> HAVE peek # NoPeek
  <2>1. peek.file \in Ts /\ peek.pos \in 0..Len(lines[peek.file])
    BY DEF Handles
  <2>2. Len(lines[peek.file]) \in Nat
    BY <2>1 DEF FTypeOK
  <2> QED
    BY <2>1, <2>2, LinesStay
<1>3. CASE UNCHANGED peek \/ peek' = NoPeek
  BY <1>1, <1>2, <1>3 DEF Scanned
<1>4. CASE PeekOpen
  <2>1. peek'.pos = 0
    BY <1>4 DEF PeekOpen
  <2> QED
    BY <2>1 DEF Scanned
<1>5. ASSUME HasLine, NextLine \in handed' \union {Garbage},
             peek' = [peek EXCEPT !.pos = @ + 1]
      PROVE  Scanned'
  <2>1. peek # NoPeek /\ peek.file \in Ts /\ peek.pos \in Nat
    BY <1>5 DEF HasLine, Handles, FTypeOK
  <2>2. peek'.file = peek.file /\ peek'.pos = peek.pos + 1
    BY <1>5, PeekAdvances DEF FTypeOK
  <2>3. peek.pos + 1 \in 1..Len(lines[peek.file])
    <3>1. Len(lines[peek.file]) \in Nat
      BY <2>1 DEF FTypeOK
    <3> QED
      BY <1>5, <2>1, <3>1 DEF HasLine
  <2>4. lines'[peek.file][peek.pos + 1] = NextLine
    BY <2>1, <2>3, LinesStay DEF NextLine
  <2> QED
    BY <1>1, <1>2, <1>5, <2>1, <2>2, <2>4 DEF Scanned
<1>6. ASSUME NEW e \in Envs, PeekRecord(e)
      PROVE  Scanned'
  BY <1>5, <1>6 DEF PeekRecord
<1>7. CASE PeekSkip
  BY <1>5, <1>7 DEF PeekSkip
<1>8. CASE \E e \in Envs : WriteStep(e)
  BY <1>3, <1>8, WriteCases
<1>9. CASE RotateStep
  BY <1>3, <1>9 DEF RotateStep, RotateRename, RotateFails, RotatePrune, RotatePruneFails
<1>10. CASE PeekNothing \/ PeekScanError \/ PeekEOF \/ PeekEOFFails
  BY <1>3, <1>10 DEF PeekNothing, PeekScanError, PeekEOF, PeekEOFFails
<1>11. CASE Close \/ Crash \/ NewFallbackWriter \/ NewFallbackWriterFails
  BY <1>3, <1>11 DEF Close, Crash, NewFallbackWriter, NewFallbackWriterFails, memory
<1> QED
  BY <1>4, <1>6, <1>7, <1>8, <1>9, <1>10, <1>11 DEF FStep, PeekStep


\* The operations other than handing out e.
OtherStep(e) ==
  \/ \E x \in Envs : WriteStep(x)
  \/ RotateStep
  \/ PeekOpen \/ PeekNothing \/ PeekSkip \/ PeekScanError \/ PeekEOF \/ PeekEOFFails
  \/ \E x \in Envs \ {e} : PeekRecord(x)
  \/ Close \/ Crash \/ NewFallbackWriter \/ NewFallbackWriterFails

\* Every operation either hands out e or does not.
LEMMA FStepCases ==
  ASSUME NEW e
  PROVE  /\ OtherStep(e) => FStep
         /\ FStep => OtherStep(e) \/ PeekRecord(e)
BY DEF FStep, OtherStep, PeekStep

\* A line ahead of the scanner stays there unless it is handed out or pruned:
\* the end of a scan deletes only what was scanned.
LEMMA AheadKept ==
  ASSUME FTypeOK, Handles, NEW e \in Envs, Ahead(e), OtherStep(e)
  PROVE  Ahead(e)' \/ e \in pruned'
<1>0. FTypeOK' /\ FStep /\ None \notin Ts
  BY FStepCases, TypeStep, BoundsAssumption DEF Ts, None
<1>1. PICK t \in Ts : /\ kind[t] # "absent"
                      /\ \E i \in 1..Len(lines[t]) :
                           lines[t][i] = e /\ (peek.file = t => i > peek.pos)
  BY DEF Ahead
<1>2. PICK i \in 1..Len(lines[t]) :
        lines[t][i] = e /\ (peek.file = t => i > peek.pos)
  BY <1>1
<1>3. i \in 1..Len(lines'[t]) /\ lines'[t][i] = e
  <2>1. Len(lines[t]) \in Nat
    BY DEF FTypeOK
  <2>2. Len(lines'[t]) \in Nat
    BY <1>0 DEF FTypeOK
  <2> QED
    BY <1>0, <1>2, <2>1, <2>2, LinesStay
<1>4. ASSUME kind'[t] # "absent", peek'.file = t => i > peek'.pos
      PROVE  Ahead(e)'
  BY <1>3, <1>4 DEF Ahead
<1>5. CASE kind'[t] # "absent" /\ (UNCHANGED peek \/ peek' = NoPeek)
  BY <1>0, <1>2, <1>4, <1>5 DEF NoPeek
<1>6. ASSUME NEW x \in Envs, WriteStep(x)
      PROVE  Ahead(e)' \/ e \in pruned'
  <2>1. kind'[t] # "absent"
    BY <1>1, <1>6, WriteCases DEF WriteAppend, AppendTo, FTypeOK, disk
  <2> QED
    BY <1>5, <1>6, <2>1, WriteCases
<1>7. CASE RotateRename \/ RotateFails
  BY <1>1, <1>5, <1>7 DEF RotateRename, RotateFails, FTypeOK, disk
<1>8. CASE RotatePrune \/ RotatePruneFails
  <2>1. ASSUME NEW S, kind' = [u \in Ts |-> IF u \in S THEN "absent" ELSE kind[u]],
               pruned' = pruned \union EnvsIn(S), UNCHANGED peek
        PROVE  Ahead(e)' \/ e \in pruned'
    <3>1. t \in S => e \in pruned'
      BY <1>2, <2>1 DEF EnvsIn
    <3> QED
      BY <1>1, <1>5, <2>1, <3>1
  <2> QED
    BY <1>1, <1>5, <1>8, <2>1 DEF RotatePrune, RotatePruneFails
<1>9. CASE PeekOpen
  <2>1. peek'.pos = 0 /\ kind' = kind
    BY <1>9 DEF PeekOpen, disk
  <2>2. i > 0
    BY DEF FTypeOK
  <2> QED
    BY <1>1, <1>4, <2>1, <2>2
<1>10. CASE PeekNothing \/ PeekScanError
  BY <1>1, <1>5, <1>10 DEF PeekNothing, PeekScanError, disk
<1>11. ASSUME UNCHANGED kind, HasLine, NextLine # e,
              peek' = [peek EXCEPT !.pos = @ + 1]
       PROVE  Ahead(e)'
  <2>1. peek'.file = peek.file /\ peek'.pos = peek.pos + 1 /\ peek.pos \in Nat
    BY <1>11, PeekAdvances DEF FTypeOK
  <2>2. peek.file = t => i # peek.pos + 1
    BY <1>2, <1>11 DEF NextLine
  <2>3. i \in Nat
    BY DEF FTypeOK
  <2> QED
    BY <1>1, <1>2, <1>4, <1>11, <2>1, <2>2, <2>3
<1>12. CASE PeekSkip
  BY <1>11, <1>12, EnvsAssumption DEF PeekSkip, disk
<1>13. CASE \E x \in Envs \ {e} : PeekRecord(x)
  BY <1>11, <1>13 DEF PeekRecord, disk
<1>14. CASE PeekEOF \/ PeekEOFFails
  <2>1. peek.file \in Ts /\ peek.pos \in 0..Len(lines[peek.file])
    BY <1>14 DEF PeekEOF, PeekEOFFails, Handles
  <2>2. Len(lines[peek.file]) \in Nat /\ i \in Nat
    BY <2>1 DEF FTypeOK
  <2>3. peek.pos = Len(lines[peek.file])
    BY <1>14, <2>1, <2>2 DEF PeekEOF, PeekEOFFails, HasLine
  <2>4. peek.file # t
    BY <1>2, <2>2, <2>3
  <2> QED
    BY <1>1, <1>5, <1>14, <2>4 DEF PeekEOF, PeekEOFFails, FTypeOK
<1>15. CASE Close \/ Crash
  BY <1>1, <1>5, <1>15 DEF Close, Crash, disk, FTypeOK
<1>16. CASE NewFallbackWriter \/ NewFallbackWriterFails
  BY <1>1, <1>5, <1>16 DEF NewFallbackWriter, NewFallbackWriterFails, memory
<1> QED
  BY <1>6, <1>7, <1>8, <1>9, <1>10, <1>12, <1>13, <1>14, <1>15, <1>16
     DEF OtherStep, RotateStep

\* A line just written is ahead: the scanner never reads the active file.
LEMMA AheadNew ==
  ASSUME FTypeOK, Handles, NEW e \in Envs, WriteAppend(e)
  PROVE  Ahead(e)' /\ Stored' = Stored \union {e}
<1>1. Target \in Ts /\ AppendTo(Target, <<e>>) /\ e \in Line
  BY TargetIsFile DEF WriteAppend, Line
<1>2. /\ Len(lines'[Target]) = Len(lines[Target]) + 1
      /\ lines'[Target][Len(lines[Target]) + 1] = e
  BY <1>1, AppendedLine
<1>3. Len(lines[Target]) \in Nat
  BY <1>1 DEF FTypeOK
<1>4. kind'[Target] = "log"
  BY <1>1 DEF AppendTo, FTypeOK
<1>5. Handles' /\ None \notin Ts
  BY HandlesStep, BoundsAssumption DEF FStep, WriteStep, Ts, None
<1>6. peek'.file # Target
  BY <1>1, <1>4, <1>5 DEF Handles, NoPeek
<1>7. Len(lines[Target]) + 1 \in 1..Len(lines'[Target])
  BY <1>2, <1>3
<1>8. Ahead(e)'
  BY <1>1, <1>2, <1>4, <1>6, <1>7 DEF Ahead
<1>9. stored' = Append(stored, e) /\ stored \in Seq(Envs)
  BY DEF WriteAppend, FTypeOK
<1>10. Stored' = Stored \union {e}
  <2>1. /\ Len(stored) \in Nat /\ Len(stored') = Len(stored) + 1
        /\ \A i \in 1..Len(stored) : stored'[i] = stored[i]
        /\ stored'[Len(stored) + 1] = e
    BY <1>9
  <2> QED
    BY <2>1 DEF Stored
<1> QED
  BY <1>8, <1>10

\* Histories only grow, and only a successful append adds to what is stored.
LEMMA HistoryGrows ==
  ASSUME FTypeOK, FStep
  PROVE  /\ handed \subseteq handed' /\ pruned \subseteq pruned'
         /\ refused \subseteq refused'
         /\ UNCHANGED stored \/ \E e \in Envs : WriteAppend(e)
BY WriteCases DEF FStep, RotateStep, RotateRename, RotateFails, RotatePrune,
   RotatePruneFails, PeekStep, PeekOpen, PeekNothing, PeekRecord, PeekSkip,
   PeekScanError, PeekEOF, PeekEOFFails, Close, Crash, NewFallbackWriter,
   NewFallbackWriterFails, WriteAppend, history

\* No operation loses a line that was written: AheadKept for the old ones,
\* AheadNew for the one just appended.
LEMMA LostStep ==
  ASSUME FTypeOK, Handles, NothingStoredIsLost, FStep
  PROVE  NothingStoredIsLost'
<1>1. ASSUME NEW e \in Stored
      PROVE  e \in handed' \/ e \in pruned' \/ Ahead(e)'
  <2>1. e \in Envs
    BY DEF Stored, FTypeOK
  <2>2. PeekRecord(e) => e \in handed'
    BY DEF PeekRecord
  <2> QED
    BY <2>1, <2>2, HistoryGrows, FStepCases, AheadKept DEF NothingStoredIsLost
<1>2. CASE UNCHANGED stored
  BY <1>1, <1>2 DEF NothingStoredIsLost, Stored
<1>3. CASE \E e \in Envs : WriteAppend(e)
  BY <1>1, <1>3, AheadNew DEF NothingStoredIsLost
<1> QED
  BY <1>2, <1>3, HistoryGrows

-----------------------------------------------------------------------------
(* Without I/O errors *)

\* The count of faults never decreases.
LEMMA FaultsCounted ==
  ASSUME FTypeOK, FStep, faults' = 0
  PROVE  faults = 0 /\ ~Fault
<1>1. UNCHANGED faults \/ faults' = faults + 1
  BY WriteCases DEF FStep, Fault, RotateStep, RotateRename, RotateFails,
     RotatePrune, RotatePruneFails, PeekStep, PeekOpen, PeekNothing,
     PeekRecord, PeekSkip, PeekScanError, PeekEOF, PeekEOFFails, Close, Crash,
     NewFallbackWriter, NewFallbackWriterFails, WriteAppend
<1>2. faults \in Nat
  BY BoundsAssumption DEF FTypeOK
<1> QED
  BY <1>1, <1>2 DEF Fault

\* Without I/O errors the descriptor stays usable, the metric exact and every .log
\* file but the active one renamed.
LEMMA FaultFreeStep ==
  ASSUME FTypeOK, Handles, FaultFree, NoStrandedLog, FStep
  PROVE  FaultFree' /\ NoStrandedLog'
<1>0. Handles' /\ None \notin Ts
  BY HandlesStep, BoundsAssumption DEF Ts, None
<1>1. CASE faults' # 0
  BY <1>1 DEF FaultFree, NoStrandedLog
<1>2. CASE faults' = 0
  <2>0. faults = 0
    BY <1>2, FaultsCounted
  <2>1. /\ fdOpen
        /\ phase = "up" /\ op # "prune" => filesGauge = Cardinality(Done)
        /\ phase = "up" => \A t \in Ts : kind[t] = "log" => t = current
    BY <2>0 DEF FaultFree, NoStrandedLog
  <2>2. ~Fault
    BY <1>2, FaultsCounted
  <2>3. ASSUME fdOpen', phase' # "up"
        PROVE  FaultFree' /\ NoStrandedLog'
    BY <2>3 DEF FaultFree, NoStrandedLog
  <2>4. ASSUME UNCHANGED <<kind, current, fdOpen, filesGauge, phase>>,
               op' = "prune" \/ op # "prune"
        PROVE  FaultFree' /\ NoStrandedLog'
    BY <2>1, <2>4 DEF FaultFree, NoStrandedLog, Done
  <2>5. ASSUME NEW e \in Envs, WriteStep(e)
        PROVE  FaultFree' /\ NoStrandedLog'
    <3>1. WriteAppend(e)
      BY <2>0, <2>1, <2>2, <2>5 DEF WriteStep, WriteOpenFails, WriteFails
    <3>2. Target \in Ts
      BY <3>1, TargetIsFile DEF WriteAppend
    <3>3. kind[Target] # "done"
      BY <3>2 DEF Handles, Target, FTypeOK
    <3>4. kind' = [kind EXCEPT ![Target] = "log"] /\ current' = Target
      BY <3>1 DEF WriteAppend, AppendTo
    <3>5. Done' = Done
      BY <3>2, <3>3, <3>4 DEF Done, FTypeOK
    <3>6. \A t \in Ts : kind'[t] = "log" => t = current'
      <4>1. \A t \in Ts : t # Target => kind'[t] = kind[t]
        BY <3>4 DEF FTypeOK
      <4> QED
        BY <1>0, <2>1, <3>1, <3>4, <4>1 DEF WriteAppend, Target
    <3>7. fdOpen' /\ filesGauge' = filesGauge /\ phase = "up" /\ op = "none"
      BY <2>1, <3>1 DEF WriteAppend
    <3> QED
      BY <2>1, <3>5, <3>6, <3>7 DEF FaultFree, NoStrandedLog
  <2>6. CASE RotateRename
    BY <2>1, <2>6 DEF RotateRename, FaultFree, NoStrandedLog, FTypeOK
  <2>7. CASE RotateFails \/ RotatePruneFails \/ PeekEOFFails \/ NewFallbackWriterFails
    BY <2>2, <2>7 DEF RotateFails, RotatePruneFails, PeekEOFFails, NewFallbackWriterFails
  <2>8. CASE RotatePrune
    <3>1. Done' = Done \ Over
      BY <2>8 DEF RotatePrune, Done, Over, FTypeOK
    <3>2. \A t \in Ts : kind'[t] = "log" => t = current'
      BY <2>1, <2>8 DEF RotatePrune
    <3> QED
      BY <2>1, <2>8, <3>1, <3>2 DEF RotatePrune, FaultFree, NoStrandedLog
  <2>9. CASE PeekOpen \/ PeekNothing \/ PeekSkip \/ PeekScanError
             \/ \E e \in Envs : PeekRecord(e)
    BY <2>4, <2>9 DEF PeekOpen, PeekNothing, PeekSkip, PeekScanError, PeekRecord,
                      disk, Peeking
  <2>10. CASE PeekEOF
    <3>1. Done' = Done \ {peek.file}
      BY <2>10 DEF PeekEOF, Done, FTypeOK
    <3>2. \A t \in Ts : kind'[t] = "log" => t = current'
      BY <2>1, <2>10 DEF PeekEOF, Peeking, FTypeOK
    <3> QED
      BY <2>1, <2>10, <3>1, <3>2 DEF PeekEOF, FaultFree, NoStrandedLog
  <2>11. CASE Close \/ Crash
    BY <2>3, <2>11 DEF Close, Crash
  <2>12. CASE NewFallbackWriter
    <3>1. Done' = {t \in Ts : kind[t] # "absent"}
      BY <2>12 DEF NewFallbackWriter, Done, FTypeOK
    <3>2. \A t \in Ts : kind'[t] # "log"
      BY <2>12 DEF NewFallbackWriter, FTypeOK
    <3> QED
      BY <2>1, <2>12, <3>1, <3>2 DEF NewFallbackWriter, FaultFree, NoStrandedLog
  <2> QED
    BY <2>5, <2>6, <2>7, <2>8, <2>9, <2>10, <2>11, <2>12
       DEF FStep, RotateStep, PeekStep
<1> QED
  BY <1>1, <1>2

-----------------------------------------------------------------------------
(* The writer, whoever calls it *)

\* FInv holds when the program starts.
LEMMA FInvInit == FInit => FInv
<1> SUFFICES ASSUME FInit PROVE FInv
  OBVIOUS
<1>1. FTypeOK /\ Handles
  BY TypeInit, HandlesInit
<1>2. Done = {}
  BY DEF FInit, Done
<1>3. Cardinality({}) = 0
  BY FS_EmptySet
<1>4. Scanned /\ NothingStoredIsLost /\ FaultFree /\ NoStrandedLog
  BY <1>2, <1>3 DEF FInit, Scanned, NothingStoredIsLost, Stored, FaultFree,
                    NoStrandedLog
<1> QED
  BY <1>1, <1>4 DEF FInv

\* FInv is kept by every operation, whoever calls it.
LEMMA FInvStep ==
  ASSUME FInv, FStep
  PROVE  FInv'
BY TypeStep, HandlesStep, ScannedStep, LostStep, FaultFreeStep DEF FInv

\* Only the variables of the writer matter.
LEMMA FInvStutter ==
  ASSUME FInv, UNCHANGED fvars
  PROVE  FInv'
BY DEF FInv, FTypeOK, Handles, Scanned, NothingStoredIsLost, Stored, Ahead,
       FaultFree, NoStrandedLog, Done, fvars, disk, memory, history

\* What FInv says of the writer when f.mu is free.
LEMMA GaugeFromFInv == FInv => FilesGaugeExact
BY DEF FInv, FaultFree, FilesGaugeExact

-----------------------------------------------------------------------------
(* The order of replay *)

\* The operations, each envelope being written at most once.
OStep ==
  \/ \E e \in Envs \ offered : WriteStep(e)
  \/ RotateStep
  \/ PeekStep
  \/ Close \/ Crash \/ NewFallbackWriter \/ NewFallbackWriterFails

\* So the lemmas above apply.
LEMMA OStepIsFStep == OStep => FStep
BY DEF OStep, FStep

\* What a Write does to the files, in terms of the lines in them: at most one
\* more, at the end of the newest file.
LEMMA OneMoreLine ==
  ASSUME FTypeOK, Handles, NEW e \in Envs, WriteStep(e)
  PROVE  \/ UNCHANGED lines
         \/ /\ Target \in Ts
            /\ \A t \in Ts : t # Target => lines'[t] = lines[t]
            /\ \E x \in {Garbage, e} : AppendTo(Target, <<x>>)
            /\ \A t \in Ts : Len(lines[t]) > 0 => t <= Target
<1>0. Ts \subseteq Nat
  BY BoundsAssumption DEF Ts
<1>1. ASSUME Target \in Ts, NEW x \in {Garbage, e}, AppendTo(Target, <<x>>)
      PROVE  /\ \A t \in Ts : t # Target => lines'[t] = lines[t]
             /\ \A t \in Ts : Len(lines[t]) > 0 => t <= Target
  <2>1. \A t \in Ts : t # Target => lines'[t] = lines[t]
    BY <1>1 DEF AppendTo, FTypeOK
  <2>2. nextTs \in Nat
    BY BoundsAssumption DEF FTypeOK
  <2>3. ASSUME NEW t \in Ts, Len(lines[t]) > 0
        PROVE  t < nextTs
    BY <1>0, <2>2, <2>3 DEF Handles
  <2>4. Target = nextTs \/ nextTs = Target + 1
    BY DEF Target, Handles
  <2>5. ASSUME NEW t \in Ts, Len(lines[t]) > 0
        PROVE  t <= Target
    <3>1. t \in Nat /\ Target \in Nat /\ t < nextTs
      BY <1>0, <1>1, <2>3, <2>5
    <3> QED
      BY <2>2, <2>4, <3>1
  <2> QED
    BY <2>1, <2>5
<1>2. CASE WriteAppend(e)
  BY <1>1, <1>2, TargetIsFile DEF WriteAppend
<1>3. CASE WriteOpenFails(e)
  BY <1>3 DEF WriteOpenFails, disk
<1>4. CASE WriteFails(e)
  <2>1. Target \in Ts
    BY <1>4, TargetIsFile DEF WriteFails
  <2>2. CASE AppendTo(Target, <<>>)
    <3>1. lines[Target] \o <<>> = lines[Target]
      <4>1. lines[Target] \in Seq(Line)
        BY <2>1 DEF FTypeOK, Line
      <4> QED
        BY <4>1, ConcatEmptySeq
    <3> QED
      BY <2>1, <2>2, <3>1 DEF AppendTo, FTypeOK
  <2> QED
    BY <1>1, <1>4, <2>1, <2>2 DEF WriteFails, disk
<1> QED
  BY <1>2, <1>3, <1>4 DEF WriteStep

\* Known is kept: an append is the only source of lines.
LEMMA KnownStep ==
  ASSUME FTypeOK, Handles, Known, OStep
  PROVE  Known'
<1>0. FTypeOK' /\ FStep
  BY TypeStep, OStepIsFStep
<1>1. ASSUME NEW t \in Ts
      PROVE  /\ Len(lines[t]) \in Nat
             /\ Len(lines'[t]) \in Nat
  <2>1. Len(lines[t]) \in Nat
    BY DEF FTypeOK
  <2>2. Len(lines'[t]) \in Nat
    BY <1>0 DEF FTypeOK
  <2> QED
    BY <2>1, <2>2
<1>2. ASSUME NEW e \in Envs \ offered, WriteStep(e)
      PROVE  Known'
  <2>1. offered' = offered \union {e} /\ handed' = handed
    BY <1>2, WriteCases
  <2>2. ASSUME NEW t \in Ts, NEW k \in 1..Len(lines'[t])
        PROVE  lines'[t][k] \in offered' \union {Garbage}
    <3>1. CASE UNCHANGED lines
      BY <2>1, <2>2, <3>1 DEF Known
    <3>2. ASSUME Target \in Ts, NEW x \in {Garbage, e}, AppendTo(Target, <<x>>),
                 t = Target
          PROVE  lines'[t][k] \in offered' \union {Garbage}
      <4>1. /\ Len(lines'[Target]) = Len(lines[Target]) + 1
            /\ lines'[Target][Len(lines[Target]) + 1] = x
        BY <3>2, AppendedLine DEF Line
      <4>2. CASE k = Len(lines[Target]) + 1
        BY <2>1, <3>2, <4>1, <4>2
      <4>3. CASE k \in 1..Len(lines[Target])
        <5>1. lines'[t][k] = lines[t][k]
          BY <1>0, <3>2, <4>3, LinesStay
        <5> QED
          BY <2>1, <3>2, <4>3, <5>1 DEF Known
      <4> QED
        BY <1>1, <2>2, <3>2, <4>1, <4>2, <4>3
    <3> QED
      BY <1>2, <2>1, <2>2, <3>1, <3>2, OneMoreLine DEF Known
  <2>3. Stored' \subseteq Stored \union {e}
    <3>1. stored' \in {stored, Append(stored, e)}
      BY <1>2, WriteCases DEF WriteAppend
    <3> QED
      BY <3>1 DEF Stored, FTypeOK
  <2>4. ASSUME NEW x \in Stored
        PROVE  \E t \in Ts : \E k \in 1..Len(lines'[t]) : lines'[t][k] = x
    <3>1. PICK t \in Ts : \E k \in 1..Len(lines[t]) : lines[t][k] = x
      BY DEF Known
    <3>2. PICK k \in 1..Len(lines[t]) : lines[t][k] = x
      BY <3>1
    <3>3. k \in 1..Len(lines'[t]) /\ lines'[t][k] = x
      BY <1>0, <1>1, <3>2, LinesStay
    <3> QED
      BY <3>3
  <2>5. WriteAppend(e) => \E t \in Ts : \E k \in 1..Len(lines'[t]) : lines'[t][k] = e
    <3> HAVE WriteAppend(e)
    <3>1. Target \in Ts /\ AppendTo(Target, <<e>>) /\ e \in Line
      BY TargetIsFile DEF WriteAppend, Line
    <3>2. /\ Len(lines'[Target]) = Len(lines[Target]) + 1
          /\ lines'[Target][Len(lines[Target]) + 1] = e
      BY <3>1, AppendedLine
    <3> QED
      BY <1>1, <3>1, <3>2
  <2>6. \A x \in Stored' : \E t \in Ts : \E k \in 1..Len(lines'[t]) : lines'[t][k] = x
    <3>1. CASE WriteAppend(e)
      BY <2>3, <2>4, <2>5, <3>1
    <3>2. CASE UNCHANGED stored
      BY <2>4, <3>2 DEF Stored
    <3> QED
      BY <1>2, <3>1, <3>2, WriteCases
  <2> QED
    BY <2>1, <2>2, <2>3, <2>6 DEF Known
<1>3. CASE UNCHANGED <<lines, offered, stored, handed>>
  BY <1>3 DEF Known, Stored
<1>4. ASSUME NEW e \in Envs, PeekRecord(e)
      PROVE  Known'
  <2>1. e \in offered
    <3>1. peek.file \in Ts /\ peek.pos + 1 \in 1..Len(lines[peek.file])
      BY <1>1, <1>4 DEF PeekRecord, HasLine, Handles, FTypeOK
    <3> QED
      BY <1>4, <3>1, EnvsAssumption DEF PeekRecord, NextLine, Known
  <2> QED
    BY <1>4, <2>1 DEF PeekRecord, disk, Known, Stored
<1>5. CASE RotateStep
  BY <1>3, <1>5 DEF RotateStep, RotateRename, RotateFails, RotatePrune,
                    RotatePruneFails, disk, history
<1>6. CASE PeekStep
  BY <1>3, <1>4, <1>6 DEF PeekStep, PeekOpen, PeekNothing, PeekSkip, PeekScanError,
                          PeekEOF, PeekEOFFails, disk, history
<1>7. CASE Close \/ Crash \/ NewFallbackWriter \/ NewFallbackWriterFails
  BY <1>3, <1>7 DEF Close, Crash, NewFallbackWriter, NewFallbackWriterFails, disk, history
<1> QED
  BY <1>2, <1>5, <1>6, <1>7 DEF OStep

\* Without I/O errors the only way to touch the lines is to append an envelope
\* nobody has seen, as the last line of the newest file.
LEMMA NewOrOld ==
  ASSUME FInv, Known, NEW e \in Envs \ offered, WriteStep(e), faults' = 0
  PROVE  /\ WriteAppend(e) /\ Target \in Ts
         /\ \A t \in Ts : \A k \in 1..Len(lines'[t]) :
              \/ k \in 1..Len(lines[t]) /\ lines'[t][k] = lines[t][k] /\ lines[t][k] # e
              \/ t = Target /\ k = Len(lines[Target]) + 1 /\ lines'[t][k] = e
         /\ \A t \in Ts : Len(lines[t]) > 0 => t <= Target
         /\ stored' = Append(stored, e) /\ stored \in Seq(Envs)
         /\ \A i \in 1..Len(stored) : stored[i] # e
<1>0. FTypeOK /\ Handles /\ FStep
  BY DEF FInv, FStep
<1>1. WriteAppend(e)
  <2>1. fdOpen /\ ~Fault
    BY <1>0, FaultsCounted DEF FInv, FaultFree
  <2> QED
    BY <2>1 DEF WriteStep, WriteOpenFails, WriteFails
<1>2. Target \in Ts /\ AppendTo(Target, <<e>>) /\ e \in Line
  BY <1>0, <1>1, TargetIsFile DEF WriteAppend, Line
<1>3. /\ Len(lines'[Target]) = Len(lines[Target]) + 1
      /\ lines'[Target][Len(lines[Target]) + 1] = e
  BY <1>0, <1>2, AppendedLine
<1>4. \A t \in Ts : Len(lines[t]) \in Nat
  BY <1>0 DEF FTypeOK
<1>5. \A t \in Ts : \A k \in 1..Len(lines[t]) :
        lines'[t][k] = lines[t][k] /\ lines[t][k] # e
  BY <1>0, LinesStay, EnvsAssumption DEF Known
<1>6. \A t \in Ts : t # Target => lines'[t] = lines[t]
  BY <1>0, <1>2 DEF AppendTo, FTypeOK
<1>7. \A t \in Ts : Len(lines[t]) > 0 => t <= Target
  <2>1. UNCHANGED lines => FALSE
    BY <1>2, <1>3, <1>4
  <2> QED
    BY <1>0, <2>1, OneMoreLine
<1>8. ASSUME NEW t \in Ts, NEW k \in 1..Len(lines'[t])
      PROVE  \/ k \in 1..Len(lines[t]) /\ lines'[t][k] = lines[t][k] /\ lines[t][k] # e
             \/ t = Target /\ k = Len(lines[Target]) + 1 /\ lines'[t][k] = e
  <2>1. CASE t # Target
    BY <1>5, <1>6, <1>8, <2>1
  <2>2. CASE t = Target
    <3>1. k \in 1..Len(lines[t]) \/ k = Len(lines[t]) + 1
      BY <1>3, <1>4, <1>8, <2>2
    <3> QED
      BY <1>3, <1>5, <2>2, <3>1
  <2> QED
    BY <2>1, <2>2
<1>9. stored' = Append(stored, e) /\ stored \in Seq(Envs)
  BY <1>0, <1>1 DEF WriteAppend, FTypeOK
<1>10. \A i \in 1..Len(stored) : stored[i] # e
  BY DEF Known, Stored
<1> QED
  BY <1>1, <1>2, <1>7, <1>8, <1>9, <1>10

\* Sorted is kept: an append goes behind every line there is.
LEMMA SortedStep ==
  ASSUME FInv, Known, Sorted, OStep
  PROVE  Sorted'
<1> SUFFICES ASSUME faults' = 0
             PROVE  Sorted'
  BY DEF Sorted
<1>0. FTypeOK /\ FStep
  BY OStepIsFStep DEF FInv
<1>1. faults = 0
  BY <1>0, FaultsCounted
<1>2. CASE UNCHANGED <<lines, stored>>
  BY <1>1, <1>2 DEF Sorted, Stored
<1>3. ASSUME NEW e \in Envs \ offered, WriteStep(e)
      PROVE  Sorted'
  <2>1. \A t \in Ts : \A k \in 1..Len(lines'[t]) : 
          \/ k \in 1..Len(lines[t]) /\ lines'[t][k] = lines[t][k] /\ lines[t][k] # e
          \/ t = Target /\ k = Len(lines[Target]) + 1 /\ lines'[t][k] = e
    BY <1>3, NewOrOld
  <2>2. \A t \in Ts : Len(lines[t]) > 0 => t <= Target
    BY <1>3, NewOrOld
  <2>3. /\ Len(stored) \in Nat /\ Len(stored') = Len(stored) + 1
        /\ \A i \in 1..Len(stored) : stored'[i] = stored[i] /\ stored[i] # e
        /\ stored'[Len(stored) + 1] = e
    <3>1. stored' = Append(stored, e) /\ stored \in Seq(Envs)
      BY <1>3, NewOrOld
    <3>2. \A i \in 1..Len(stored) : stored[i] # e
      BY <1>3, NewOrOld
    <3> QED
      BY <3>1, <3>2
  <2>4. \A t \in Ts : \A k \in 1..Len(lines'[t]) : lines'[t][k] \in Stored'
    <3>1. Stored \union {e} \subseteq Stored'
      BY <2>3 DEF Stored
    <3> QED
      BY <1>1, <2>1, <3>1 DEF Sorted
  <2>5. ASSUME NEW i \in 1..Len(stored'), NEW j \in 1..Len(stored'), i <= j,
               NEW t \in Ts, NEW u \in Ts,
               NEW k \in 1..Len(lines'[t]), NEW l \in 1..Len(lines'[u]),
               lines'[t][k] = stored'[i], lines'[u][l] = stored'[j]
        PROVE  Before(t, k, u, l)
    <3>0. Ts \subseteq Nat /\ Len(lines[t]) \in Nat /\ Len(lines[u]) \in Nat /\ Target \in Ts
      <4>1. Target \in Ts
        BY <1>3, NewOrOld
      <4>2. Len(lines[t]) \in Nat /\ Len(lines[u]) \in Nat
        BY <1>0 DEF FTypeOK
      <4> QED
        BY <4>1, <4>2, BoundsAssumption DEF Ts
    <3>1. CASE j \in 1..Len(stored)
      <4>1. i \in 1..Len(stored)
        BY <2>3, <2>5, <3>1
      <4>2. /\ k \in 1..Len(lines[t]) /\ lines[t][k] = stored[i]
            /\ l \in 1..Len(lines[u]) /\ lines[u][l] = stored[j]
        BY <2>1, <2>3, <2>5, <3>1, <4>1
      <4> QED
        BY <1>1, <2>5, <3>1, <4>1, <4>2 DEF Sorted
    <3>2. CASE j = Len(stored) + 1
      <4>1. u = Target /\ l = Len(lines[Target]) + 1
        BY <2>1, <2>3, <2>5, <3>2
      <4>2. CASE i \in 1..Len(stored)
        <5>1. k \in 1..Len(lines[t])
          BY <2>1, <2>3, <2>5, <4>2
        <5>2. t <= Target
          BY <2>2, <3>0, <5>1
        <5> QED
          BY <3>0, <4>1, <5>1, <5>2 DEF Before
      <4>3. CASE i = Len(stored) + 1
        <5>1. t = Target /\ k = Len(lines[Target]) + 1
          BY <2>1, <2>3, <2>5, <4>3
        <5> QED
          BY <3>0, <4>1, <5>1 DEF Before
      <4> QED
        BY <2>3, <2>5, <4>2, <4>3
    <3> QED
      BY <2>3, <2>5, <3>1, <3>2
  <2> QED
    BY <2>4, <2>5 DEF Sorted
<1>4. CASE RotateStep
  BY <1>2, <1>4 DEF RotateStep, RotateRename, RotateFails, RotatePrune,
                    RotatePruneFails, disk, history
<1>5. CASE PeekStep
  BY <1>2, <1>5 DEF PeekStep, PeekOpen, PeekNothing, PeekRecord, PeekSkip,
                    PeekScanError, PeekEOF, PeekEOFFails, disk, history
<1>6. CASE Close \/ Crash \/ NewFallbackWriter \/ NewFallbackWriterFails
  BY <1>2, <1>6 DEF Close, Crash, NewFallbackWriter, NewFallbackWriterFails, disk, history
<1> QED
  BY <1>3, <1>4, <1>5, <1>6 DEF OStep

\* Gone is kept: a file leaves the directory after its last line was handed out, or
\* pruned, and the scanner opens the oldest file left.
LEMMA GoneStep ==
  ASSUME FInv, Known, Sorted, Gone, OStep
  PROVE  Gone'
<1> SUFFICES ASSUME faults' = 0
             PROVE  Gone'
  BY DEF Gone
<1>0. FTypeOK /\ Handles /\ Scanned /\ NoStrandedLog /\ FStep
  BY OStepIsFStep DEF FInv
<1>1. faults = 0 /\ ~Fault
  BY <1>0, FaultsCounted
<1>2. Ts \subseteq Nat /\ None \notin Ts /\ nextTs \in Nat
  <2>1. nextTs \in Nat
    BY <1>0, BoundsAssumption DEF FTypeOK
  <2> QED
    BY <2>1, BoundsAssumption DEF Ts, None
<1>3. \A t \in Ts : \A k \in 1..Len(lines[t]) : lines[t][k] \in Envs /\ lines[t][k] # Garbage
  <2>1. Stored \subseteq Envs
    BY <1>0 DEF Stored, FTypeOK
  <2> QED
    BY <1>1, <2>1, EnvsAssumption DEF Sorted
<1>4. /\ \A t \in Ts : kind[t] = "absent" =>
           \A k \in 1..Len(lines[t]) : lines[t][k] \in handed \union pruned
      /\ peek # NoPeek => \A t \in Ts : t < peek.file => kind[t] = "absent"
  BY <1>1 DEF Gone
\* The scanner's file is older than the active one and than any new one.
<1>5. peek # NoPeek => peek.file < nextTs /\ (current # None => peek.file < current)
  <2> HAVE peek # NoPeek
  <2>1. peek.file \in Ts /\ peek.file < nextTs /\ kind[peek.file] # "log"
    BY <1>0 DEF Handles
  <2>2. current # None => peek.file < current
    <3> HAVE current # None
    <3>1. current \in Ts /\ nextTs = current + 1 /\ current # peek.file
      BY <1>0, <2>1 DEF Handles, FTypeOK
    <3>2. current \in Nat /\ peek.file \in Nat
      BY <1>2, <2>1, <3>1
    <3> QED
      BY <2>1, <3>1, <3>2
  <2> QED
    BY <2>1, <2>2
<1>6. ASSUME UNCHANGED lines, handed \subseteq handed', pruned \subseteq pruned',
             \A t \in Ts : kind'[t] = "absent" /\ kind[t] # "absent" =>
               \A k \in 1..Len(lines[t]) : lines[t][k] \in handed' \union pruned',
             peek' # NoPeek => \A t \in Ts : t < peek'.file => kind'[t] = "absent"
      PROVE  Gone'
  BY <1>4, <1>6 DEF Gone
<1>7. ASSUME NEW e \in Envs \ offered, WriteStep(e)
      PROVE  Gone'
  <2>1. WriteAppend(e) /\ Target \in Ts
    BY <1>7, NewOrOld
  <2>2. \A t \in Ts : t # Target => lines'[t] = lines[t] /\ kind'[t] = kind[t]
    BY <1>0, <2>1 DEF WriteAppend, AppendTo, FTypeOK
  <2>3. kind'[Target] = "log" /\ UNCHANGED <<peek, handed, pruned>>
    BY <1>0, <2>1 DEF WriteAppend, AppendTo, FTypeOK
  <2>4. ASSUME peek # NoPeek, NEW t \in Ts, t < peek.file
        PROVE  t # Target
    <3>1. peek.file \in Ts
      BY <1>0, <2>4 DEF Handles
    <3>2. t \in Nat /\ peek.file \in Nat /\ Target \in Nat
      BY <1>2, <2>1, <3>1
    <3>3. peek.file < Target
      BY <1>5, <2>4 DEF Target
    <3> QED
      BY <2>4, <3>2, <3>3
  <2> QED
    BY <1>4, <2>2, <2>3, <2>4 DEF Gone
<1>8. CASE RotateRename
  <2>1. current # None /\ current \in Ts
    BY <1>0, <1>8 DEF RotateRename, Handles, FTypeOK
  <2>2. /\ kind'[current] = "done"
        /\ \A t \in Ts : t # current => kind'[t] = kind[t]
    BY <1>0, <1>8, <2>1 DEF RotateRename, FTypeOK
  <2>3. ASSUME peek # NoPeek, NEW t \in Ts, t < peek.file
        PROVE  t # current
    <3>1. peek.file \in Ts
      BY <1>0, <2>3 DEF Handles
    <3>2. t \in Nat /\ peek.file \in Nat /\ current \in Nat
      BY <1>2, <2>1, <3>1
    <3>3. peek.file < current
      BY <1>5, <2>1, <2>3
    <3> QED
      BY <2>3, <3>2, <3>3
  <2>4. UNCHANGED <<lines, peek, handed, pruned>>
    BY <1>8 DEF RotateRename, history
  <2> QED
    BY <1>4, <1>6, <2>2, <2>3, <2>4
<1>9. CASE RotatePrune
  <2>1. \A t \in Ts : kind'[t] = IF t \in Over THEN "absent" ELSE kind[t]
    BY <1>9 DEF RotatePrune
  <2>2. \A t \in Over : \A k \in 1..Len(lines[t]) : lines[t][k] \in EnvsIn(Over)
    BY <1>3 DEF EnvsIn, Over, Done
  <2>3. pruned' = pruned \union EnvsIn(Over) /\ UNCHANGED <<lines, peek, handed>>
    BY <1>9 DEF RotatePrune
  <2> QED
    BY <1>4, <1>6, <2>1, <2>2, <2>3
<1>10. CASE PeekOpen
  <2>1. Done \in SUBSET Ts /\ Done # {}
    BY <1>10 DEF PeekOpen, Done
  <2>2. Oldest(Done) \in Done /\ \A u \in Done : Oldest(Done) <= u
    BY <2>1, OldestIsFirst
  <2>3. Oldest(Done) \in Ts /\ kind[Oldest(Done)] = "done"
    BY <2>2 DEF Done
  <2>4. ASSUME NEW t \in Ts, t < Oldest(Done)
        PROVE  kind[t] = "absent"
    <3>0. t \in Nat /\ Oldest(Done) \in Nat
      BY <1>2, <2>3
    <3>1. kind[t] # "done"
      <4>1. t \notin Done
        BY <2>2, <2>4, <3>0
      <4> QED
        BY <4>1 DEF Done
    <3>2. kind[t] # "log"
      <4>1. SUFFICES ASSUME kind[t] = "log" PROVE FALSE
        OBVIOUS
      <4>2. t = current /\ nextTs = t + 1
        BY <1>0, <1>1, <1>2, <1>10, <4>1 DEF NoStrandedLog, PeekOpen, Peeking, Handles
      <4>3. ~(Oldest(Done) >= nextTs)
        BY <1>0, <2>3 DEF Handles
      <4> QED
        BY <1>2, <2>4, <3>0, <4>2, <4>3
    <3> QED
      BY <1>0, <3>1, <3>2 DEF FTypeOK
  <2>5. peek'.file = Oldest(Done) /\ UNCHANGED <<kind, lines, handed, pruned>>
    BY <1>10 DEF PeekOpen, disk, history
  <2> QED
    BY <1>6, <2>4, <2>5
<1>11. CASE PeekNothing
  BY <1>4, <1>6, <1>11 DEF PeekNothing, disk, history
<1>12. ASSUME peek # NoPeek, peek' = [peek EXCEPT !.pos = @ + 1],
              handed \subseteq handed', UNCHANGED <<kind, lines, pruned>>
       PROVE  Gone'
  <2>1. peek'.file = peek.file
    BY <1>0, <1>12, PeekAdvances DEF FTypeOK
  <2> QED
    BY <1>4, <1>6, <1>12, <2>1
<1>13. CASE PeekSkip
  BY <1>12, <1>13 DEF PeekSkip, HasLine, disk, history
<1>14. ASSUME NEW e \in Envs, PeekRecord(e)
       PROVE  Gone'
  BY <1>12, <1>14 DEF PeekRecord, HasLine, disk
<1>15. CASE PeekScanError
  BY <1>4, <1>6, <1>15 DEF PeekScanError, disk, history
<1>16. CASE PeekEOF
  <2>1. peek # NoPeek /\ peek.file \in Ts /\ peek.pos \in 0..Len(lines[peek.file])
    BY <1>0, <1>16 DEF PeekEOF, Handles
  <2>2. Len(lines[peek.file]) \in Nat
    BY <1>0, <2>1 DEF FTypeOK
  <2>3. \A k \in 1..Len(lines[peek.file]) : lines[peek.file][k] \in handed
    <3>1. peek.pos = Len(lines[peek.file])
      BY <1>16, <2>1, <2>2 DEF PeekEOF, HasLine
    <3> QED
      BY <1>0, <1>3, <2>1, <3>1 DEF Scanned
  <2>4. \A t \in Ts : kind'[t] = "absent" /\ kind[t] # "absent" => t = peek.file
    BY <1>0, <1>16 DEF PeekEOF, FTypeOK
  <2> QED
    BY <1>6, <1>16, <2>3, <2>4 DEF PeekEOF, history
<1>17. CASE Close
  BY <1>0, <1>6, <1>17 DEF Close, history, FTypeOK
<1>18. CASE Crash
  BY <1>6, <1>18 DEF Crash, disk, history
<1>19. CASE NewFallbackWriter
  BY <1>0, <1>6, <1>19 DEF NewFallbackWriter, history, Handles
<1>20. CASE RotateFails \/ RotatePruneFails \/ PeekEOFFails \/ NewFallbackWriterFails
  BY <1>1, <1>20 DEF RotateFails, RotatePruneFails, PeekEOFFails, NewFallbackWriterFails
<1> QED
  BY <1>7, <1>8, <1>9, <1>10, <1>11, <1>13, <1>14, <1>15, <1>16, <1>17, <1>18,
     <1>19, <1>20 DEF OStep, RotateStep, PeekStep

\* Replayed is kept: when a line is handed out, those before it are behind the
\* scanner or in files that are gone.
LEMMA ReplayedStep ==
  ASSUME FInv, Known, Sorted, Gone, Replayed, OStep
  PROVE  Replayed'
<1> SUFFICES ASSUME faults' = 0
             PROVE  Replayed'
  BY DEF Replayed
<1>0. FTypeOK /\ Handles /\ Scanned /\ FStep
  BY OStepIsFStep DEF FInv
<1>1. faults = 0 /\ Ts \subseteq Nat
  BY <1>0, FaultsCounted, BoundsAssumption DEF Ts
<1>2. \A t \in Ts : Len(lines[t]) \in Nat
  BY <1>0 DEF FTypeOK
<1>3. CASE UNCHANGED <<lines, handed>> /\ pruned \subseteq pruned'
  BY <1>1, <1>3 DEF Replayed
<1>4. ASSUME NEW e \in Envs \ offered, WriteStep(e)
      PROVE  Replayed'
  <2>1. \A t \in Ts : \A k \in 1..Len(lines'[t]) :
          \/ k \in 1..Len(lines[t]) /\ lines'[t][k] = lines[t][k] /\ lines[t][k] # e
          \/ t = Target /\ k = Len(lines[Target]) + 1 /\ lines'[t][k] = e
    BY <1>4, NewOrOld
  <2>2. \A t \in Ts : Len(lines[t]) > 0 => t <= Target
    BY <1>4, NewOrOld
  <2>3. e \notin handed /\ UNCHANGED <<handed, pruned>> /\ Target \in Ts
    BY <1>4, NewOrOld DEF Known, WriteAppend
  <2>4. ASSUME NEW t \in Ts, NEW u \in Ts,
               NEW k \in 1..Len(lines'[t]), NEW l \in 1..Len(lines'[u]),
               lines'[u][l] \in handed', Before(t, k, u, l)
        PROVE  lines'[t][k] \in handed' \union pruned'
    <3>1. l \in 1..Len(lines[u]) /\ lines'[u][l] = lines[u][l]
      BY <2>1, <2>3, <2>4
    <3>2. u <= Target
      BY <1>2, <2>2, <3>1
    <3>3. ~(t = Target /\ k = Len(lines[Target]) + 1)
      BY <1>1, <1>2, <2>3, <2>4, <3>1, <3>2 DEF Before
    <3>4. k \in 1..Len(lines[t]) /\ lines'[t][k] = lines[t][k]
      BY <2>1, <3>3
    <3> QED
      BY <1>1, <2>3, <2>4, <3>1, <3>4 DEF Replayed
  <2> QED
    BY <2>4 DEF Replayed
<1>5. ASSUME NEW e \in Envs, PeekRecord(e)
      PROVE  Replayed'
  <2> DEFINE f == peek.file
             p == peek.pos + 1
  <2>1. f \in Ts /\ p \in 1..Len(lines[f]) /\ lines[f][p] = e /\ peek # NoPeek
    BY <1>0, <1>2, <1>5 DEF PeekRecord, HasLine, NextLine, Handles, FTypeOK
  <2>2. handed' = handed \union {e} /\ UNCHANGED <<lines, pruned>>
    BY <1>5 DEF PeekRecord, disk
  <2>3. e \in Stored
    BY <1>1, <2>1 DEF Sorted
  <2>4. PICK i \in 1..Len(stored) : stored[i] = e
    BY <2>3 DEF Stored
  <2>5. Len(stored) \in Nat
    BY <1>0 DEF FTypeOK
  \* The envelope has no other line.
  <2>6. ASSUME NEW u \in Ts, NEW l \in 1..Len(lines[u]), lines[u][l] = e
        PROVE  u = f /\ l = p
    <3>1. i <= i
      BY <2>5
    <3>2. Before(u, l, f, p) /\ Before(f, p, u, l)
      BY <1>1, <2>1, <2>4, <2>6, <3>1 DEF Sorted
    <3>3. u \in Nat /\ f \in Nat /\ l \in Nat /\ p \in Nat
      <4>1. u \in Nat /\ f \in Nat
        BY <1>1, <2>1
      <4>2. p \in Nat
        BY <1>0 DEF FTypeOK
      <4>3. l \in Nat
        BY <1>2
      <4> QED
        BY <4>1, <4>2, <4>3
    <3> QED
      BY <3>2, <3>3 DEF Before
  <2>7. ASSUME NEW t \in Ts, NEW k \in 1..Len(lines[t]), Before(t, k, f, p)
        PROVE  lines[t][k] \in handed' \union pruned
    <3>1. CASE t < f
      BY <1>1, <2>1, <2>2, <2>7, <3>1 DEF Gone
    <3>2. CASE t = f /\ k = p
      BY <2>1, <2>2, <3>2
    <3>3. CASE t = f /\ k <= peek.pos
      <4>1. k \in 1..peek.pos
        BY <1>0, <1>2, <3>3 DEF FTypeOK
      <4>2. lines[t][k] \in handed \union {Garbage}
        BY <1>0, <2>1, <3>3, <4>1 DEF Scanned
      <4>3. lines[t][k] \in Stored /\ Stored \subseteq Envs
        BY <1>0, <1>1 DEF Sorted, Stored, FTypeOK
      <4> QED
        BY <2>2, <4>2, <4>3, EnvsAssumption
    <3>4. t < f \/ (t = f /\ (k = p \/ k <= peek.pos))
      BY <1>0, <1>1, <1>2, <2>7 DEF Before, FTypeOK
    <3> QED
      BY <3>1, <3>2, <3>3, <3>4
  <2>8. ASSUME NEW t \in Ts, NEW u \in Ts,
               NEW k \in 1..Len(lines[t]), NEW l \in 1..Len(lines[u]),
               lines[u][l] \in handed', Before(t, k, u, l)
        PROVE  lines[t][k] \in handed' \union pruned
    <3>1. CASE lines[u][l] = e
      BY <2>6, <2>7, <2>8, <3>1
    <3>2. CASE lines[u][l] \in handed
      BY <1>1, <2>2, <2>8, <3>2 DEF Replayed
    <3> QED
      BY <2>2, <2>8, <3>1, <3>2
  <2> QED
    BY <2>2, <2>8 DEF Replayed
<1>6. CASE RotateStep
  BY <1>3, <1>6 DEF RotateStep, RotateRename, RotateFails, RotatePrune,
                    RotatePruneFails, disk, history
<1>7. CASE PeekStep
  BY <1>3, <1>5, <1>7 DEF PeekStep, PeekOpen, PeekNothing, PeekSkip, PeekScanError,
                          PeekEOF, PeekEOFFails, disk, history
<1>8. CASE Close \/ Crash \/ NewFallbackWriter \/ NewFallbackWriterFails
  BY <1>3, <1>8 DEF Close, Crash, NewFallbackWriter, NewFallbackWriterFails, disk, history
<1> QED
  BY <1>4, <1>6, <1>7, <1>8 DEF OStep

\* What OInv says of the order: both envelopes have a line, and their lines are
\* in the order in which they were stored.
LEMMA OrderFromOInv == OInv => ReplayInOrder
<1> SUFFICES ASSUME OInv, faults = 0,
                    NEW j \in 1..Len(stored), stored[j] \in handed, NEW i \in 1..j
             PROVE  stored[i] \in handed \union pruned
  BY DEF ReplayInOrder
<1>1. i \in 1..Len(stored) /\ i <= j
  <2>1. Len(stored) \in Nat
    BY DEF OInv, FInv, FTypeOK
  <2> QED
    BY <2>1
<1>2. stored[i] \in Stored /\ stored[j] \in Stored
  BY <1>1 DEF Stored
<1>3. PICK u \in Ts : \E l \in 1..Len(lines[u]) : lines[u][l] = stored[j]
  BY <1>2 DEF OInv, Known
<1>4. PICK l \in 1..Len(lines[u]) : lines[u][l] = stored[j]
  BY <1>3
<1>5. PICK t \in Ts : \E k \in 1..Len(lines[t]) : lines[t][k] = stored[i]
  BY <1>2 DEF OInv, Known
<1>6. PICK k \in 1..Len(lines[t]) : lines[t][k] = stored[i]
  BY <1>5
<1>7. Before(t, k, u, l)
  BY <1>1, <1>4, <1>6 DEF OInv, Sorted
<1> QED
  BY <1>4, <1>6, <1>7 DEF OInv, Replayed

-----------------------------------------------------------------------------
(* The writer on its own *)

\* OInv holds throughout, wherever the process dies and whatever fails.
THEOREM Inductive == FSpec => []OInv
<1>1. FInit => OInv
  <2> SUFFICES ASSUME FInit PROVE OInv
    OBVIOUS
  <2>1. FInv
    BY FInvInit
  <2>2. \A t \in Ts : Len(lines[t]) = 0
    BY DEF FInit
  <2>3. Stored = {} /\ handed = {} /\ Len(stored) = 0 /\ peek = NoPeek
    BY DEF FInit, Stored
  <2>4. 1..0 = {}
    OBVIOUS
  <2> QED
    BY <2>1, <2>2, <2>3, <2>4 DEF OInv, Known, Sorted, Gone, Replayed
<1>2. OInv /\ [FNext]_fvars => OInv'
  <2> SUFFICES ASSUME OInv, [FNext]_fvars
               PROVE  OInv'
    OBVIOUS
  <2>1. CASE OStep
    <3>1. FInv'
      BY <2>1, OStepIsFStep, FInvStep DEF OInv
    <3> QED
      BY <2>1, <3>1, KnownStep, SortedStep, GoneStep, ReplayedStep DEF OInv, FInv
  <2>2. CASE UNCHANGED fvars
    <3>1. FInv'
      BY <2>2, FInvStutter DEF OInv
    <3> QED
      BY <2>2, <3>1 DEF OInv, Known, Sorted, Gone, Replayed, Stored, fvars, disk,
                        memory, history
  <2> QED
    BY <2>1, <2>2 DEF FNext, OStep
<1> QED
  BY <1>1, <1>2, PTL DEF FSpec

\* Every variable keeps its type; in particular rotate counts a line that Write
\* has appended as refused, never a torn one.
THEOREM TypeCorrect == FSpec => []FTypeOK
<1>1. OInv => FTypeOK
  BY DEF OInv, FInv
<1> QED
  BY <1>1, Inductive, PTL

\* An envelope whose line was written is in a file ahead of the scanner until
\* Peek hands it out or rotate prunes its file: over crashes between any two
\* file operations, failing operations and rescans.
THEOREM NothingLost == FSpec => []NothingStoredIsLost
<1>1. OInv => NothingStoredIsLost
  BY DEF OInv, FInv
<1> QED
  BY <1>1, Inductive, PTL

\* Without I/O errors Peek hands envelopes out, for the first time, in the order
\* in which Write appended them.
THEOREM InOrder == FSpec => []ReplayInOrder
BY Inductive, OrderFromOInv, PTL

\* Without I/O errors adoptStaleLogs, rotate and Close leave no .log file but
\* the active one.
THEOREM NoneStranded == FSpec => []NoStrandedLog
<1>1. OInv => NoStrandedLog
  BY DEF OInv, FInv
<1> QED
  BY <1>1, Inductive, PTL

\* Without I/O errors the files metric is the number of .log.done files when
\* f.mu is free.
THEOREM GaugeExact == FSpec => []FilesGaugeExact
<1>1. OInv => FilesGaugeExact
  BY GaugeFromFInv DEF OInv
<1> QED
  BY <1>1, Inductive, PTL

=============================================================================
