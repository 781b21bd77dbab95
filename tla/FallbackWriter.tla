--------------------------- MODULE FallbackWriter ---------------------------
(***************************************************************************)
(* internal/writer/fallback.go: envelopes appended as lines to <ts>.log,   *)
(* renamed to <ts>.log.done when full, pruned oldest first beyond          *)
(* maxFiles, and handed back one by one by Peek, which deletes a file when *)
(* its end is reached.                                                     *)
(*                                                                         *)
(* Each method runs under f.mu; a step is what happens between two points  *)
(* at which the process may die, and op says what the holder of f.mu is    *)
(* in the middle of.  Files survive a crash of the process; descriptors,   *)
(* the scanner and everything else in memory do not.                       *)
(*                                                                         *)
(* A line stands for its envelope, or is Garbage when it does not parse    *)
(* (module Pipeline shows that a line gives back the Kafka message it was  *)
(* written for).  Sizes are counted in lines.  Time stamps are assumed to  *)
(* increase strictly, also across restarts.  The configured maximum number *)
(* of files is not negative: Load lets a negative one through, and with it *)
(* the first rotate panics, indexing past the .done files (line 191).      *)
(***************************************************************************)
EXTENDS Naturals, FiniteSets, Sequences

CONSTANTS
  Envs,             \* envelopes handed to Write, each at most once
  Huge,             \* those whose line exceeds the scanner's 16 MB buffer
  Garbage,          \* a line torn by a failed write
  MaxFileSize,      \* lines per file before it is rotated
  MaxFiles,         \* .log.done files kept by rotate
  MaxTs,            \* bound: file names available
  MaxFaults,        \* bound: failing file operations
  MaxRestarts       \* bound: starts of the process after the first

ASSUME EnvsAssumption == Huge \subseteq Envs /\ Garbage \notin Envs
ASSUME SizesAssumption == MaxFileSize \in Nat \ {0} /\ MaxFiles \in Nat
ASSUME BoundsAssumption ==
  MaxTs \in Nat /\ MaxFaults \in Nat /\ MaxRestarts \in Nat

Ts == 1..MaxTs
None == 0           \* no file

VARIABLES
  kind,             \* directory: which name, if any, each file has
  lines,            \* contents of each file, readable after unlink by an open scanner
  nextTs,           \* time.Now().UnixNano()
  current,          \* f.current and f.currentPath
  fdOpen,           \* FALSE when rotate failed and left f.current closed
  peek,             \* f.peekState: the file and the lines already scanned
  op,               \* what runs under f.mu
  filesGauge,       \* the fallback files metric
  phase,            \* the process: up, closed by Close, or down after a crash
  faults, restarts, \* counters for the bounds
  offered,          \* history: envelopes passed to Write
  stored,           \* history: envelopes appended, in order
  refused,          \* history: envelopes whose Write returned an error
  pruned,           \* history: envelopes in files removed by rotate
  handed            \* history: envelopes returned by Peek

disk == <<kind, lines, nextTs>>
memory == <<current, fdOpen, peek, op, filesGauge>>
history == <<offered, stored, refused, pruned, handed>>
fvars == <<disk, memory, phase, faults, restarts, history>>

NoPeek == [file |-> None, pos |-> 0]

FInit ==
  /\ kind = [t \in Ts |-> "absent"]
  /\ lines = [t \in Ts |-> <<>>]
  /\ nextTs = 1
  /\ current = None
  /\ fdOpen = TRUE
  /\ peek = NoPeek
  /\ op = "none"
  /\ filesGauge = 0
  /\ phase = "up"
  /\ faults = 0
  /\ restarts = 0
  /\ offered = {}
  /\ stored = <<>>
  /\ refused = {}
  /\ pruned = {}
  /\ handed = {}

Done == {t \in Ts : kind[t] = "done"}

\* Faulty variants of definitions below, one plausible mistake each.  No
\* specification uses them: they are what the properties at the end of the
\* module must tell from the code.

\* listDoneFiles sorts the wrong way round.
Newest(S) == CHOOSE t \in S : \A u \in S : t >= u

\* Peek treats a scanner error like the end of the file.
DeleteOnScanError ==
  /\ phase = "up" /\ op \in {"none", "peek"}
  /\ peek # NoPeek
  /\ \/ /\ peek.pos < Len(lines[peek.file])
        /\ lines[peek.file][peek.pos + 1] \in Huge
        /\ UNCHANGED faults
     \/ faults < MaxFaults /\ faults' = faults + 1
  /\ kind' = [kind EXCEPT ![peek.file] = "absent"]
  /\ peek' = NoPeek
  /\ op' = "none"
  /\ UNCHANGED <<lines, nextTs, current, fdOpen, filesGauge, phase, restarts,
                 history>>

\* Peek deletes a drained file without refreshing the metric.
DeleteWithoutGauge ==
  /\ phase = "up" /\ op \in {"none", "peek"}
  /\ peek # NoPeek
  /\ peek.pos = Len(lines[peek.file])
  /\ kind' = [kind EXCEPT ![peek.file] = "absent"]
  /\ peek' = NoPeek
  /\ op' = "peek"
  /\ UNCHANGED <<lines, nextTs, current, fdOpen, filesGauge, phase, faults,
                 restarts, history>>

\* NewFallbackWriter leaves the files of the previous process as they are.
StartWithoutAdopting ==
  /\ phase # "up"
  /\ restarts < MaxRestarts
  /\ filesGauge' = Cardinality(Done)
  /\ phase' = "up"
  /\ restarts' = restarts + 1
  /\ UNCHANGED <<disk, current, fdOpen, peek, op, faults, history>>

\* adoptStaleLogs appends .done to every name, to .log.done too.
AdoptEverything ==
  /\ phase # "up"
  /\ restarts < MaxRestarts
  /\ kind' = [t \in Ts |-> CASE kind[t] = "log" -> "done"
                             [] kind[t] = "done" -> "done.done"
                             [] OTHER -> "absent"]
  /\ filesGauge' = Cardinality({t \in Ts : kind[t] = "log"})
  /\ phase' = "up"
  /\ restarts' = restarts + 1
  /\ UNCHANGED <<lines, nextTs, current, fdOpen, peek, op, faults, history>>

-----------------------------------------------------------------------------
\* The first of listDoneFiles.
Oldest(S) == CHOOSE t \in S : \A u \in S : t <= u

\* dones[:over] in rotate: the files that have maxFiles newer ones.
Over == {t \in Done : Cardinality({u \in Done : u > t}) >= MaxFiles}

EnvsIn(S) ==
  {e \in Envs : \E t \in S : \E i \in 1..Len(lines[t]) : lines[t][i] = e}

Fault == faults < MaxFaults /\ faults' = faults + 1

-----------------------------------------------------------------------------
(* Write *)

\* f.current, opened by openNew when there is none.
Target == IF current = None THEN nextTs ELSE current

CanOpen == current = None => nextTs \in Ts

\* The file f.current.Write appends to, with what this call leaves in it.
AppendTo(t, what) ==
  /\ kind' = [kind EXCEPT ![t] = "log"]
  /\ lines' = [lines EXCEPT ![t] = @ \o what]
  /\ nextTs' = IF current = None THEN nextTs + 1 ELSE nextTs

\* A successful append; rotate follows, still under f.mu, when the file is full.
\* openNew and the write are one step: dying between them leaves an empty .log,
\* as a write that fails at once does.  json.Marshal does not fail: the data of an
\* envelope was taken out of a JSON text.
WriteAppend(e) ==
  /\ phase = "up" /\ op = "none"
  /\ CanOpen /\ fdOpen
  /\ AppendTo(Target, <<e>>)
  /\ current' = Target
  /\ op' = IF Len(lines'[Target]) >= MaxFileSize THEN "rotate" ELSE "none"
  /\ offered' = offered \union {e}
  /\ stored' = Append(stored, e)
  /\ UNCHANGED <<fdOpen, peek, filesGauge, phase, faults, restarts, refused,
                 pruned, handed>>

\* openNew fails: nothing changes.
WriteOpenFails(e) ==
  /\ phase = "up" /\ op = "none"
  /\ current = None
  /\ Fault
  /\ offered' = offered \union {e}
  /\ refused' = refused \union {e}
  /\ UNCHANGED <<disk, memory, phase, restarts, stored, pruned, handed>>

\* f.current.Write fails after some of the line: the descriptor is dropped and
\* the file keeps the name .log.  A line that lacks only its newline parses.
WriteFails(e) ==
  /\ phase = "up" /\ op = "none"
  /\ CanOpen
  /\ \/ /\ fdOpen
        /\ Fault
        /\ \E torn \in {<<>>, <<Garbage>>, <<e>>} : AppendTo(Target, torn)
     \/ /\ ~fdOpen
        /\ UNCHANGED <<disk, faults>>
  /\ current' = None
  /\ fdOpen' = TRUE
  /\ offered' = offered \union {e}
  /\ refused' = refused \union {e}
  /\ UNCHANGED <<peek, op, filesGauge, phase, restarts, stored, pruned, handed>>

-----------------------------------------------------------------------------
(* rotate *)

RotateRename ==
  /\ phase = "up" /\ op = "rotate"
  /\ kind' = [kind EXCEPT ![current] = "done"]
  /\ current' = None
  /\ op' = "prune"
  /\ UNCHANGED <<lines, nextTs, fdOpen, peek, filesGauge, phase, faults,
                 restarts, history>>

\* Close or Rename fails: f.current stays set to a closed descriptor, and
\* Write returns the error although the line is in the file.
RotateFails ==
  /\ phase = "up" /\ op = "rotate"
  /\ Fault
  /\ fdOpen' = FALSE
  /\ op' = "none"
  /\ refused' = refused \union {lines[current][Len(lines[current])]}
  /\ UNCHANGED <<disk, current, peek, filesGauge, phase, restarts, offered,
                 stored, pruned, handed>>

RotatePrune ==
  /\ phase = "up" /\ op = "prune"
  /\ kind' = [t \in Ts |-> IF t \in Over THEN "absent" ELSE kind[t]]
  /\ pruned' = pruned \union EnvsIn(Over)
  /\ filesGauge' = Cardinality(Done \ Over)
  /\ op' = "none"
  /\ UNCHANGED <<lines, nextTs, current, fdOpen, peek, phase, faults, restarts,
                 offered, stored, refused, handed>>

\* listDoneFiles fails (and the metric is set to 0), or some Remove does; both
\* errors are ignored.
RotatePruneFails ==
  /\ phase = "up" /\ op = "prune"
  /\ Fault
  /\ \/ filesGauge' = 0 /\ UNCHANGED <<kind, pruned>>
     \/ /\ filesGauge' = Cardinality(Done \ Over)
        /\ \E S \in SUBSET Over :
             /\ S # Over
             /\ kind' = [t \in Ts |-> IF t \in S THEN "absent" ELSE kind[t]]
             /\ pruned' = pruned \union EnvsIn(S)
  /\ op' = "none"
  /\ UNCHANGED <<lines, nextTs, current, fdOpen, peek, phase, restarts, offered,
                 stored, refused, handed>>

-----------------------------------------------------------------------------
(* Peek: each action is an iteration, or the start of one, of its loop.    *)

Peeking == phase = "up" /\ op \in {"none", "peek"}

\* openOldestDone
PeekOpen ==
  /\ Peeking
  /\ peek = NoPeek
  /\ Done # {}
  /\ peek' = [file |-> Oldest(Done), pos |-> 0]
  /\ op' = "peek"
  /\ UNCHANGED <<disk, current, fdOpen, filesGauge, phase, faults, restarts,
                 history>>

\* No .log.done file, or it cannot be opened: Peek returns nothing.
PeekNothing ==
  /\ Peeking
  /\ peek = NoPeek
  /\ \/ Done = {} /\ UNCHANGED faults
     \/ Done # {} /\ Fault
  /\ op' = "none"
  /\ UNCHANGED <<disk, current, fdOpen, peek, filesGauge, phase, restarts,
                 history>>

HasLine == peek # NoPeek /\ peek.pos < Len(lines[peek.file])
NextLine == lines[peek.file][peek.pos + 1]

\* A line that parses is returned; the scanner is past it.
PeekRecord(e) ==
  /\ Peeking
  /\ HasLine
  /\ e = NextLine
  /\ e \in Envs \ Huge
  /\ peek' = [peek EXCEPT !.pos = @ + 1]
  /\ op' = "none"
  /\ handed' = handed \union {e}
  /\ UNCHANGED <<disk, current, fdOpen, filesGauge, phase, faults, restarts,
                 offered, stored, refused, pruned>>

\* A line that does not parse is skipped.
PeekSkip ==
  /\ Peeking
  /\ HasLine
  /\ NextLine = Garbage
  /\ peek' = [peek EXCEPT !.pos = @ + 1]
  /\ op' = "peek"
  /\ UNCHANGED <<disk, current, fdOpen, filesGauge, phase, faults, restarts,
                 history>>

\* scanner.Err() # nil: the line is too long, or reading fails.  The file
\* stays, and the next Peek starts it from its beginning.
PeekScanError ==
  /\ Peeking
  /\ peek # NoPeek
  /\ \/ HasLine /\ NextLine \in Huge /\ UNCHANGED faults
     \/ Fault
  /\ peek' = NoPeek
  /\ op' = "none"
  /\ UNCHANGED <<disk, current, fdOpen, filesGauge, phase, restarts, history>>

\* End of file: close, delete (it may have been pruned meanwhile), advance.
PeekEOF ==
  /\ Peeking
  /\ peek # NoPeek
  /\ ~HasLine
  /\ kind' = [kind EXCEPT ![peek.file] = "absent"]
  /\ peek' = NoPeek
  /\ filesGauge' = Cardinality(Done \ {peek.file})
  /\ op' = "peek"
  /\ UNCHANGED <<lines, nextTs, current, fdOpen, phase, faults, restarts,
                 history>>

\* The file cannot be deleted, so that it is scanned again, or the directory cannot
\* be listed and the metric stays as it is; both errors are ignored.
PeekEOFFails ==
  /\ Peeking
  /\ peek # NoPeek
  /\ ~HasLine
  /\ Fault
  /\ \/ UNCHANGED kind /\ filesGauge' \in {filesGauge, Cardinality(Done)}
     \/ kind' = [kind EXCEPT ![peek.file] = "absent"] /\ UNCHANGED filesGauge
  /\ peek' = NoPeek
  /\ op' = "peek"
  /\ UNCHANGED <<lines, nextTs, current, fdOpen, phase, restarts, history>>

-----------------------------------------------------------------------------
(* Close, the end of the process, and NewFallbackWriter in the next one *)

\* The active file becomes .done unless Sync, Close or Rename fails.
Close ==
  /\ phase = "up" /\ op = "none"
  /\ \/ /\ current # None /\ fdOpen
        /\ kind' = [kind EXCEPT ![current] = "done"]
        /\ UNCHANGED faults
     \/ /\ current # None /\ fdOpen
        /\ Fault
        /\ UNCHANGED kind
     \/ /\ current = None \/ ~fdOpen
        /\ UNCHANGED <<kind, faults>>
  /\ peek' = NoPeek
  /\ current' = None
  /\ fdOpen' = TRUE
  /\ phase' = "closed"
  /\ UNCHANGED <<lines, nextTs, op, filesGauge, restarts, history>>

Crash ==
  /\ phase = "up"
  /\ restarts < MaxRestarts
  /\ phase' = "down"
  /\ peek' = NoPeek
  /\ current' = None
  /\ fdOpen' = TRUE
  /\ op' = "none"
  /\ UNCHANGED <<disk, filesGauge, faults, restarts, history>>

\* adoptStaleLogs renames every .log left behind.
NewFallbackWriter ==
  /\ phase # "up"
  /\ restarts < MaxRestarts
  /\ kind' = [t \in Ts |-> IF kind[t] = "log" THEN "done" ELSE kind[t]]
  /\ filesGauge' = Cardinality({t \in Ts : kind[t] # "absent"})
  /\ phase' = "up"
  /\ restarts' = restarts + 1
  /\ UNCHANGED <<lines, nextTs, current, fdOpen, peek, op, faults, history>>

\* A rename fails, after some succeeded, and the process exits with the error.
NewFallbackWriterFails ==
  /\ phase # "up"
  /\ restarts < MaxRestarts
  /\ Fault
  /\ \E S \in SUBSET {t \in Ts : kind[t] = "log"} :
       kind' = [t \in Ts |-> IF t \in S THEN "done" ELSE kind[t]]
  /\ phase' = "down"
  /\ restarts' = restarts + 1
  /\ UNCHANGED <<lines, nextTs, memory, history>>

-----------------------------------------------------------------------------
WriteStep(e) == WriteAppend(e) \/ WriteOpenFails(e) \/ WriteFails(e)
RotateStep == RotateRename \/ RotateFails \/ RotatePrune \/ RotatePruneFails
PeekStep == \/ PeekOpen \/ PeekNothing \/ PeekSkip
            \/ PeekScanError \/ PeekEOF \/ PeekEOFFails
            \/ \E e \in Envs : PeekRecord(e)

\* The writer on its own, called in any order.
FNext ==
  \/ \E e \in Envs \ offered : WriteStep(e)
  \/ RotateStep
  \/ PeekStep
  \/ Close \/ Crash \/ NewFallbackWriter \/ NewFallbackWriterFails
  \/ phase # "up" /\ restarts = MaxRestarts /\ UNCHANGED fvars

FSpec == FInit /\ [][FNext]_fvars

-----------------------------------------------------------------------------
(* Properties *)

\* Every variable stays in its type; a descriptor or a scanner never refers
\* to a file that does not exist in the model.
FTypeOK ==
  /\ kind \in [Ts -> {"absent", "log", "done"}]
  /\ lines \in [Ts -> Seq(Envs \union {Garbage})]
  /\ nextTs \in 1..(MaxTs + 1)
  /\ current \in Ts \union {None}
  /\ fdOpen \in BOOLEAN
  /\ peek \in [file : Ts \union {None}, pos : Nat]
  /\ op \in {"none", "rotate", "prune", "peek"}
  /\ filesGauge \in Nat
  /\ phase \in {"up", "closed", "down"}
  /\ faults \in 0..MaxFaults
  /\ restarts \in 0..MaxRestarts
  /\ offered \in SUBSET Envs
  /\ stored \in Seq(Envs)
  /\ refused \in SUBSET Envs
  /\ pruned \in SUBSET Envs
  /\ handed \in SUBSET Envs

Stored == {stored[i] : i \in 1..Len(stored)}

\* Where a Peek or a Peek after a restart still finds the envelope.
Ahead(e) ==
  \E t \in Ts : /\ kind[t] # "absent"
                /\ \E i \in 1..Len(lines[t]) :
                     lines[t][i] = e /\ (peek.file = t => i > peek.pos)

\* Whatever fails and wherever the process dies, an envelope whose line was
\* written is still in a file, ahead of the scanner, until Peek has handed it
\* out or rotate has pruned its file.
NothingStoredIsLost ==
  \A e \in Stored : e \in handed \/ e \in pruned \/ Ahead(e)

\* Without I/O errors envelopes are first handed out in the order they were
\* written, over rotations, pruning of the file being scanned, rescans of a
\* file with an oversized line, and restarts.
ReplayInOrder ==
  faults = 0 =>
    \A j \in 1..Len(stored) : stored[j] \in handed =>
      \A i \in 1..j : stored[i] \in handed \union pruned

\* Without I/O errors no .log file other than the active one exists while the
\* process runs: every other line is in a file that Peek will reach.
NoStrandedLog ==
  phase = "up" /\ faults = 0 =>
    \A t \in Ts : kind[t] = "log" => t = current

\* Without I/O errors the files metric is the "Number of rolled fallback files
\* (.log.done) waiting to replay" (metrics.go) whenever f.mu is free.
FilesGaugeExact ==
  phase = "up" /\ op = "none" /\ faults = 0 => filesGauge = Cardinality(Done)
=============================================================================
