# log-track: TLA+ models, checks and proofs

log-track is a log gateway: services send envelopes over TCP through a Go SDK,
the gateway queues them, dispatches them to a handler by topic, and writes them
to Kafka, or to local files while Kafka is down, from which they are replayed.
This directory models the parts of it that are hard to test: goroutines that
meet at close and shutdown, files across crashes, a health flag that several
goroutines write, and conversions that a message undergoes on two different
ways to Kafka.

## 1. The system

| Part | State | Operations | Meets |
|---|---|---|---|
| queue and workers (`internal/queue`) | channel, `closed`/`done`, wait groups | `Enqueue`, worker loop, `StopEnqueue`, `Close`, `reportDepth` | connections produce, workers call `dispatch` |
| fallback writer (`internal/writer/fallback.go`) | files `<ts>.log`, `<ts>.log.done`; active file; scanner | `Write`, `rotate`, `Peek`, `Ack` (nothing), `Close`, adoption at start | called by workers and the recovery goroutine under one mutex |
| writer manager (`manager.go`) | `healthy`, its metric, `stopCh` | `Write`, `recoveryLoop`, `tryRecover`, `Shutdown` | Kafka, fallback writer |
| Kafka writer (`kafka.go`) | a client-library writer per topic | `Write`, `Probe`, `Flush`, `Close` | external Kafka |
| TCP server (`internal/server`) | listener, table and count of connections, `shutdownMode` | `Start`, `serve`, `readFrame`, `Shutdown` | clients, the two queues |
| router, handlers, adapter (`internal/router`, `internal/handler`, `internal/writeradapter`) | handler table, fixed at start | `Lookup`, `Handle` | `dispatch` in `cmd/server/main.go` |
| gateway main (`cmd/server`) | its progress, the writers it opened | wiring, `dispatch`, shutdown sequence | all of the above |
| configuration (`internal/config`) | none | `Load` | read once by `main` |
| SDK connections (`pkg/logtrack/client.go`) | default client, shards with mutex, connection, back-off | `Init`, `Close`, `Send`, `Client.Close` | application goroutines, the gateway |
| SDK helpers (`pkg/logtrack`, the other files) | the cached body limit; the callers' option arrays | `Send`, `App`, `EventTrack`, `RPC`, `InboundHTTP`, `OutboundHTTP`, `SendAppMessage`, `SendSysMessage`, `SendExpAssignmentMessage` and their `Ctx` variants | application goroutines, `Client.send` |
| metrics, HTTP API, version | counters and gauges; none; none | | |

What makes it hard, and what must hold:

* **Close against blocked producers and busy workers** (queue): whatever was
  accepted is handled once, nothing is accepted after the stop, and nobody
  waits for somebody who waits for him.
* **Files across failures and crashes** (fallback writer): a line that was
  written stays ahead of the scanner until it was handed out or its file was
  pruned; the order of replay is the order of writing.
* **A flag written by several goroutines** (manager): health returns for good
  when Kafka does; an envelope is lost or doubled only for a recorded reason;
  the writers are closed when nobody uses them.
* **Shutdown against the accept loop and the connections** (server): no reader
  without a deadline, no goroutine left behind, and Shutdown always returns.
* **Send against Init and Close** (SDK): no connection outlives `Close`, no
  client is forgotten, and a torn frame is the last on its connection.
* **A shutdown sequence over parts that still run** (main): everything accepted
  is dispatched, the writers outlive the workers, and the process ends, in
  every configuration that `Load` lets through.
* **A byte stream that can end anywhere** (framing): what is decoded is what was
  written in full, and lengths at and beyond their limits hurt nobody else.
* **Arguments shared between goroutines** (SDK helpers): an envelope has the
  trace id of its own call, and a log its key.
* **Two ways to Kafka** (pipeline): a message that went through a file is the
  message the direct way would have sent.

`PROJECT.json` lists every part under `components` and each hazard at its line
under `hazards`.

## 2. Modules

| Module | Models | Notes |
|---|---|---|
| `Queue` | `internal/queue/queue.go` | one program counter per goroutine; holds its inductive invariant `IInv` |
| `QueueContract` | what the queue promises | accept, handle once, shut when all is handled |
| `QueueProofs` | | TLAPS proofs about `Queue` |
| `FallbackWriter` | `fallback.go` | disk (survives a crash) and memory (does not) |
| `WriterManager` | `manager.go`, outcomes of `kafka.go` | extends `FallbackWriter`: its actions are joined with the files' |
| `TCPServer` | `tcp.go`, outcomes of `conn.go`, `Enqueue` | accept loop, serve goroutines, Shutdown |
| `Config` | `config.go` | `Load` as a function of the environment |
| `Gateway` | `cmd/server/main.go` | extends `TCPServer` and `Config`; adds the queues' channels and workers, and whether the writers are open |
| `Framing` | `encodeFrame`, the write in `send`, `readFrame` | one shard, its successive connections, and their readers, byte by byte |
| `Client` | `client.go`, `send.go` | callers of `Send`, callers of `Init`/`Close` |
| `BodySize` | the size estimate of `http.go` | recursive operators, and the JSON length as their reference; TLC only |
| `SDK` | the helpers of `pkg/logtrack` | goroutines with option slices over a heap of arrays; whether a body is kept is the parameter `Kept`, which `MCSDK` gives from `BodySize` |
| `Pipeline` | `conn.go`, `serve`, `dispatch`, handlers, `envelope.go`, message and line formats | the data a message carries |
| `FallbackWriterProofs`, `WriterManagerProofs` | | proofs about the files, and about the manager over them |
| `GatewayProofs` | | proofs about the server, and about the process around it |
| `FramingProofs`, `ClientProofs`, `SDKProofs`, `PipelineProofs` | | proofs about the module each is named after |
| `MC*` | | instances for TLC |

How state and actions correspond to the code:

* *Steps.* A step is what a goroutine does between two points where another
  can see a difference: one atomic load or store, one critical section, one
  channel operation, one file or network operation. The deferred calls of a
  function are steps of their own where others see them (`TCPServer`:
  `DeleteConn`, `UncountConn`, `ServeReturn`).
* *Queue.* `closed` and `done` change in one critical section and are one
  variable. The wait group is the set of goroutines between `Add` and `Done`.
  Go's `select` takes any ready case, so `EnqueueSend` stays possible after
  the close.
* *FallbackWriter.* A file is its time stamp, `kind` its suffix, `lines` its
  content. `op` says what the holder of `f.mu` is in the middle of, because
  the process may die there. A closed descriptor left behind by a failed
  `rotate` is `fdOpen = FALSE`. A failed write leaves nothing, a torn line, or
  the whole line without its newline. At its end a file may fail to go away
  (`PeekEOFFails`), and is then read again. `Huge` lines exceed the scanner's
  buffer. Time stamps are assumed to increase, and `MaxFiles` is not negative.
  The `json.Marshal` in `Write` cannot fail on what the readers decoded.
* *WriterManager.* `m.healthy` and the metric are stored in separate steps.
  Kafka is external: up or down, and even when it is up, and its probe
  succeeds, a write may fail: Kafka took the message (`timeouts`), or rejected
  it (a missing topic; one of the `outages`). `crashLost`, `refused`, `pruned`
  and `replayFailed` record why an envelope may be missing; a worker that dies
  in `rotate` has its line in a file, and loses nothing.
* *TCPServer.* `Enqueue` is the producer's side of `Queue`: the check of
  `closed`, and the `select` that sends or sees `done`. Whether there is room
  is free here and determined in `Gateway`. `StopNormal` and `StopCritical` are
  the two `StopEnqueue` calls: each waits for its own producers before the next
  step. Clients are free.
* *Gateway.* Workers are counted, not named: `idle` ones and the envelopes in
  `busy` hands. A send on a channel without a buffer hands the envelope to an
  idle worker. `Dispatch` after `KafkaWriter.Close` may panic, as `writerFor`
  does on a nil map. Everything `main` does between the signal and its return
  is an action; actions of `TCPServer` are taken over with the rest unchanged.
* *Framing.* A byte carries the frame it belongs to, its place there and its
  value. `json.Unmarshal` takes a body that is the whole of one envelope's JSON
  and nothing else. A write to a connection the gateway has closed succeeds and
  goes nowhere. A prefix is four bytes, each of which has `Base` values instead
  of 256, and wraps like a `uint32`.
* *SDK.* A slice is an array in the heap and a length; `append` writes into the
  array when it has room and copies it when it has not. An option sets one
  field, so the last option for a field decides. Each plan is the list of calls
  every goroutine makes; `Apart` says of a plan that no append in place meets
  another call's options. Strings are values; `" "` stands for white
  space, `"ctl"` and `"bad"` for text with control characters or broken UTF-8.
* *BodySize.* A body is a tree of Go values by kind. Numbers and booleans are
  the length `strconv` gives them and the length `json` does.
* *Client.* The two pools are one array of shards in the order `Close` visits
  them; which shard a message hashes to is free, and so is whether the data
  serializes. The time of the back-off is `BackoffEnds`. A call that waits for
  `defaultMu` is one that has not begun: it goes on once the holder returned.
* *Pipeline.* A document keeps only what handlers look at. `json.Marshal`
  respells data and writes `null` for absent data; `json.Unmarshal` never sets
  `WriteRaw`. Queue bounds, files and the health flag are in other modules, so
  the choice between Kafka and fallback is free here, and so is the moment from
  which the queue refuses (`ServeRefused`): the frame in hand is then `refused`
  and no other is read, as `serve` returns.
* Each of these modules also has a section of faulty variants, one plausible
  mistake each, that no specification uses; the mutation runs put them in the
  place of the action they distort.

## 3. Runs

| Run | Checks | Shows |
|---|---|---|
| `queue` | `TypeOK`, `CloseHandlesAllOnce`, `DrainingAlone`, `IInv`, `NoSendOnceStopped`, `ContractSpec`, `EnqueueReturns`, `CloseReturns` | close loses and doubles nothing, nobody hangs, and the queue implements `QueueContract` with its fairness |
| `fallback` | `FTypeOK`, `NothingStoredIsLost`, `ReplayInOrder`, `NoStrandedLog`, `FilesGaugeExact` | files over faults, crashes and restarts |
| `manager` | `MTypeOK`, `NoSilentLoss`, `DuplicatesExplained`, `ClosedLast`, `HealthRestored`, `ShutdownReturns` | every loss and every duplicate has a reason, health returns, Shutdown returns |
| `server` | `TypeOK`, `LimitHolds`, `ReadersBounded`, `DrainedIsQuiet`, `ShutdownReturns` | the limit, the deadlines, the quiet after draining; Shutdown is bounded by its context |
| `gateway` | `NothingLeftBehind`, `WritersOutliveWorkers`, `RefusedOnlyWhenForced`, `SignalEnds` | the shutdown sequence of `main`, in environments with good and with bad sizes |
| `client` | `TypeOK`, `ClosedStaysClosed`, `NoClientLeaks`, `TornIsLast`, `CallsReturn` | Send against Init and Close; no call hangs |
| `pipeline` | `SentAsContracted`, `CountedOnce` | both ways to Kafka keep the protocol; what was read is counted once, or was refused and is nowhere |
| `framing` | `FramesIntact`, `HangsUpAtLimit`, `WrittenArrives` | torn, cut, oversized and wrapped frames |
| `sdk` | `OwnTrace`, `BodyFits` | the helpers in two goroutines, with options of their own, in slices without room, or in a shared slice that one of them appends to; the size estimate against the JSON |

Three runs show where the code differs from what its documentation says
(`findings` in `PROJECT.json` quotes the lines):

| Run | Statement | What the code does |
|---|---|---|
| `manager_replay_kept` | a failed replay is kept and retried | the scanner is past it; it is deleted with its file |
| `pipeline_order` | one trace is in order in its partition | workers of one queue overtake each other |
| `sdk_thread_safe` | SDK calls are thread-safe | the `Ctx` variants of messages append to the caller's slice: goroutines that share one with room send each other's trace id |

Other differences between the code and its documentation (paths are those of
the repository), and corners the models have or leave out:

* `README.md:146` has the fallback files replayed after recovery; `Peek` lists
  `.log.done` files only, so the lines of the active `.log` wait for a later
  rotation or a restart.
* `metrics.go:48` calls the gauge the manager's view of health. Flag and gauge
  are two stores of several goroutines and may differ at rest.
* `fallback.go:33` has records sent twice after a crash. A line beyond the
  scanner's 16 MB makes `Peek` start its file over, with the same effect.
* `README.md:201` has the process leave by force after the total timeout.
  `Queue.Close` and `connsWG.Wait` do not look at the context: they end because
  producers are released and calls of workers return (`SignalEnds`). The
  timeouts of `README.md:185` are 10 s and 5 s, the code's are 5 s and 3 s.
* A signal in the moment between the start of `main` and `setListener` leaves
  the listener open. `Shutdown` may then see no connection, and wait in
  `connsWG.Wait` for one that comes after; if that one is blocked on a full
  queue that has no workers, or if its client never stops sending, `main` never
  returns. `SignalEnds` and `ShutdownReturns` are about a listener that was
  closed, and the `gateway` run does not report deadlock for this reason.
* `http.go:160` says the body is measured by serializing it. It is estimated:
  newlines and tabs count 6 bytes (JSON has 2), `<`, `>` and `&` count 1 (JSON
  has 6), floats are measured in another format, struct fields by their Go name
  (not their tag, `omitempty` or `-`), byte arrays as base64 (JSON writes a
  list of numbers). `BodyFits` is exact where names, numbers and characters are
  measured as they are written, and gives the factors elsewhere. Values that
  marshal themselves are in neither measure of the model: the estimate takes a
  `json.RawMessage` for bytes in base64 and a `time.Time` for an empty
  struct, and `json` writes something else. The check of a
  depth over 32 only sees depth 0, so that a cyclic value is bounded by the
  budget alone, and a cycle of pointers by nothing.
* `getInt` takes any number for the size and the workers of the normal queue,
  `getPositiveInt` guards only the critical one. With no workers the normal
  queue accepts until it is full and what it accepted is lost at exit: the
  exception in `NothingLeftBehind`.
* A negative `LOG_TRACK_FALLBACK_MAX_FILES` passes `Load` too, and the first
  `rotate` panics: it takes more files off the list than are in it
  (`fallback.go:188-191`). The models have a `MaxFiles` that is not negative.
* A frame that was read when its queue has been stopped is dropped with its
  connection (`tcp.go:132-134`) and is in no metric, neither as written nor as
  lost: the exception in `CountedOnce`. That this happens only once the shutdown
  is forced is `RefusedOnlyWhenForced`.
* `option.go:27` has `WithPartitionKey` override the partition key, and
  `CLIENT_USAGE.md:367` gives it the highest priority. `SendAppMessage`,
  `SendSysMessage` and `SendExpAssignmentMessage` ignore it: they take the key
  from fields of the message, as `CLIENT_USAGE.md:294` and `:338` say of the
  first and the last; of `SendSysMessage` no document says so. `OwnTrace`
  therefore compares the keys of logs only.
* `PROTOCOL.md:62-63` knows five built-in handlers and has the whole envelope
  written for every other topic. There are eight; the three for messages
  (`envelope.go:46-49`) write the bare payload. `SentAsContracted` follows the
  comment in `envelope.go`.
* A torn line costs only itself: `Peek` skips what does not unmarshal
  (`PeekSkip`). `NothingStoredIsLost` would notice a torn line that makes `Peek`
  delete the file, not one that makes it stop there.
* The depth metric may publish an older depth last; `max_files` is enforced in
  `rotate` only, so a shutdown and a start leave more files until the next
  rotation.
* A frame without `data` on one of the three bare-payload topics is outside the
  last clause of `SentAsContracted`: written directly its Kafka value is empty,
  written through a file it is `null`. The SDK always sends `data`.

### Bounds

| Bound | Value | Why it is enough |
|---|---|---|
| `Capacity` | 1 | with 2 producers and 3 envelopes the channel is full and empty in every phase of the close |
| `Workers` | 2 | one drains while another is in `fn` |
| `Envs`, `MaxFileSize`, `MaxFiles` | 5, 2, 1 (`fallback`); 2, 1, 1 (`manager`) | several files, pruning of the file being scanned, a file with a line behind the scanner |
| `MaxTs` | as many as files can be opened | names never run out before envelopes do |
| `MaxFaults`, `MaxRestarts` | 2, 2 (`fallback`); 1, 1 (`manager`) | a fault before and after a restart |
| `MaxOutages`, `MaxTimeouts` | 2, 1 | Kafka fails during a worker's write, a replay and the drain |
| `Conns`, `MaxConnections`, `MaxFrames` | 3, 1, 1 | two connections compete for the place of one that ends; each goes back to `readFrame` after a frame |
| `Callers`, `Admins`, `Clients`, `NShards` | 2, 2, 2, 1 | two senders on one shard while two Init/Close calls overlap; shards share nothing |
| `MaxSends`, `MaxAdmin` | 1, 2 | the second sender finds the connection the first made or broke; up to four Init and Close calls |
| `Environments` | five | one slot and one worker per queue; no worker; no buffer; a negative size; no critical worker, which becomes the default |
| `Conns`, `MaxFrames` (`gateway`) | 1, 2 | with one slot and one worker the second envelope meets a full queue; how connections meet each other is the `server` run |
| `Base`, `MaxMessageSize`, `Sizes` | 2, 2, {2, 3, 16, 17} | a length at the limit and one over it, one whose prefix wraps to zero and one whose prefix wraps to a length that is allowed |
| `MaxSends`, `MaxDials` (`framing`) | 3, 2 | a frame before and behind a bad one, and a second connection after a torn one |
| `Plans` | pairs of calls against one call; HTTP bodies nested twice | a slice is used again after an append, by its own goroutine and by another; every kind of value in every position |
| `Inputs` | all single frames, pairs of one trace | conversions concern one message, overtaking two |

Symmetry is used in `fallback` only, which checks no liveness, over the
envelopes that are not `Huge`.

### Fairness

* Goroutines that can run do run (weak fairness of each goroutine's steps).
  Calls of a worker return: Kafka writes have `writeTimeout`, the probe and
  the dialer have timeouts, file operations end.
* `SF(RecoveryStop)`: Go's `select` picks among ready cases at random, so a
  closed `stopCh` is not passed over forever for the ticker.
* Strong fairness of the SDK's goroutines: a shard's mutex comes and goes while
  a goroutine waits for it, and `sync.Mutex` hands it to one that has waited
  long enough.
* `WF(CtxExpires)`: the shutdown context has a timeout.
* Nothing is assumed of clients, operators or Kafka: nobody has to send, stop
  the gateway, or bring Kafka back. `HealthRestored` has Kafka staying up as
  its hypothesis, and at most `MaxOutages` writes that it rejects although it is
  up: were it to reject every write (a topic that does not exist), the flag would
  go up with every probe and down with every write, `WrittenArrives` asks only that `readFrame` reads what came.

## 4. Proofs

Each proof module extends the module it is about and holds for every value of
its constants. The shape is always the same: the property is seldom inductive,
so an invariant `IInv` (`FInv`, `MInv`, `GInv`) adds what the code keeps true
on the way; there is one lemma per conjunct, in it one step per action; the
properties follow from the invariant. The properties of the table are checked
by runs too, and so is `QueueContract` for `Queue`; that the queues inside
`Gateway` implement it is only proved.

| Module | Theorems | Properties |
|---|---|---|
| `QueueProofs` | `Invariance`, `TypeCorrect`, `CloseComplete`, `DrainIsAlone`, `StopIsFinal`, `Refinement` | `IInv`, `TypeOK`, `CloseHandlesAllOnce`, `DrainingAlone`, `NoSendOnceStopped`, the safety part of `QueueContract` |
| `FallbackWriterProofs` | `Inductive`, `TypeCorrect`, `NothingLost`, `InOrder`, `NoneStranded`, `GaugeExact` | `FTypeOK`, `NothingStoredIsLost`, `ReplayInOrder`, `NoStrandedLog`, `FilesGaugeExact` |
| `WriterManagerProofs` | `MInductive`, `MTypeCorrect`, `NoneLostSilently`, `LastOne`, `FilesInProcess`, `DInductive`, `Duplicates` | `MTypeOK`, `NoSilentLoss`, `ClosedLast`, `DuplicatesExplained`; `NothingStoredIsLost`, `NoStrandedLog` and `FilesGaugeExact` again, under concurrent callers |
| `GatewayProofs`, the server | `Inductive`, `TypeCorrect`, `Limit`, `Bounded`, `Drained` | `TypeOK`, `LimitHolds`, `ReadersBounded`, `DrainedIsQuiet` |
| `GatewayProofs`, the process | `GInductive`, `NothingLost`, `WritersLast`, `RefusedForced`, `ServerInProcess`, `QueuesImplementContract` | `NothingLeftBehind`, `WritersOutliveWorkers`, `RefusedOnlyWhenForced`; the server's three again, inside the process; the safety part of `QueueContract` for each of its queues |
| `FramingProofs` | `FramingInvariant`, `FramesIntactHolds`, `HangsUpAtLimitHolds` | `FramesIntact`, `HangsUpAtLimit` |
| `ClientProofs` | `Inductive`, `TypeCorrect`, `Closed`, `NoLeak`, `Torn` | `TypeOK`, `ClosedStaysClosed`, `NoClientLeaks`, `TornIsLast` |
| `SDKProofs` | `OwnTraceHolds` | `OwnTrace`, for plans that are `Apart` |
| `PipelineProofs` | `Inductive`, `Contractual`, `Counting` | `SentAsContracted`, `CountedOnce` |

### Queue

From `ThreadsAssumption` (producers and workers are disjoint and there is a
worker), `CapacityAssumption` (positive) and `NoEnvAssumption`.

`CloseHandlesAllOnce` is not inductive: it speaks of the moment `Close`
returns. `IInv` adds what makes it true: `Registered` (the wait group counts
exactly the goroutines between `Add` and `Done`), `StopPhases` (a worker that
drains, and a `StopEnqueue` that returned, have seen no registered producer
after the close, and none can register then; a worker that exited left the
channel empty), and `OnePlace` (an accepted envelope is in the channel, in one
worker's hand, or handled, exactly once; one not accepted is in none of them).
`Refinement` shows that every step of `Queue` is a step of `QueueContract` or
leaves its variables alone.

### Fallback files

From `EnvsAssumption` (a torn line is no envelope), `SizesAssumption` and
`BoundsAssumption` (the limits are numbers).

* `NothingStoredIsLost` says where a stored line is; that it stays there
  depends on the descriptors. `Handles` ties them to the files (the active file
  is a `.log` and has the newest name, the scanner is inside a file that is
  not the active one, nothing of this survives the process), and `Scanned` says
  that all behind the scanner was handed out. `FaultFree` is the part that only
  holds while no operation has failed; `NoStrandedLog` and `FilesGaugeExact`
  rest on it. Together they are `FInv`.
* `ReplayInOrder` needs more (`OInv`): `Known` and `Sorted` (the lines, file by
  file, are the stored envelopes in their order), `Gone` (a file that is no
  longer there, and every file before the one being scanned, was handed out or
  pruned) and `Replayed` (so was all that precedes a line handed out). The last
  one is what a second scan of a file after a long line does not break.
* The step lemmas are about the operations and not about `FSpec`, so that they
  also serve the manager, whose workers and recovery goroutine are the callers.

### Manager

Adds `WorkersAssumption` and `KafkaBounds`.

* `NoSilentLoss` needs `InHand` (a goroutine has an envelope exactly inside its
  call), `Stopped` (the order of `Shutdown`), `Rotating` (one worker at most is
  inside `rotate`, and the line it rotates for is already safe), `Orphaned` (a
  file being scanned that is gone was pruned) and `Recalled` (the record being
  replayed is the last line scanned, so a crash leaves it in its file).
* `DuplicatesExplained` counts. `Once` says that an envelope is with one worker
  or in one line; `Budget` that its deliveries beyond the first are paid for by
  restarts, timed-out writes and failed operations, with room for one more while
  it may still be delivered. The theorems assume `Huge = {}`: a line beyond the
  scanner's buffer makes `Peek` start its file over at every recovery, and the
  lines before it are sent again without any failure to pay for them (section
  3), so the property is false there.

### Server and process

From `ConnsAssumption` (finitely many connections), `ServerBounds`, and, for the
process, `IntegersParsed`: the sizes and counts in an environment are integers,
which is what `strconv.Atoi` yields, negative ones included.

* The accept loop and the serve goroutines update `connCount`, `conns` and
  `connsWG` in separate steps. `HandOff`, `Counted` and `Tabled` say what each
  of the three is at every point between, as a function of the program
  counters: the counter is a cardinality and may be one over the limit only
  while the loop is about to drop that connection. `Deadlines` has the mode
  stored before the deadlines are applied, which is why a reader that loaded
  the old mode is found in the table. `Settled` is about the end: a `Shutdown`
  that saw the accept loop end waited for all there will ever be.
* `GInv` holds together with the server's invariant. `Kept`: an accepted
  envelope is in its channel, in a worker's hand or dispatched. `LastOut`: the
  last worker leaves its queue closed, empty and without producers. `InOrder`:
  `main` goes past a queue only when its workers are gone. `Forced`: who closed
  the queues, and when. `Silent` covers a start that fails. The sizes and the
  numbers of workers are those `Load` yields in any environment;
  `NothingLeftBehind` keeps its exception for a normal queue without workers.
* `QueuesImplementContract` joins the two queue models: `Gateway` has `main`,
  connections and counted workers where `Queue` has named goroutines, and each
  of its queues keeps the same contract. Pending is what was accepted and is not
  dispatched; a queue is open until it is closed and its workers are gone. What
  the contract asks beyond `GInv` is that nothing is handled twice, so `Once`
  adds that an envelope is new to its queue when it is accepted (`Numbered`),
  and is then in one slot of the channel (`InChannel`) or in one worker's hand
  (`InHands`), undispatched. The theorem needs a worker: without one `Close`
  waits for nobody and the queue shuts over what it accepted.

### Framing

From `BaseAssumption` (a byte has at least two values), `SizesAssumption` (an
envelope's JSON is not empty), `LimitAssumption` (the limit fits in a prefix)
and `FramingBounds`.

* `RoundTrip`: the four bytes of a prefix read back as the length modulo
  `Base^4`. Below the limit that is the length; above it, anything.
* Both properties compare what was decoded with what was written, over a wire
  that holds neither in full. `FramingInv` therefore says what the bytes between
  them are. `Bytes` and `Contiguous`: each belongs to a frame begun on this
  connection, and is followed by the rest of its frame and then the next frame.
  `Start`: the first unread byte is where the reader thinks it is, at a prefix
  or right behind one. `Torn`: only the last frame begun may lack its end, and
  then the end is nowhere on the wire, so that the reader cannot complete it
  with bytes of another. `Reading`: the length in hand is that of the frame the
  reader is in unless the frame is over the limit; a frame that is cannot be
  unmarshalled from the part that a wrapped prefix lets through. `Current` and
  `Fresh` are about the connection in use and those not yet dialed.

### Client

From `NilAssumption`, `ThreadsAssumption` and `ShardsAssumption`.

`ClosedStaysClosed` is about a `Close` that returned; what can break it is a
`Send` that read `closed` before. `Locked` says that a `Send` between `Lock` and
`Unlock` is the mutex' holder. `Sealed` is a shard without connection that no
`Send` is about to dial, and `Swept` has the shards sealed one after the other
behind a `Close` and staying so: the round of the loop finds the mutex free, so
nobody is between the second look at `closed` and the dial, and whoever comes
later sees `closed`. `WholeWhileOpen` makes `TornIsLast` inductive (a frame is
torn only where the connection is given up), and `Owned` has every client as
the default, closed, or in the hands of the `Init` or `Close` that took it.

### SDK helpers

From `ArraysAssumption` (arrays hold options) and `PlansAssumption` (the slices
of a call lie within their arrays, and contexts hold strings). `Kept` is any
operator: no envelope's trace depends on it.

A `Ctx` variant of a message looks at its options, appends to them and applies
them in separate steps, and other goroutines append in between. `SInv` says that
what a call finds within the length of its slice is still what the application
put there (`Unharmed`), and that a goroutine about to send has the options of
its call followed by the trace id of its context (`Inside`, `Appended`), in its
own copy or behind the end of the caller's slice. The last place is the one
another goroutine can overwrite, and `Apart` is what excludes it: nobody's
options lie there, and no second goroutine appends there. Without `Apart` the
property is false, which is the finding of `sdk_thread_safe`; one goroutine may
append to the same slice as often as it likes.

### Pipeline

From `WorkersAssumption` (a worker belongs to one of the two queues),
`FramesAssumption` (a connection carries frames of the protocol) and
`AbsentAssumption` (absent data is no document).

* `SentAsContracted` compares a message with a frame that was read long before.
  `Fresh` says what an envelope has up to the handler; `Faithful` what it has
  from there to Kafka, and it is the same on both ways: `LineIsFaithful` shows
  that writing a line and reading it back, in either of the two formats, leaves
  it true, `HandledIsFaithful` that a handler makes it true, and
  `MessageIsContracted` that it is enough for the message. `Carried` has one of
  them in every place an envelope can be. The conversions are proved member by
  member.
* `CountedOnce` needs that a frame is in one place (`OnePlace`), that it is
  counted when it leaves the last one, while the refused one is in none and
  counted nowhere (`Counted`), that the two outcomes without a message are those
  of frames no handler accepts (`Told`), and that what is in a file, in the
  replay or in Kafka was once taken by a queue (`Admitted`).

### Only model-checked

* All liveness properties (`EnqueueReturns`, `CloseReturns`, the fairness of
  the contract, `HealthRestored`, `ShutdownReturns`, `CallsReturn`,
  `SignalEnds`, `WrittenArrives`): they need fairness and `ENABLED`, which are
  out of the prover's reach.
* `BodyFits`: it compares two measures of a tree of Go values, which needs
  induction over the tree, and `BodySize` is written with recursive operators,
  which the prover does not take.

## 5. What is not modelled

* `cmd/http-api`: a tool for testing (`README.md`, 4.6). Its handler has no
  state; it checks method, topic and size and makes one Kafka write with a
  writer of its own. What runs concurrently there is `net/http` and `kafka-go`.
* `internal/version`, and the version flag of `main`: they print and exit.
* The inside of a `kafka.Writer`: batching, partitions, retries. Kafka takes a
  message, or does not, or does although the call reports an error.
* Wording of logs, and counters that only grow.
* The wall clock: file names are assumed to increase.
* In `Gateway`, what `Manager.Write` does with an envelope: it returns, by its
  timeouts, and `WriterManager` and `Pipeline` say with what result.
  `WriterManager.Shutdown` starts when no worker is inside `Write`; that this
  is so is `WritersOutliveWorkers` and the order of `CloseKafka` in `Gateway`.

## 6. Plan

Every safety property of a run but `BodyFits` is stated by a theorem. What could
follow:

* the liveness properties, with a prover that handles fairness;
* `DuplicatesExplained` with `Huge` lines, for a `Peek` that does not start a
  file over;
* a wall clock that is set back, which file names do not survive, in
  `FallbackWriter`.
