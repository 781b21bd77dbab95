------------------------------ MODULE Pipeline ------------------------------
(***************************************************************************)
(* The way of a message through the gateway: a frame is read and decoded   *)
(* (internal/server/conn.go), checked and queued (tcp.go, serve), taken by *)
(* a worker and dispatched to the handler of its topic (cmd/server/main.go,*)
(* internal/router, internal/handler), and written to Kafka or, as a line, *)
(* to the fallback file from which it is replayed (internal/writer).       *)
(*                                                                         *)
(* Here the conversions matter: decoding, time stamps, rewriting of        *)
(* topics, the two formats of a Kafka value and the two of a fallback      *)
(* line.  The bound of the queues and when they refuse an envelope are in  *)
(* modules Queue and Gateway; files and the health flag, which decides     *)
(* between Kafka and fallback, are in modules FallbackWriter and           *)
(* WriterManager: both choices are free here.                              *)
(***************************************************************************)
EXTENDS Integers, Sequences

CONSTANTS
  Inputs,           \* what one connection may carry: sequences of frames
  Workers,          \* goroutines of both queues
  Absent            \* a frame without a "data" member: json.RawMessage(nil)

Queues == {"normal", "critical"}

ASSUME WorkersAssumption == Workers \subseteq Queues \X Int

(***************************************************************************)
(* A frame is a record: version, topic, trace, pk (partition_key), ts      *)
(* (milliseconds), tsAt, and data.  "" is an absent string.  Data is       *)
(* Absent or a JSON document in the spelling of the sender; json.Marshal   *)
(* respells it (compact, escaped).  Of a document only what a handler      *)
(* looks at is kept.  Service and host are copied like trace.              *)
(***************************************************************************)
Kinds == {"object", "null", "other"}
Docs == [kind : Kinds, level : {"", "ERROR", "WARN", "INFO", "DEBUG", "OTHER"},
         message : BOOLEAN, rpc : BOOLEAN]
Texts == [doc : Docs, form : {"sent", "marshalled"}]
Data == Texts \union {Absent}
Frames == [version : STRING, topic : STRING, trace : STRING, pk : STRING,
           ts : Int, tsAt : STRING, data : Data]

ASSUME FramesAssumption == Inputs \subseteq Seq(Frames)
ASSUME AbsentAssumption == Absent \notin Texts

\* What json.Marshal writes for a json.RawMessage.
NullDoc == [kind |-> "null", level |-> "", message |-> FALSE, rpc |-> FALSE]
Marshal(data) ==
  [doc |-> IF data = Absent THEN NullDoc ELSE data.doc, form |-> "marshalled"]

VARIABLES
  input,            \* the frames this connection carries
  read,             \* how many of them serve has read
  refused,          \* the frame Enqueue returned false for, or 0; serve returned
  queue,            \* envelopes in each channel
  worker,           \* what each worker is doing, and with which envelope
  lines,            \* fallback lines not yet replayed
  replay,           \* the record tryRecover is writing
  sent,             \* history: what Kafka has taken, in order
  observed          \* logtrack_gateway_messages_total: outcomes counted, by frame

vars == <<input, read, refused, queue, worker, lines, replay, sent, observed>>

Nothing == [at |-> "idle"]

Init ==
  /\ input \in Inputs
  /\ read = 0
  /\ refused = 0
  /\ queue = [q \in Queues |-> <<>>]
  /\ worker = [w \in Workers |-> Nothing]
  /\ lines = <<>>
  /\ replay = Nothing
  /\ sent = <<>>
  /\ observed = [i \in 1..Len(input) |-> <<>>]

Observe(i, status) == observed' = [observed EXCEPT ![i] = Append(@, status)]

-----------------------------------------------------------------------------
(* Faulty variants of the operations below, for the mutation runs *)

\* One format for all lines: WriteRaw does not survive.
LineWithoutFormat(env) ==
  [id |-> env.id, fmt |-> "",
   rec |-> [version |-> env.version, topic |-> env.topic, trace |-> env.trace,
            pk |-> env.pk, ts |-> env.ts, tsAt |-> env.tsAt,
            data |-> Marshal(env.data)]]

\* No return after the warning: the rejected envelope is written.
RejectAndWrite(w) ==
  /\ worker[w].at = "dispatch"
  /\ Observe(worker[w].env.id, "invalid")
  /\ worker' = [worker EXCEPT ![w] =
                  [at |-> "fallback", env |-> @.env, status |-> "handled"]]
  /\ UNCHANGED <<input, read, refused, queue, lines, replay, sent>>

-----------------------------------------------------------------------------
(* Envelopes *)

TimestampAtFromMillis(ts) == IF ts <= 0 THEN "" ELSE "formatted"

EnsureTimestampAt(env) ==
  IF env.tsAt = "" THEN [env EXCEPT !.tsAt = TimestampAtFromMillis(env.ts)] ELSE env

\* json.Unmarshal of a frame or of a line into an Envelope: WriteRaw is not a
\* member.  The id, the place in input, is history.
Unmarshal(i, f) ==
  [id |-> i, version |-> f.version, topic |-> f.topic, trace |-> f.trace,
   pk |-> f.pk, ts |-> f.ts, tsAt |-> f.tsAt, data |-> f.data, raw |-> FALSE]

\* json.Marshal of an Envelope.
MarshalEnvelope(env) ==
  [version |-> env.version, topic |-> env.topic, trace |-> env.trace,
   pk |-> env.pk, ts |-> env.ts, tsAt |-> env.tsAt, data |-> Marshal(env.data)]

readFrame(i) == EnsureTimestampAt(Unmarshal(i, input[i]))

selectPartitionKey(env) == IF env.pk # "" THEN env.pk ELSE env.trace

\* What KafkaWriter.Write hands to the client library.
KafkaMessage(env) ==
  [id |-> env.id, topic |-> env.topic, key |-> selectPartitionKey(env),
   bare |-> env.raw,
   value |-> IF env.raw THEN env.data ELSE MarshalEnvelope(EnsureTimestampAt(env))]

\* What FallbackWriter.Write appends.
Line(env) ==
  [id |-> env.id, fmt |-> IF env.raw THEN "raw-v1" ELSE "",
   rec |-> IF env.raw
             THEN [topic |-> env.topic, pk |-> env.pk, trace |-> env.trace,
                   data |-> Marshal(env.data)]
             ELSE MarshalEnvelope(EnsureTimestampAt(env))]

\* The envelope Peek makes of a line.
PeekEnvelope(l) ==
  IF l.fmt = "raw-v1"
    THEN [id |-> l.id, version |-> "", topic |-> l.rec.topic,
          trace |-> l.rec.trace, pk |-> l.rec.pk, ts |-> 0, tsAt |-> "",
          data |-> l.rec.data, raw |-> TRUE]
    ELSE Unmarshal(l.id, l.rec)

-----------------------------------------------------------------------------
(* Handlers: the status dispatch counts and the envelope passed to Write *)

levelTopic == [ERROR |-> "app-logs-error", WARN |-> "app-logs-warn",
               INFO |-> "app-logs-info", DEBUG |-> "app-logs-debug"]

\* json.Unmarshal of Data into the payload struct of a handler.
Parses(data) == data # Absent /\ data.doc.kind # "other"

AppLogValid(data) ==
  /\ Parses(data)
  /\ data.doc.message
  /\ data.doc.level \in DOMAIN levelTopic

RPCValid(data) == Parses(data) /\ data.doc.rpc

PlainTopics == {"event-tracks", "inbound-http-logs", "outbound-http-logs"}
RawTopics == {"app.app-event-v1", "sys.sys-event-v1", "dw.exp-assignment-v1"}
Registered == PlainTopics \union RawTopics \union {"app-logs", "rpc-calls"}

Rejects(env) ==
  \/ env.topic = "app-logs" /\ ~AppLogValid(env.data)
  \/ env.topic = "rpc-calls" /\ ~RPCValid(env.data)

\* What the handler of the topic, or passthrough, does to the envelope.
Handle(env) ==
  CASE env.topic = "app-logs" -> [env EXCEPT !.topic = levelTopic[env.data.doc.level]]
    [] env.topic \in RawTopics -> [env EXCEPT !.raw = TRUE]
    [] OTHER -> env

Status(env) == IF env.topic \in Registered THEN "handled" ELSE "passthrough"

-----------------------------------------------------------------------------
(* Steps *)

QueueFor(env) == IF env.topic = "event-tracks" THEN "critical" ELSE "normal"

\* serve: read the next frame; drop it or put it into its queue.
Serve ==
  /\ refused = 0
  /\ read < Len(input)
  /\ read' = read + 1
  /\ LET env == readFrame(read + 1) IN
       \/ /\ env.version # "1.0"
          /\ Observe(env.id, "version_dropped")
          /\ UNCHANGED queue
       \/ /\ env.version = "1.0"
          /\ queue' = [queue EXCEPT ![QueueFor(env)] = Append(@, env)]
          /\ UNCHANGED observed
  /\ UNCHANGED <<input, refused, worker, lines, replay, sent>>

\* The queue has stopped and Enqueue returns false: serve returns, with a frame
\* that was read and is counted nowhere, and the rest of the input unread.
ServeRefused ==
  /\ refused = 0
  /\ read < Len(input)
  /\ readFrame(read + 1).version = "1.0"
  /\ read' = read + 1
  /\ refused' = read + 1
  /\ UNCHANGED <<input, queue, worker, lines, replay, sent, observed>>

Take(w) ==
  /\ worker[w].at = "idle"
  /\ queue[w[1]] # <<>>
  /\ worker' = [worker EXCEPT ![w] = [at |-> "dispatch", env |-> Head(queue[w[1]])]]
  /\ queue' = [queue EXCEPT ![w[1]] = Tail(@)]
  /\ UNCHANGED <<input, read, refused, lines, replay, sent, observed>>

\* dispatch when the handler returns an error.
Reject(w) ==
  /\ worker[w].at = "dispatch"
  /\ Rejects(worker[w].env)
  /\ Observe(worker[w].env.id, "invalid")
  /\ worker' = [worker EXCEPT ![w] = Nothing]
  /\ UNCHANGED <<input, read, refused, queue, lines, replay, sent>>

\* The handler, up to the call of Manager.Write; which of the two writers comes
\* first depends on the health flag.
HandleEnvelope(w) ==
  /\ worker[w].at = "dispatch"
  /\ ~Rejects(worker[w].env)
  /\ \E at \in {"kafka", "fallback"} :
       worker' = [worker EXCEPT ![w] =
                    [at |-> at, env |-> Handle(@.env), status |-> Status(@.env)]]
  /\ UNCHANGED <<input, read, refused, queue, lines, replay, sent, observed>>

\* Manager.Write has returned and dispatch counts the message.
Written(w) ==
  /\ Observe(worker[w].env.id, worker[w].status)
  /\ worker' = [worker EXCEPT ![w] = Nothing]

WriteKafka(w) ==
  /\ worker[w].at = "kafka"
  /\ sent' = Append(sent, KafkaMessage(worker[w].env))
  /\ Written(w)
  /\ UNCHANGED <<input, read, refused, queue, lines, replay>>

\* Kafka returns an error, which may come after the broker took the message.
WriteKafkaFails(w) ==
  /\ worker[w].at = "kafka"
  /\ sent' \in {sent, Append(sent, KafkaMessage(worker[w].env))}
  /\ worker' = [worker EXCEPT ![w] = [@ EXCEPT !.at = "fallback"]]
  /\ UNCHANGED <<input, read, refused, queue, lines, replay, observed>>

WriteFallback(w) ==
  /\ worker[w].at = "fallback"
  /\ lines' = Append(lines, Line(worker[w].env))
  /\ Written(w)
  /\ UNCHANGED <<input, read, refused, queue, replay, sent>>

\* The file cannot be written: the message is lost and counted all the same.
WriteFallbackFails(w) ==
  /\ worker[w].at = "fallback"
  /\ Written(w)
  /\ UNCHANGED <<input, read, refused, queue, lines, replay, sent>>

\* tryRecover: Peek, then KafkaWriter.Write.  A record whose write fails is
\* behind the scanner and does not come back before a restart.
ReplayPeek ==
  /\ replay.at = "idle"
  /\ lines # <<>>
  /\ replay' = [at |-> "kafka", env |-> PeekEnvelope(Head(lines))]
  /\ lines' = Tail(lines)
  /\ UNCHANGED <<input, read, refused, queue, worker, sent, observed>>

ReplayWrite ==
  /\ replay.at = "kafka"
  /\ sent' \in {sent, Append(sent, KafkaMessage(replay.env))}
  /\ replay' = Nothing
  /\ UNCHANGED <<input, read, refused, queue, worker, lines, observed>>

Idle ==
  /\ read = Len(input) \/ refused # 0
  /\ \A q \in Queues : queue[q] = <<>>
  /\ \A w \in Workers : worker[w].at = "idle"

\* Every frame that was queued is through.
Done == Idle /\ lines = <<>> /\ replay.at = "idle" /\ UNCHANGED vars

Next ==
  \/ Serve \/ ServeRefused
  \/ \E w \in Workers : \/ Take(w) \/ Reject(w) \/ HandleEnvelope(w)
                        \/ WriteKafka(w) \/ WriteKafkaFails(w)
                        \/ WriteFallback(w) \/ WriteFallbackFails(w)
  \/ ReplayPeek \/ ReplayWrite
  \/ Done

Spec == Init /\ [][Next]_vars

-----------------------------------------------------------------------------
(* Properties *)

\* The Kafka side of the protocol, for a frame and a message that came of it:
\* the topic (by level for app-logs), the key, and a value that is the bare
\* payload for the three event topics and else the envelope, with the sender's
\* time stamp text or, without one, the text of the time stamp.  The payload is
\* the sender's document; its spelling may differ.
Contracted(f, m) ==
  /\ f.version = "1.0"
  /\ m.topic = IF f.topic = "app-logs" THEN levelTopic[f.data.doc.level] ELSE f.topic
  /\ m.key = IF f.pk = "" THEN f.trace ELSE f.pk
  /\ m.bare = (f.topic \in {"app.app-event-v1", "sys.sys-event-v1",
                            "dw.exp-assignment-v1"})
  /\ ~m.bare => /\ m.value.topic = m.topic
                /\ m.value.version = "1.0"
                /\ m.value.ts = f.ts
                /\ m.value.tsAt = IF f.tsAt = "" /\ f.ts > 0 THEN "formatted"
                                                          ELSE f.tsAt
  /\ f.data # Absent =>
       f.data.doc = IF m.bare THEN m.value.doc ELSE m.value.data.doc

\* Whichever way a message took (directly, through a fallback line, or both)
\* what Kafka gets is what the protocol says of the frame: the replay path
\* rebuilds WriteRaw, the rewritten topic and the key, none of which a handler
\* sets again.
SentAsContracted == \A i \in DOMAIN sent : Contracted(input[sent[i].id], sent[i])

\* messages_total against what happened to the frames of a connection: a frame is
\* counted at most once; when queues and workers are through, every frame that was
\* read has been counted, except the one that a stopped queue refused, which no
\* metric tells of; and a frame that was dropped, rejected or refused never
\* reaches Kafka or a file.
CountedOnce ==
  /\ \A i \in 1..Len(input) : Len(observed[i]) <= 1
  /\ Idle => \A i \in 1..Len(input) :
               Len(observed[i]) = IF i <= read /\ i # refused THEN 1 ELSE 0
  /\ \A i \in 1..Len(input) :
       observed[i] \in {<<"version_dropped">>, <<"invalid">>} \/ i = refused =>
         /\ \A k \in DOMAIN sent : sent[k].id # i
         /\ \A k \in DOMAIN lines : lines[k].id # i

\* CLIENT_USAGE.md, on messages with one trace id: they are in order in their
\* Kafka partition.
SameTraceInOrder ==
  \A i, j \in DOMAIN sent :
    i < j /\ sent[i].topic = sent[j].topic /\ sent[i].key = sent[j].key =>
      sent[i].id <= sent[j].id
=============================================================================
