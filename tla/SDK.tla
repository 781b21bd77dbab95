-------------------------------- MODULE SDK ---------------------------------
(***************************************************************************)
(* pkg/logtrack: the exported helpers, from their arguments to the call of *)
(* Client.send (module Client takes it from there).  Goroutines of an      *)
(* application call them at the same time.                                 *)
(*                                                                         *)
(* Options come as a slice, that is an array in the heap and a length: the *)
(* Ctx helpers for messages append to it, and an append writes into the    *)
(* caller's array when it has room.  An option is a pointer, written and   *)
(* read in one go.  Everything else a call does is its own, and one step:  *)
(* no log is passed twice, so that the body a helper drops from it only    *)
(* shows in what is sent.  Init has been called: until then client() is    *)
(* nil and the helpers send nothing (module Client).                       *)
(***************************************************************************)
EXTENDS Integers, Sequences, FiniteSetsExt

CONSTANTS
  Callers,          \* goroutines
  Plans,            \* the calls each goroutine makes, one plan per run
  Arrays,           \* the option arrays of the application, at the start
  Hash,             \* trace id -> fnv32a
  HTTPBodySizes,    \* what LOG_TRACK_HTTP_BODY_SIZE may be set to
  Kept(_, _, _),    \* an HTTP body of a declared size stays below a limit:
                    \* truncateInbound and truncateOutbound (module BodySize)
  MaxConns          \* Config.MaxConns

\* An option sets one field.
Options == [field : {"traceID", "partitionKey"}, value : STRING]

\* The application's arrays hold options, and are not named like goroutines.
ASSUME ArraysAssumption ==
  /\ DOMAIN Arrays \cap Callers = {}
  /\ Arrays \in [DOMAIN Arrays -> Seq(Options)]
\* The calls of a goroutine follow one another, the options of a call are the
\* first ones of an array, and the trace id of a context is a string.
ASSUME PlansAssumption ==
  \A p \in Plans : \A g \in Callers :
    /\ Len(p[g]) \in Nat
    /\ DOMAIN p[g] = 1..Len(p[g])
    /\ \A i \in DOMAIN p[g] :
         /\ p[g][i].opts \in [array : DOMAIN Arrays, len : Nat]
         /\ p[g][i].opts.len <= Len(Arrays[p[g][i].opts.array])
         /\ p[g][i].ctx.traceID \in STRING

VARIABLES
  plan,             \* the plan of this run
  heap,             \* the arrays of options; a goroutine's own under its name
  pc,               \* where each goroutine is in its call
  at,               \* how many calls each goroutine has made
  slice,            \* opts in a helper that appends
  httpEnv,          \* LOG_TRACK_HTTP_BODY_SIZE
  bodyLimit,        \* httpBodySizeLimitCached, or Unread
  sent              \* history: the envelopes passed to Client.send

vars == <<plan, heap, pc, at, slice, httpEnv, bodyLimit, sent>>

Unread == -1
NoSlice == [array |-> "none", len |-> 0]

Init ==
  /\ plan \in Plans
  /\ heap = [a \in DOMAIN Arrays \union Callers |->
               IF a \in Callers THEN <<>> ELSE Arrays[a]]
  /\ pc = [g \in Callers |-> "idle"]
  /\ at = [g \in Callers |-> 0]
  /\ slice = [g \in Callers |-> NoSlice]
  /\ httpEnv \in HTTPBodySizes
  /\ bodyLimit = Unread
  /\ sent = {}

Call(g) == plan[g][at[g] + 1]
Begins(g, fns) == pc[g] = "idle" /\ at[g] < Len(plan[g]) /\ Call(g).fn \in fns

-----------------------------------------------------------------------------
(* option.go *)

NoOpts == [traceID |-> "", partitionKey |-> ""]
WithTraceID(t) == [field |-> "traceID", value |-> t]
WithPartitionKey(k) == [field |-> "partitionKey", value |-> k]

\* Each option in turn sets its field, so that the last one decides.
applyOpts(opts) ==
  [f \in DOMAIN NoOpts |->
     LET setters == {i \in DOMAIN opts : opts[i].field = f}
     IN IF setters = {} THEN NoOpts[f] ELSE opts[Max(setters)].value]

Elements(h, s) == [i \in 1..s.len |-> h[s.array][i]]

\* The Ctx variants fill in what the options leave empty.  A context is what
\* CtxWithTraceID and CtxWithPartitionKey put into it; nil is NoOpts.
OrCtx(o, ctx) == [f \in DOMAIN NoOpts |-> IF o[f] = "" THEN ctx[f] ELSE o[f]]

-----------------------------------------------------------------------------
(* client.go: New and the choice of a connection *)

PoolSize == CASE MaxConns <= 0 -> 4 [] MaxConns > 16 -> 16 [] OTHER -> MaxConns

isEventTopic(topic) ==
  topic \in {"event-tracks", "app.app-event-v1", "sys.sys-event-v1",
             "dw.exp-assignment-v1"}

shardIndex(traceID) == IF traceID = "" THEN 0 ELSE Hash[traceID] % PoolSize

-----------------------------------------------------------------------------
(* The messages: what Validate takes, and the partition key *)

\* strings.TrimSpace(s) == ""
Blank(s) == s \in {"", " "}
messageRequired(m, fields) == \A f \in fields : ~Blank(m[f])
\* nil, or a value whose JSON is an object or an array
messageJSONContainer(v) == v \in {"nil", "object", "array"}

ValidAppMessage(m) ==
  /\ messageRequired(m, {"EventID", "EventName", "RequestID", "DeviceUUID",
                         "BID"})
  /\ m.EventTime > 0 /\ m.AppID > 0
  /\ m.IsTest \in {0, 1}
  /\ messageJSONContainer(m.PayloadJSON)

ValidSysMessage(m) ==
  /\ messageRequired(m, {"EventID", "SourceSystem", "Message"})
  /\ m.EventTime > 0
  /\ m.Level \in {"WARN", "ERROR", "FATAL"}
  /\ ~(Blank(m.EventCode) /\ Blank(m.EventType))
  /\ messageJSONContainer(m.ContextJSON)

\* "ctl" is a text with a control character, "bad" one that is not UTF-8.
ValidExpAssignmentMessage(m) ==
  /\ messageRequired(m, {"ExperimentID", "SubjectID", "Variant"})
  /\ m.AssignedTimeMS > 0
  /\ m.IsActive \in {<<>>, <<0>>, <<1>>}
  /\ \A f \in {"ExperimentID", "SubjectID", "Variant", "EventID"} :
       m[f] \notin {"ctl", "bad"}

\* A key is a sequence of one string, or two for the JSON pair.
AppMessageKey(m) == <<IF m.Mobile = "" THEN m.DeviceUUID ELSE m.Mobile>>
SysMessageKey(m) == <<m.EventID>>
ExpAssignmentMessageKey(m) == <<m.ExperimentID, m.SubjectID>>

MessageFns == {"SendAppMessage", "SendSysMessage", "SendExpAssignmentMessage"}

-----------------------------------------------------------------------------
(* Faulty variants of the definitions below, one plausible mistake each.   *)
(* No specification uses them: they are what the properties at the end of  *)
(* the module must tell from the code.                                     *)

\* The option of the context is appended even if the caller passed a trace id.
AlwaysAppend(g) ==
  /\ Begins(g, MessageFns) /\ Call(g).isCtx
  /\ slice' = [slice EXCEPT ![g] = Call(g).opts]
  /\ pc' = [pc EXCEPT ![g] = "append"]
  /\ UNCHANGED <<plan, heap, at, httpEnv, bodyLimit, sent>>

-----------------------------------------------------------------------------
(* The helpers *)

\* c.send(topic, data, traceID, partitionKey)
Deliver(g, topic, hasBody, traceID, partitionKey) ==
  sent' = sent \union
    {[by |-> g, call |-> at[g] + 1, hasBody |-> hasBody,
      traceID |-> traceID, partitionKey |-> partitionKey,
      shard |-> <<isEventTopic(topic), shardIndex(traceID)>>]}

Return(g) ==
  /\ pc' = [pc EXCEPT ![g] = "idle"]
  /\ at' = [at EXCEPT ![g] = @ + 1]
  /\ slice' = [slice EXCEPT ![g] = NoSlice]

\* What the logs have in common with their Ctx variants; a nil log is not sent.
Log(g, topic, hasBody) ==
  LET call == Call(g)
      o == applyOpts(Elements(heap, call.opts))
      p == IF call.isCtx THEN OrCtx(o, call.ctx) ELSE o
  IN
  /\ IF call.isNil THEN UNCHANGED sent
     ELSE Deliver(g, topic, hasBody, p.traceID, <<p.partitionKey>>)
  /\ Return(g)
  /\ UNCHANGED <<plan, heap, httpEnv>>

Send(g) == /\ Begins(g, {"Send"})
           /\ Log(g, Call(g).topic, FALSE)
           /\ UNCHANGED bodyLimit

App(g) == /\ Begins(g, {"App"})
          /\ Log(g, "app-logs", FALSE)
          /\ UNCHANGED bodyLimit

EventTrack(g) == /\ Begins(g, {"EventTrack"})
                 /\ Log(g, "event-tracks", FALSE)
                 /\ UNCHANGED bodyLimit

RPC(g) == /\ Begins(g, {"RPC"})
          /\ Log(g, "rpc-calls", FALSE)
          /\ UNCHANGED bodyLimit

\* httpBodySizeLimit: read once, at the first call that needs it
ReadLimit == IF bodyLimit # Unread THEN bodyLimit
             ELSE IF httpEnv.kind = "int" /\ httpEnv.value >= 0
                  THEN httpEnv.value ELSE 1024

HTTP(g, topic) ==
  /\ bodyLimit' = IF Call(g).isNil THEN bodyLimit ELSE ReadLimit
  /\ Log(g, topic, Kept(Call(g).data.body, Call(g).data.size, bodyLimit'))

InboundHTTP(g) ==
  Begins(g, {"InboundHTTP"}) /\ HTTP(g, "inbound-http-logs")
OutboundHTTP(g) ==
  Begins(g, {"OutboundHTTP"}) /\ HTTP(g, "outbound-http-logs")

\* SendAppMessageCtx, SendSysMessageCtx, SendExpAssignmentMessageCtx: look for
\* a trace id in the options ...
MessageCtx(g) ==
  LET call == Call(g) IN
  /\ Begins(g, MessageFns) /\ call.isCtx
  /\ slice' = [slice EXCEPT ![g] = call.opts]
  /\ pc' = [pc EXCEPT ![g] =
              IF applyOpts(Elements(heap, call.opts)).traceID = ""
              THEN "append" ELSE "message"]
  /\ UNCHANGED <<plan, heap, at, httpEnv, bodyLimit, sent>>

\* ... and append the one of the context: into the array if it has room, else
\* into a copy.
AppendOpt(g) ==
  LET s == slice[g]
      opt == WithTraceID(Call(g).ctx.traceID)
      roomy == s.len < Len(heap[s.array])
  IN
  /\ pc[g] = "append"
  /\ heap' = IF roomy THEN [heap EXCEPT ![s.array][s.len + 1] = opt]
             ELSE [heap EXCEPT ![g] = Append(Elements(heap, s), opt)]
  /\ slice' = [slice EXCEPT ![g] = [array |-> IF roomy THEN s.array ELSE g,
                                    len |-> s.len + 1]]
  /\ pc' = [pc EXCEPT ![g] = "message"]
  /\ UNCHANGED <<plan, at, httpEnv, bodyLimit, sent>>

\* The messages, called by the application or by a Ctx variant: an invalid one
\* is not sent, and a valid one has a partition key of its own.  Of the options
\* only the trace id is used: WithPartitionKey is without effect.
Message(g, fn, topic, valid, key) ==
  LET call == Call(g)
      opts == IF pc[g] = "message" THEN slice[g] ELSE call.opts
  IN
  /\ \/ pc[g] = "message" /\ call.fn = fn
     \/ Begins(g, {fn}) /\ ~call.isCtx
  /\ IF ~call.isNil /\ valid
       THEN Deliver(g, topic, FALSE, applyOpts(Elements(heap, opts)).traceID, key)
       ELSE UNCHANGED sent
  /\ Return(g)
  /\ UNCHANGED <<plan, heap, httpEnv, bodyLimit>>

SendAppMessage(g) ==
  Message(g, "SendAppMessage", "app.app-event-v1",
          ValidAppMessage(Call(g).data), AppMessageKey(Call(g).data))
SendSysMessage(g) ==
  Message(g, "SendSysMessage", "sys.sys-event-v1",
          ValidSysMessage(Call(g).data), SysMessageKey(Call(g).data))
SendExpAssignmentMessage(g) ==
  Message(g, "SendExpAssignmentMessage", "dw.exp-assignment-v1",
          ValidExpAssignmentMessage(Call(g).data),
          ExpAssignmentMessageKey(Call(g).data))

\* The application changes its environment.
Setenv ==
  /\ httpEnv' \in HTTPBodySizes
  /\ UNCHANGED <<plan, heap, pc, at, slice, bodyLimit, sent>>

Done == (\A g \in Callers : at[g] = Len(plan[g])) /\ UNCHANGED vars

Next ==
  \/ \E g \in Callers :
       \/ Send(g) \/ App(g) \/ EventTrack(g) \/ RPC(g)
       \/ InboundHTTP(g) \/ OutboundHTTP(g)
       \/ MessageCtx(g) \/ AppendOpt(g)
       \/ SendAppMessage(g) \/ SendSysMessage(g) \/ SendExpAssignmentMessage(g)
  \/ Setenv
  \/ Done

Spec == Init /\ [][Next]_vars

-----------------------------------------------------------------------------
(* Properties *)

\* A call that appends to its options, into an array that has room.
AppendsInPlace(call) ==
  /\ call.fn \in MessageFns /\ call.isCtx
  /\ applyOpts(Elements(Arrays, call.opts)).traceID = ""
  /\ call.opts.len < Len(Arrays[call.opts.array])

\* What an application has to see to: such a call overwrites no option of
\* another call, and no two goroutines make such calls on one array.
Apart(p) ==
  \A g, h \in Callers : \A i \in DOMAIN p[g], j \in DOMAIN p[h] :
    LET x == p[g][i]
        y == p[h][j]
    IN AppendsInPlace(x) /\ y.opts.array = x.opts.array
       => /\ y.opts.len <= x.opts.len
          /\ g # h => ~AppendsInPlace(y)

\* The trace id and the partition key a call asks for: those of the options the
\* caller passed, or else those of its context.
Asked(call) ==
  LET o == applyOpts(Elements(Arrays, call.opts))
  IN IF call.isCtx THEN OrCtx(o, call.ctx) ELSE o

\* The helpers for messages take the partition key from the message, whatever the
\* caller's WithPartitionKey says (option.go: it "overrides the Kafka partition
\* key"), so that nothing is said of their key here.
Own(call, e) ==
  /\ e.traceID = Asked(call).traceID
  /\ e.shard[2] = shardIndex(Asked(call).traceID)
  /\ call.fn \notin MessageFns => e.partitionKey = <<Asked(call).partitionKey>>

\* An envelope has the trace id that its own call asked for, whatever other calls
\* did meanwhile, and so takes the connection of that trace; a log also has the
\* partition key of its call.
OwnTrace == \A e \in sent : Own(plan[e.by][e.call], e)
=============================================================================
