------------------------------- MODULE MCSDK --------------------------------
(* The helpers under two goroutines: with options that are Apart            *)
(* (MCSDK.cfg), and with a slice that both append to (MCSDKShared.cfg).     *)
EXTENDS SDK, BodySize

Ctx(t, k) == [traceID |-> t, partitionKey |-> k]
Slice(a, n) == [array |-> a, len |-> n]
Nothing == [kind |-> "nil"]

\* own1 and own2 have room behind their one option, full has none, and empty
\* is no slice at all.
MCArrays == [own1 |-> <<WithPartitionKey("p"), WithPartitionKey("")>>,
             own2 |-> <<WithTraceID("t3"), WithTraceID("")>>,
             full |-> <<WithPartitionKey("p")>>,
             empty |-> <<>>]
MCHash == [t1 |-> 1, t2 |-> 2, t3 |-> 7]

LogCall(fn, c, s) == [fn |-> fn, topic |-> "custom", isNil |-> FALSE,
                      isCtx |-> c # NoOpts, ctx |-> c, opts |-> s,
                      data |-> Nothing]
MsgCall(fn, m, c, s) == [LogCall(fn, c, s) EXCEPT !.data = m]
HTTPCall(fn, b, n, s) == [LogCall(fn, NoOpts, s) EXCEPT
                            !.data = [body |-> b, size |-> n]]

AppMsg == [EventID |-> "e", EventName |-> "n", RequestID |-> "r",
           DeviceUUID |-> "d", BID |-> "b", EventTime |-> 1, AppID |-> 1,
           IsTest |-> 0, PayloadJSON |-> "nil", Mobile |-> ""]
SysMsg == [EventID |-> "e", SourceSystem |-> "s", Message |-> "m",
           EventTime |-> 1, Level |-> "WARN", EventCode |-> " ",
           EventType |-> "x", ContextJSON |-> "object"]
ExpMsg == [ExperimentID |-> "e", SubjectID |-> "s", Variant |-> "v",
           EventID |-> "", AssignedTimeMS |-> 1, IsActive |-> <<1>>]

\* Calls with the slices s in the context c
CallsWith(s, c) ==
  {LogCall(fn, c, s) : fn \in {"Send", "App", "EventTrack", "RPC"}}
  \union {[LogCall("App", c, s) EXCEPT !.isNil = TRUE],
          MsgCall("SendAppMessage", AppMsg, c, s),
          MsgCall("SendAppMessage", [AppMsg EXCEPT !.Mobile = "m"], c, s),
          MsgCall("SendAppMessage", [AppMsg EXCEPT !.PayloadJSON = "text"], c, s),
          MsgCall("SendSysMessage", SysMsg, c, s),
          MsgCall("SendSysMessage", [SysMsg EXCEPT !.EventType = ""], c, s),
          MsgCall("SendExpAssignmentMessage", ExpMsg, c, s),
          MsgCall("SendExpAssignmentMessage", [ExpMsg EXCEPT !.Variant = "ctl"],
                  c, s)}

\* Two calls of one goroutine, with the same slice in different contexts,
\* against one call of another with a slice of its own, with one without room,
\* or with the same one but without a context, so that nothing is appended
OwnPlans ==
  {[g \in {"g1", "g2"} |-> IF g = "g1" THEN <<a, b>> ELSE <<c>>] :
     a \in CallsWith(Slice("own1", 1), Ctx("t1", "k")),
     b \in CallsWith(Slice("own1", 1), NoOpts),
     c \in CallsWith(Slice("own2", 1), Ctx("t2", ""))
           \union CallsWith(Slice("full", 1), Ctx("t2", ""))
           \union CallsWith(Slice("own1", 1), NoOpts)}

\* HTTP bodies: leaves, lists of two leaves and objects of one entry
Leaves ==
  {Nothing, [kind |-> "text", len |-> 1, json |-> 1],
   [kind |-> "text", len |-> 5, json |-> 7], [kind |-> "bytes", len |-> 1],
   [kind |-> "byteArray", len |-> 2, json |-> 9]}
  \union {[kind |-> "string", chars |-> s] :
            s \in {<<>>, <<"a">>, <<"a", "quote">>, <<"nl">>, <<"ctl">>,
                   <<"html">>}}
Trees ==
  Leaves
  \union {[kind |-> "list", elems |-> s] :
            s \in {<<>>} \union {<<a, b>> : a, b \in Leaves}}
  \union {[kind |-> k, entries |-> <<[name |-> <<"a">>, tag |-> t, val |-> b]>>] :
            k \in {"map", "struct"}, t \in {<<"a">>, <<"a", "a">>}, b \in Leaves}
Bodies == Trees \union {[kind |-> "ptr", elem |-> t] : t \in Trees}
          \union {[kind |-> "list", elems |-> <<t>>] : t \in Trees}

HTTPPlans ==
  {[g \in {"g1", "g2"} |->
      IF g = "g1" THEN <<HTTPCall("InboundHTTP", b, n, Slice("own1", 1))>>
      ELSE <<HTTPCall("OutboundHTTP", Nothing, 0, Slice("empty", 0))>>] :
     b \in Bodies, n \in {0, 9}}

MCPlans == OwnPlans \union HTTPPlans

\* The two goroutines pass the same slice, which has room.
SharedPlans ==
  {[g \in {"g1", "g2"} |->
      IF g = "g1"
        THEN <<MsgCall("SendSysMessage", SysMsg, Ctx("t1", ""), Slice("own1", 1))>>
        ELSE <<MsgCall("SendSysMessage", SysMsg, Ctx("t2", ""), Slice("own1", 1))>>]}

MCSizes == {[kind |-> "blank"], [kind |-> "int", value |-> 0],
            [kind |-> "int", value |-> 8], [kind |-> "int", value |-> -1]}
OneSize == {[kind |-> "blank"]}

MCKept(body, declared, limit) == Truncate(body, declared, limit).kind # "nil"

\* Whether an HTTP body is kept agrees with the length of its JSON, which
\* nobody computes: exactly for plain values, and within a factor of 6 (a kept
\* body) or 3 (a dropped one) when characters or numbers are written longer or
\* shorter than they are measured.  All calls use one limit.
BodyFits ==
  \A e \in sent :
    LET call == plan[e.by][e.call]
        n == JSONLen(call.data.body)
    IN /\ call.fn \in {"InboundHTTP", "OutboundHTTP"}
       /\ call.data.body.kind # "nil" /\ call.data.size <= 0
       => /\ Regular(call.data.body, TRUE) => (e.hasBody <=> n <= bodyLimit)
          /\ Regular(call.data.body, FALSE) =>
               IF e.hasBody THEN n <= 6 * bodyLimit ELSE 3 * n > bodyLimit
=============================================================================
