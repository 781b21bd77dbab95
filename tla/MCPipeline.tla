----------------------------- MODULE MCPipeline -----------------------------
(* One and two messages through the gateway.                               *)
EXTENDS Pipeline

Doc(k, l, m, r) == [kind |-> k, level |-> l, message |-> m, rpc |-> r]
Sent(d) == [doc |-> d, form |-> "sent"]
Frame(v, t, tr, p, ts, at, d) ==
  [version |-> v, topic |-> t, trace |-> tr, pk |-> p, ts |-> ts, tsAt |-> at,
   data |-> d]

\* Documents that pass and that fail each of the handlers' tests.
MCDocs == {Doc("object", l, m, r) : l \in {"", "ERROR", "DEBUG", "OTHER"},
                                    m \in BOOLEAN, r \in BOOLEAN}
            \union {NullDoc, Doc("other", "", FALSE, FALSE)}
MCData == {Sent(d) : d \in MCDocs} \union {Absent}

MCTopics == {"event-tracks", "outbound-http-logs", "dw.exp-assignment-v1",
             "app-logs", "rpc-calls", "app-logs-error", "custom"}

MCWorkers == {<<"normal", 1>>, <<"normal", 2>>, <<"critical", 1>>}

\* Any single frame.
Singles == {<<Frame(v, t, tr, p, ts, at, d)>> :
              v \in {"1.0", "2.0"}, t \in MCTopics, tr \in {"", "t"},
              p \in {"", "p"}, ts \in {-1, 0, 1}, at \in {"", "given"}, d \in MCData}

\* Two frames of one trace, of each sort of topic.
PairFrames == {Frame("1.0", t, "t", "", 1, "", Sent(Doc("object", "INFO", TRUE, FALSE))) :
                 t \in MCTopics}
Pairs == {<<f, g>> : f \in PairFrames, g \in PairFrames}

OneOrTwo == Singles \union Pairs
=============================================================================
