--------------------------- MODULE PipelineProofs ---------------------------
(***************************************************************************)
(* Proofs about Pipeline for any frames and any workers.  Two facts carry  *)
(* them.  What the protocol asks for is in an envelope from the handler to *)
(* Kafka, also when a fallback line was written and read in between        *)
(* (Faithful, and the lemmas on the conversions).  And a frame is in one   *)
(* place at a time, so that it is counted when it leaves the last one.     *)
(***************************************************************************)
EXTENDS Pipeline, SequenceTheorems, TLAPS

\* Strings.  Those the code assigns are named, since the provers do not know
\* that a literal is in STRING.
Text == STRING \union {"", "formatted"} \union {levelTopic[l] : l \in DOMAIN levelTopic}
Envs == [id : Nat \ {0}, version : Text, topic : Text, trace : Text, pk : Text,
         ts : Int, tsAt : Text, data : Data, raw : BOOLEAN]

\* The places in the input, which are the ids of the envelopes.
Places == 1..Len(input)

\* Frames that serve queues and no handler rejects.
Accepted(f) == f.version = "1.0" /\ ~Rejects(f)

\* The time stamp text of a frame or an envelope: its own, or that of its time stamp.
Stamp(f) == IF f.tsAt = "" /\ f.ts > 0 THEN "formatted" ELSE f.tsAt

\* An envelope as readFrame makes it of its frame.
Fresh(in, env) ==
  /\ env \in Envs
  /\ env.id \in 1..Len(in)
  /\ LET f == in[env.id] IN
       /\ f.version = "1.0"
       /\ env.version = f.version
       /\ env.topic = f.topic
       /\ env.trace = f.trace
       /\ env.pk = f.pk
       /\ env.ts = f.ts
       /\ env.tsAt = Stamp(f)
       /\ env.data = f.data
       /\ env.raw = FALSE

\* An envelope that Manager.Write or the replay may hand to KafkaWriter.Write:
\* what the protocol needs of the frame is in it, whichever way it came.
Faithful(in, env) ==
  /\ env \in Envs
  /\ env.id \in 1..Len(in)
  /\ LET f == in[env.id] IN
       /\ Accepted(f)
       /\ env.topic = IF f.topic = "app-logs" THEN levelTopic[f.data.doc.level] ELSE f.topic
       /\ env.trace = f.trace
       /\ env.pk = f.pk
       /\ f.topic \in RawTopics => env.raw = TRUE
       /\ f.topic \notin RawTopics =>
            /\ env.raw = FALSE
            /\ env.version = "1.0"
            /\ env.ts = f.ts
            /\ env.tsAt = Stamp(f)
       /\ f.data # Absent => env.data # Absent /\ env.data.doc = f.data.doc

\* The statuses that messages_total is counted by.
Outcomes == {"version_dropped", "invalid", "handled", "passthrough"}

\* What a worker or the replay has in hand.
Hands == [at : {"dispatch"}, env : Envs]
           \union [at : {"kafka", "fallback"}, env : Envs, status : {"handled", "passthrough"}]

\* The types.
Typed ==
  /\ input \in Inputs
  /\ read \in 0..Len(input)
  /\ refused \in 0..read
  /\ queue \in [Queues -> Seq(Envs)]
  /\ worker \in [Workers -> Hands \union {Nothing}]
  /\ lines \in Seq({Line(e) : e \in Envs})
  /\ replay \in [at : {"kafka"}, env : Envs] \union {Nothing}
  /\ sent \in Seq({KafkaMessage(e) : e \in Envs})
  /\ observed \in [Places -> Seq(Outcomes)]

\* Up to the handler an envelope is what was read, and from there to Kafka, on
\* both ways, all that the protocol asks for is in it.
Carried ==
  /\ \A q \in Queues : \A k \in 1..Len(queue[q]) : Fresh(input, queue[q][k])
  /\ \A w \in Workers :
       /\ worker[w].at = "dispatch" => Fresh(input, worker[w].env)
       /\ worker[w].at \in {"kafka", "fallback"} => Faithful(input, worker[w].env)
  /\ \A k \in 1..Len(lines) : /\ Faithful(input, PeekEnvelope(lines[k]))
                              /\ PeekEnvelope(lines[k]).id = lines[k].id
  /\ replay.at = "kafka" => Faithful(input, replay.env)
  /\ \A k \in 1..Len(sent) : /\ Accepted(input[sent[k].id])
                             /\ Contracted(input[sent[k].id], sent[k])

\* The frame is in a queue or in a worker's hands.
Inside(i) ==
  \/ \E q \in Queues : \E k \in 1..Len(queue[q]) : queue[q][k].id = i
  \/ \E w \in Workers : worker[w].at # "idle" /\ worker[w].env.id = i

\* It is in one of these places only.
OnePlace ==
  /\ \A q, r \in Queues : \A k \in 1..Len(queue[q]), l \in 1..Len(queue[r]) :
       queue[q][k].id = queue[r][l].id => q = r /\ k = l
  /\ \A v, w \in Workers :
       worker[v].at # "idle" /\ worker[w].at # "idle" /\ worker[v].env.id = worker[w].env.id
         => v = w
  /\ \A q \in Queues, w \in Workers : \A k \in 1..Len(queue[q]) :
       worker[w].at # "idle" => worker[w].env.id # queue[q][k].id

\* The frame was read, and no queue refused it.
PassedOn(i) == i <= read /\ i # refused

\* A frame is counted when it leaves the last of them, and not before; one that
\* was refused has never been in any, and is not counted.
Counted ==
  \A i \in Places :
    /\ Inside(i) => PassedOn(i)
    /\ Inside(i) \/ ~PassedOn(i) => observed[i] = <<>>
    /\ ~Inside(i) /\ PassedOn(i) => Len(observed[i]) = 1

\* Only frames that were passed on are in a file, in the replay or in Kafka.
Admitted ==
  /\ \A k \in 1..Len(lines) : PassedOn(lines[k].id)
  /\ replay.at = "kafka" => PassedOn(replay.env.id)
  /\ \A k \in 1..Len(sent) : sent[k].id \in Places /\ PassedOn(sent[k].id)

\* A frame counted as dropped or invalid is one that no handler passes on.
Told ==
  \A i \in Places :
    observed[i] \in {<<"version_dropped">>, <<"invalid">>} => ~Accepted(input[i])

\* The inductive invariant.
IInv ==
  /\ Typed
  /\ Carried
  /\ OnePlace
  /\ Counted
  /\ Told
  /\ Admitted

-----------------------------------------------------------------------------
(* The conversions *)

\* Every frame is a record of the protocol.
LEMMA InputFrames ==
  ASSUME input \in Inputs
  PROVE  /\ input \in Seq(Frames) /\ Len(input) \in Nat
         /\ \A i \in Places : input[i] \in Frames /\ i \in Nat \ {0}
<1>1. input \in Seq(Frames)
  BY FramesAssumption
<1> QED
  BY <1>1, LenProperties, ElementOfSeq DEF Places

\* EnsureTimestampAt fills in the text and changes no other member.
LEMMA Ensured ==
  ASSUME NEW env \in Envs
  PROVE  LET r == EnsureTimestampAt(env) IN
         /\ r \in Envs
         /\ r.id = env.id /\ r.version = env.version /\ r.topic = env.topic
         /\ r.trace = env.trace /\ r.pk = env.pk /\ r.ts = env.ts
         /\ r.data = env.data /\ r.raw = env.raw
         /\ r.tsAt = Stamp(env)
<1>1. PICK y \in Text : y = TimestampAtFromMillis(env.ts)
  <2>1. TimestampAtFromMillis(env.ts) \in Text
    <3>1. CASE env.ts <= 0
      BY <3>1 DEF TimestampAtFromMillis, Text
    <3>2. CASE ~(env.ts <= 0)
      BY <3>2 DEF TimestampAtFromMillis, Text
    <3> QED
      BY <3>1, <3>2
  <2> QED
    BY <2>1
<1>2. ASSUME env.tsAt = "" PROVE y = Stamp(env)
  <2>1. env.ts \in Int
    BY DEF Envs
  <2>2. PICK ts \in Int : ts = env.ts
    BY <2>1
  <2>3. y = IF ts <= 0 THEN "" ELSE "formatted"
    BY <1>1, <2>2 DEF TimestampAtFromMillis
  <2>4. Stamp(env) = IF ts > 0 THEN "formatted" ELSE ""
    BY <1>2, <2>2 DEF Stamp
  <2>5. ts <= 0 <=> ~(ts > 0)
    OBVIOUS
  <2> QED
    BY <2>3, <2>4, <2>5
<1>3. CASE env.tsAt = ""
  <2> DEFINE r == [env EXCEPT !.tsAt = y]
  <2>1. EnsureTimestampAt(env) = r
    BY <1>1, <1>3 DEF EnsureTimestampAt
  <2>2. /\ r \in Envs
         /\ r.id = env.id /\ r.version = env.version /\ r.topic = env.topic
         /\ r.trace = env.trace /\ r.pk = env.pk /\ r.ts = env.ts
         /\ r.data = env.data /\ r.raw = env.raw
         /\ r.tsAt = y
    BY DEF Envs
  <2> QED
    BY <1>2, <1>3, <2>1, <2>2
<1>4. CASE env.tsAt # ""
  BY <1>4 DEF EnsureTimestampAt, Stamp
<1> QED
  BY <1>3, <1>4

\* Filling it in again changes nothing.
LEMMA StampedOnce ==
  ASSUME NEW f, NEW e, e.tsAt = Stamp(f), e.ts = f.ts
  PROVE  Stamp(e) = Stamp(f)
BY DEF Stamp

\* json.Unmarshal fills every member of the envelope but WriteRaw.
LEMMA Unmarshalled ==
  ASSUME NEW i \in Nat \ {0}, NEW f \in Frames
  PROVE  LET r == Unmarshal(i, f) IN
         /\ r \in Envs
         /\ r.id = i /\ r.version = f.version /\ r.topic = f.topic
         /\ r.trace = f.trace /\ r.pk = f.pk /\ r.ts = f.ts /\ r.tsAt = f.tsAt
         /\ r.data = f.data /\ r.raw = FALSE
<1>1. PICK no \in BOOLEAN : no = FALSE
  OBVIOUS
<1> DEFINE r ==
  [id |-> i, version |-> f.version, topic |-> f.topic, trace |-> f.trace,
   pk |-> f.pk, ts |-> f.ts, tsAt |-> f.tsAt, data |-> f.data, raw |-> no]
<1>2. Unmarshal(i, f) = r
  BY <1>1, Zenon DEF Unmarshal
<1>3.    /\ r \in Envs
         /\ r.id = i /\ r.version = f.version /\ r.topic = f.topic
         /\ r.trace = f.trace /\ r.pk = f.pk /\ r.ts = f.ts /\ r.tsAt = f.tsAt
         /\ r.data = f.data /\ r.raw = no
  BY DEF Envs, Frames, Text
<1> HIDE DEF r
<1> QED
  BY <1>1, <1>2, <1>3, Zenon

\* What readFrame returns.
LEMMA ReadIsFresh ==
  ASSUME input \in Inputs, NEW i \in Places
  PROVE  /\ readFrame(i) \in Envs
         /\ readFrame(i).id = i
         /\ readFrame(i).version = input[i].version
         /\ input[i].version = "1.0" => Fresh(input, readFrame(i))
<1>1. i \in Nat \ {0} /\ input[i] \in Frames
  BY InputFrames
<1> DEFINE u == Unmarshal(i, input[i])
<1>2. /\ u \in Envs
      /\ u.id = i /\ u.version = input[i].version /\ u.topic = input[i].topic
      /\ u.trace = input[i].trace /\ u.pk = input[i].pk /\ u.ts = input[i].ts
      /\ u.tsAt = input[i].tsAt
      /\ u.data = input[i].data /\ u.raw = FALSE
  BY <1>1, Unmarshalled
<1>3. readFrame(i) = EnsureTimestampAt(u)
  BY DEF readFrame
<1> HIDE DEF u
<1> DEFINE r == EnsureTimestampAt(u)
<1>4.    /\ r \in Envs
         /\ r.id = u.id /\ r.version = u.version /\ r.topic = u.topic
         /\ r.trace = u.trace /\ r.pk = u.pk /\ r.ts = u.ts
         /\ r.data = u.data /\ r.raw = u.raw
         /\ r.tsAt = Stamp(u)
  BY <1>2, Ensured
<1>5. Stamp(u) = Stamp(input[i])
  BY <1>2 DEF Stamp
<1> HIDE DEF r
<1> QED
  BY <1>1, <1>2, <1>3, <1>4, <1>5 DEF Fresh, r, Places

\* The members of a record that an assignment to another one leaves alone.
LEMMA TopicSet ==
  ASSUME NEW env \in Envs, NEW y \in Text
  PROVE  LET r == [env EXCEPT !.topic = y] IN
         /\ r \in Envs
         /\ r.id = env.id /\ r.version = env.version /\ r.topic = y
         /\ r.trace = env.trace /\ r.pk = env.pk /\ r.ts = env.ts
         /\ r.tsAt = env.tsAt /\ r.data = env.data /\ r.raw = env.raw
BY DEF Envs

\* The same for the format.
LEMMA RawSet ==
  ASSUME NEW env \in Envs, NEW y \in BOOLEAN
  PROVE  LET r == [env EXCEPT !.raw = y] IN
         /\ r \in Envs
         /\ r.id = env.id /\ r.version = env.version /\ r.topic = env.topic
         /\ r.trace = env.trace /\ r.pk = env.pk /\ r.ts = env.ts
         /\ r.tsAt = env.tsAt /\ r.data = env.data /\ r.raw = y
BY DEF Envs

\* The topics of the levels are strings.
LEMMA LevelTopics ==
  ASSUME NEW l \in DOMAIN levelTopic
  PROVE  levelTopic[l] \in Text
BY DEF Text

\* A handler that accepts an envelope makes it what the protocol says: the topic
\* by level, or the format of the three event topics, and nothing else.
LEMMA HandledIsFaithful ==
  ASSUME NEW in, NEW env, Fresh(in, env), ~Rejects(env)
  PROVE  Faithful(in, Handle(env)) /\ Handle(env).id = env.id
<1> DEFINE f == in[env.id]
<1>1. env \in Envs /\ env.topic = f.topic /\ env.data = f.data
  BY DEF Fresh
<1>2. Accepted(f)
  BY DEF Fresh, Accepted, Rejects
<1>3. CASE env.topic = "app-logs"
  <2>1. f.topic \notin RawTopics
    BY <1>1, <1>3 DEF RawTopics
  <2>2. PICK y \in Text : y = levelTopic[env.data.doc.level]
    BY <1>3, LevelTopics DEF Rejects, AppLogValid
  <2> DEFINE r == [env EXCEPT !.topic = y]
  <2>3. Handle(env) = r
    BY <1>1, <1>3, <2>1, <2>2, Zenon DEF Handle
  <2>4.  /\ r \in Envs
         /\ r.id = env.id /\ r.version = env.version /\ r.topic = y
         /\ r.trace = env.trace /\ r.pk = env.pk /\ r.ts = env.ts
         /\ r.tsAt = env.tsAt /\ r.data = env.data /\ r.raw = env.raw
    BY <1>1, TopicSet
  <2> HIDE DEF r
  <2> QED
    BY <1>1, <1>2, <1>3, <2>1, <2>2, <2>3, <2>4 DEF Fresh, Faithful
<1>4. CASE env.topic \in RawTopics
  <2>1. f.topic # "app-logs" /\ f.topic \in RawTopics
    BY <1>1, <1>4 DEF RawTopics
  <2>2. PICK yes \in BOOLEAN : yes = TRUE
    OBVIOUS
  <2> DEFINE r == [env EXCEPT !.raw = yes]
  <2>3. Handle(env) = r
    BY <1>1, <1>4, <2>1, <2>2, Zenon DEF Handle
  <2>4.  /\ r \in Envs
         /\ r.id = env.id /\ r.version = env.version /\ r.topic = env.topic
         /\ r.trace = env.trace /\ r.pk = env.pk /\ r.ts = env.ts
         /\ r.tsAt = env.tsAt /\ r.data = env.data /\ r.raw = yes
    BY <1>1, RawSet
  <2> HIDE DEF r
  <2> QED
    BY <1>1, <1>2, <2>1, <2>2, <2>3, <2>4 DEF Fresh, Faithful
<1>5. CASE env.topic # "app-logs" /\ env.topic \notin RawTopics
  <2>1. Handle(env) = env
    BY <1>5, Zenon DEF Handle
  <2> QED
    BY <1>1, <1>2, <1>5, <2>1 DEF Fresh, Faithful
<1> QED
  BY <1>3, <1>4, <1>5

\* A respelled document is still the document.
LEMMA Respelled ==
  ASSUME NEW d \in Data
  PROVE  /\ Marshal(d) \in Data /\ Marshal(d) # Absent
         /\ d # Absent => Marshal(d).doc = d.doc
<1>1. NullDoc \in Docs
  BY DEF NullDoc, Docs, Kinds
<1>2. PICK doc \in Docs : doc = IF d = Absent THEN NullDoc ELSE d.doc
  BY <1>1 DEF Data, Texts
<1>3. Marshal(d) = [doc |-> doc, form |-> "marshalled"]
  BY <1>2, Zenon DEF Marshal
<1>4. Marshal(d) \in Texts
  BY <1>3 DEF Texts
<1>5. Marshal(d).doc = doc
  BY <1>3
<1> QED
  BY <1>2, <1>4, <1>5, AbsentAssumption DEF Data

\* json.Marshal of an envelope, member by member.
LEMMA MarshalledFields ==
  ASSUME NEW e
  PROVE  LET r == MarshalEnvelope(e) IN
         /\ r.version = e.version /\ r.topic = e.topic /\ r.trace = e.trace
         /\ r.pk = e.pk /\ r.ts = e.ts /\ r.tsAt = e.tsAt
         /\ r.data = Marshal(e.data)
BY Zenon DEF MarshalEnvelope

\* KafkaWriter.Write makes of such an envelope the message of the contract.
LEMMA MessageIsContracted ==
  ASSUME NEW in, NEW env, Faithful(in, env)
  PROVE  /\ KafkaMessage(env).id = env.id
         /\ Contracted(in[env.id], KafkaMessage(env))
<1> DEFINE f == in[env.id]
           m == KafkaMessage(env)
           e == EnsureTimestampAt(env)
<1>1. env \in Envs /\ f.version = "1.0"
  BY DEF Faithful, Accepted
<1>2. /\ m.id = env.id /\ m.topic = env.topic /\ m.key = selectPartitionKey(env)
      /\ m.bare = env.raw
      /\ m.value = IF env.raw THEN env.data ELSE MarshalEnvelope(e)
  BY Zenon DEF KafkaMessage
<1>3. m.key = IF f.pk = "" THEN f.trace ELSE f.pk
  BY <1>2 DEF selectPartitionKey, Faithful
<1>4. m.topic = IF f.topic = "app-logs" THEN levelTopic[f.data.doc.level] ELSE f.topic
  BY <1>2 DEF Faithful
<1>5. CASE f.topic \in RawTopics
  <2>1. env.raw = TRUE
    BY <1>5 DEF Faithful
  <2>2. m.bare = TRUE /\ m.value = env.data
    BY <1>2, <2>1
  <2>3. (f.topic \in RawTopics) = TRUE
    BY <1>5
  <2>4. f.data # Absent => f.data.doc = IF m.bare THEN m.value.doc ELSE m.value.data.doc
    BY <2>2 DEF Faithful
  <2> HIDE DEF f, m
  <2>5. Contracted(f, m)
    BY <1>1, <1>3, <1>4, <2>2, <2>3, <2>4, Zenon DEF Contracted, RawTopics
  <2> QED
    BY <1>2, <2>5 DEF f, m
<1>6. CASE f.topic \notin RawTopics
  <2>1. env.raw = FALSE
    BY <1>6 DEF Faithful
  <2>2. m.bare = FALSE /\ m.value = MarshalEnvelope(e)
    BY <1>2, <2>1
  <2>3. (f.topic \in RawTopics) = FALSE
    BY <1>6
  <2>4. /\ e.topic = env.topic /\ e.version = env.version /\ e.ts = env.ts
        /\ e.data = env.data
        /\ e.tsAt = Stamp(env)
    BY <1>1, Ensured
  <2>5. /\ m.value.topic = e.topic /\ m.value.version = e.version
        /\ m.value.ts = e.ts /\ m.value.tsAt = e.tsAt
        /\ m.value.data = Marshal(e.data)
    BY <2>2, MarshalledFields
  <2>6. f.data # Absent => f.data.doc = IF m.bare THEN m.value.doc ELSE m.value.data.doc
    BY <1>1, <2>2, <2>4, <2>5, Respelled DEF Faithful, Envs
  <2>7. /\ m.value.topic = m.topic
        /\ m.value.version = "1.0"
        /\ m.value.ts = f.ts
        /\ m.value.tsAt = Stamp(f)
    BY <1>2, <1>6, <2>4, <2>5, StampedOnce DEF Faithful
  <2> HIDE DEF f, m
  <2>8. Contracted(f, m)
    BY <1>1, <1>3, <1>4, <2>2, <2>3, <2>6, <2>7, Zenon DEF Contracted, RawTopics, Stamp
  <2> QED
    BY <1>2, <2>8 DEF f, m
<1> QED
  BY <1>5, <1>6

\* The way through a file: what Peek makes of the line that FallbackWriter.Write
\* made of such an envelope is such an envelope again, in both formats.
LEMMA LineIsFaithful ==
  ASSUME NEW in, NEW env, Faithful(in, env)
  PROVE  /\ Line(env).id = env.id
         /\ PeekEnvelope(Line(env)).id = env.id
         /\ Faithful(in, PeekEnvelope(Line(env)))
<1> DEFINE f == in[env.id]
           l == Line(env)
           d == Marshal(env.data)
           p == PeekEnvelope(l)
<1>1. env \in Envs /\ Accepted(f) /\ env.id \in Nat \ {0}
  BY DEF Faithful, Envs
<1>2. d \in Data /\ d # Absent /\ (env.data # Absent => d.doc = env.data.doc)
  BY <1>1, Respelled DEF Envs
<1>3. l.id = env.id
  BY Zenon DEF Line
<1>4. CASE f.topic \in RawTopics
  <2>1. env.raw = TRUE
    BY <1>4 DEF Faithful
  <2>2. l.fmt = "raw-v1"
    BY <2>1, Zenon DEF Line
  <2>3. l.rec = [topic |-> env.topic, pk |-> env.pk, trace |-> env.trace, data |-> d]
    BY <2>1, Zenon DEF Line
  <2>4. /\ l.rec.topic = env.topic /\ l.rec.pk = env.pk /\ l.rec.trace = env.trace
        /\ l.rec.data = d
    <3> HIDE DEF l, d
    <3> QED
      BY <2>3, SMT
  <2>5. p = [id |-> l.id, version |-> "", topic |-> l.rec.topic,
          trace |-> l.rec.trace, pk |-> l.rec.pk, ts |-> 0, tsAt |-> "",
          data |-> l.rec.data, raw |-> TRUE]
    BY <2>2, Zenon DEF PeekEnvelope
  <2> HIDE DEF l, p, d
  <2>6. PICK yes \in BOOLEAN : yes = TRUE
    OBVIOUS
  <2>b. "" \in Text
    BY DEF Text
  <2>7. PICK none \in Text : none = ""
    BY <2>b
  <2>c. PICK zero \in Int : zero = 0
    OBVIOUS
  <2>8. p = [id |-> env.id, version |-> none, topic |-> env.topic, trace |-> env.trace,
             pk |-> env.pk, ts |-> zero, tsAt |-> none, data |-> d, raw |-> yes]
    BY <1>3, <2>4, <2>5, <2>6, <2>7, <2>c, Zenon
  <2>a. p \in Envs
    BY <1>1, <1>2, <2>8 DEF Envs
  <2>9. /\ p.id = env.id /\ p.topic = env.topic /\ p.trace = env.trace /\ p.pk = env.pk
        /\ p.data = d /\ p.raw = TRUE
    BY <2>6, <2>8, Zenon
  <2> QED
    BY <1>1, <1>2, <1>3, <1>4, <2>9, <2>a DEF Faithful, l, p
<1>5. CASE f.topic \notin RawTopics
  <2> DEFINE e == EnsureTimestampAt(env)
  <2>1. env.raw = FALSE
    BY <1>5 DEF Faithful
  <2>2. l.fmt = "" /\ l.rec = MarshalEnvelope(e)
    BY <2>1, Zenon DEF Line
  <2>3. /\ e \in Envs
        /\ e.id = env.id /\ e.version = env.version /\ e.topic = env.topic
        /\ e.trace = env.trace /\ e.pk = env.pk /\ e.ts = env.ts
        /\ e.data = env.data
        /\ e.tsAt = Stamp(env)
    BY <1>1, Ensured
  <2>4. /\ l.rec.topic = e.topic /\ l.rec.version = e.version
        /\ l.rec.trace = e.trace /\ l.rec.pk = e.pk
        /\ l.rec.ts = e.ts /\ l.rec.tsAt = e.tsAt
        /\ l.rec.data = Marshal(e.data)
    BY <2>2, MarshalledFields
  <2>5. p = Unmarshal(l.id, l.rec)
    BY <2>2 DEF PeekEnvelope
  <2>6. PICK no \in BOOLEAN : no = FALSE
    OBVIOUS
  <2> HIDE DEF l, p, d, e
  <2>7. p = [id |-> l.id, version |-> l.rec.version, topic |-> l.rec.topic,
             trace |-> l.rec.trace, pk |-> l.rec.pk, ts |-> l.rec.ts,
             tsAt |-> l.rec.tsAt, data |-> l.rec.data, raw |-> no]
    BY <2>5, <2>6, Zenon DEF Unmarshal
  <2>8. /\ p.id = env.id /\ p.version = env.version /\ p.topic = env.topic
        /\ p.trace = env.trace /\ p.pk = env.pk /\ p.ts = env.ts /\ p.tsAt = e.tsAt
        /\ p.data = d /\ p.raw = FALSE
    BY <1>3, <2>3, <2>4, <2>6, <2>7 DEF d
  <2>9. p \in Envs
    <3>1. /\ l.id \in Nat \ {0} /\ l.rec.version \in Text /\ l.rec.topic \in Text
          /\ l.rec.trace \in Text /\ l.rec.pk \in Text /\ l.rec.ts \in Int
          /\ l.rec.tsAt \in Text /\ l.rec.data \in Data
      BY <1>1, <1>2, <1>3, <2>3, <2>4 DEF Envs, d
    <3> QED
      BY <2>7, <3>1 DEF Envs
  <2> QED
    BY <1>1, <1>2, <1>3, <1>5, <2>3, <2>8, <2>9, StampedOnce DEF Faithful, l, p
<1> QED
  BY <1>4, <1>5

-----------------------------------------------------------------------------
(* Steps *)

\* The elements of a sequence with one more.
LEMMA AppendIs ==
  ASSUME NEW S, NEW s \in Seq(S), NEW e \in S
  PROVE  /\ Append(s, e) \in Seq(S)
         /\ Len(s) \in Nat
         /\ Len(Append(s, e)) = Len(s) + 1
         /\ \A k \in 1..Len(Append(s, e)) :
              \/ k = Len(s) + 1 /\ Append(s, e)[k] = e
              \/ k \in 1..Len(s) /\ Append(s, e)[k] = s[k]
BY AppendProperties, LenProperties

\* The elements of a sequence without its first.
LEMMA TailIs ==
  ASSUME NEW S, NEW s \in Seq(S), s # <<>>
  PROVE  /\ Tail(s) \in Seq(S) /\ Head(s) \in S /\ Head(s) = s[1]
         /\ Len(s) \in Nat /\ 1 \in 1..Len(s)
         /\ Len(Tail(s)) = Len(s) - 1
         /\ \A k \in 1..Len(Tail(s)) : k + 1 \in 1..Len(s) /\ Tail(s)[k] = s[k + 1]
<1>1. Len(s) \in Nat /\ Len(s) # 0
  BY EmptySeq, LenProperties
<1> QED
  BY <1>1, HeadTailProperties, ElementOfSeq

\* The queue a worker reads.
LEMMA Queuing ==
  ASSUME Typed, NEW w \in Workers
  PROVE  w[1] \in Queues
BY WorkersAssumption

\* The queue serve chooses.
LEMMA QueueForIs ==
  ASSUME NEW env
  PROVE  QueueFor(env) \in Queues
BY DEF QueueFor, Queues

\* What a worker has while it is busy.
LEMMA InHands ==
  ASSUME Typed, NEW w \in Workers
  PROVE  /\ worker[w].at \in {"idle", "dispatch", "kafka", "fallback"}
         /\ worker[w].at # "idle" => worker[w].env \in Envs
         /\ worker[w].at \in {"kafka", "fallback"} =>
              worker[w].status \in {"handled", "passthrough"}
BY DEF Typed, Hands, Nothing

\* A goroutine without an envelope is idle.
LEMMA NothingIsIdle == Nothing.at = "idle"
BY DEF Nothing

\* At the start nothing is read.
LEMMA InitIInv == Init => IInv
<1> SUFFICES ASSUME Init PROVE IInv
  OBVIOUS
<1> USE NothingIsIdle
<1>1. input \in Seq(Frames) /\ Len(input) \in Nat
  BY InputFrames DEF Init
<1>2. \A S : <<>> \in Seq(S)
  BY EmptySeq
<1>3. Typed
  BY <1>1, <1>2 DEF Init, Typed, Places
<1>4. \A q \in Queues : 1..Len(queue[q]) = {}
  BY DEF Init
<1>5. 1..Len(lines) = {} /\ 1..Len(sent) = {}
  BY DEF Init
<1>6. \A w \in Workers : worker[w].at = "idle"
  BY DEF Init
<1>7. replay.at = "idle"
  BY DEF Init
<1>8. Carried /\ OnePlace
  BY <1>4, <1>5, <1>6, <1>7 DEF Carried, OnePlace
<1>9. \A i \in Places : ~Inside(i) /\ ~PassedOn(i) /\ observed[i] = <<>>
  BY <1>1, <1>4, <1>6 DEF Inside, Places, Init, PassedOn
<1>10. Counted /\ Told /\ Admitted
  BY <1>1, <1>5, <1>7, <1>9 DEF Counted, Told, Admitted, Init, Places
<1> QED
  BY <1>3, <1>8, <1>10 DEF IInv

\* Counting an outcome.
LEMMA Observed ==
  ASSUME Typed, NEW i \in Places, NEW o \in Outcomes, Observe(i, o)
  PROVE  /\ observed' \in [Places -> Seq(Outcomes)]
         /\ observed'[i] = Append(observed[i], o)
         /\ \A j \in Places \ {i} : observed'[j] = observed[j]
BY AppendIs DEF Observe, Typed

\* serve reads the next frame, and drops it or queues what readFrame made of it.
LEMMA ServeReads ==
  ASSUME Typed, Serve
  PROVE  /\ read + 1 \in Places /\ read' = read + 1
         /\ UNCHANGED <<input, refused, worker, lines, replay, sent>>
         /\ \/ /\ input[read + 1].version # "1.0"
               /\ Observe(read + 1, "version_dropped")
               /\ UNCHANGED queue
            \/ LET env == readFrame(read + 1) IN
               /\ Fresh(input, env) /\ env.id = read + 1
               /\ queue' = [queue EXCEPT ![QueueFor(env)] = Append(@, env)]
               /\ UNCHANGED observed
<1>1. read + 1 \in Places
  BY InputFrames DEF Typed, Serve, Places
<1>2. /\ readFrame(read + 1).id = read + 1
      /\ readFrame(read + 1).version = input[read + 1].version
      /\ input[read + 1].version = "1.0" => Fresh(input, readFrame(read + 1))
  BY <1>1, ReadIsFresh DEF Typed
<1> QED
  BY <1>1, <1>2 DEF Serve

\* What a worker makes of the envelope it has.
LEMMA WorkerDoes ==
  ASSUME Typed, Carried, NEW w \in Workers
  PROVE  /\ Reject(w) => worker[w].env.id \in Places
         /\ HandleEnvelope(w) =>
              \E env \in Envs, at \in {"kafka", "fallback"}, status \in {"handled", "passthrough"} :
                /\ Faithful(input, env) /\ env.id = worker[w].env.id
                /\ worker' = [worker EXCEPT ![w] = [at |-> at, env |-> env, status |-> status]]
         /\ WriteKafkaFails(w) =>
              worker' = [worker EXCEPT ![w] = [at |-> "fallback", env |-> worker[w].env,
                                               status |-> worker[w].status]]
<1>1. ASSUME Reject(w) PROVE worker[w].env.id \in Places
  BY <1>1 DEF Reject, Carried, Fresh, Places
<1>2. ASSUME HandleEnvelope(w)
      PROVE  \E env \in Envs, at \in {"kafka", "fallback"}, status \in {"handled", "passthrough"} :
               /\ Faithful(input, env) /\ env.id = worker[w].env.id
               /\ worker' = [worker EXCEPT ![w] = [at |-> at, env |-> env, status |-> status]]
  <2>1. Fresh(input, worker[w].env) /\ ~Rejects(worker[w].env)
    BY <1>2 DEF HandleEnvelope, Carried
  <2>2. /\ Faithful(input, Handle(worker[w].env))
        /\ Handle(worker[w].env).id = worker[w].env.id
    BY <2>1, HandledIsFaithful
  <2>3. Status(worker[w].env) \in {"handled", "passthrough"}
    BY DEF Status
  <2>4. PICK at \in {"kafka", "fallback"} :
          worker' = [worker EXCEPT ![w] =
                       [at |-> at, env |-> Handle(worker[w].env),
                        status |-> Status(worker[w].env)]]
    BY <1>2 DEF HandleEnvelope, Typed
  <2>5. PICK env, status : env = Handle(worker[w].env) /\ status = Status(worker[w].env)
    OBVIOUS
  <2>6. worker' = [worker EXCEPT ![w] = [at |-> at, env |-> env, status |-> status]]
    BY <2>4, <2>5
  <2> QED
    BY <2>2, <2>3, <2>5, <2>6 DEF Faithful
<1>3. ASSUME WriteKafkaFails(w)
      PROVE  worker' = [worker EXCEPT ![w] = [at |-> "fallback", env |-> worker[w].env,
                                              status |-> worker[w].status]]
  <2>1. worker[w] \in [at : {"kafka", "fallback"}, env : Envs, status : {"handled", "passthrough"}]
    BY <1>3 DEF WriteKafkaFails, Typed, Hands, Nothing
  <2>2. PICK x : x = worker[w]
    OBVIOUS
  <2>3. [x EXCEPT !.at = "fallback"] = [at |-> "fallback", env |-> x.env, status |-> x.status]
    BY <2>1, <2>2
  <2> QED
    BY <1>3, <2>2, <2>3 DEF WriteKafkaFails
<1> QED
  BY <1>1, <1>2, <1>3

\* What dispatch counts after Manager.Write.
LEMMA WrittenIs ==
  ASSUME Typed, Carried, NEW w \in Workers, worker[w].at \in {"kafka", "fallback"}, Written(w)
  PROVE  /\ worker[w].env.id \in Places
         /\ Faithful(input, worker[w].env)
         /\ worker[w].status \in {"handled", "passthrough"}
         /\ Observe(worker[w].env.id, worker[w].status)
         /\ worker' = [worker EXCEPT ![w] = Nothing]
BY InHands DEF Written, Carried, Faithful, Places

\* Every step keeps the types.
LEMMA NextTyped == IInv /\ [Next]_vars => Typed'
<1> SUFFICES ASSUME IInv, [Next]_vars PROVE Typed'
  OBVIOUS
<1> USE DEF IInv
<1>a. ASSUME NEW e \in Envs
      PROVE  Line(e) \in {Line(x) : x \in Envs} /\ KafkaMessage(e) \in {KafkaMessage(x) : x \in Envs}
  OBVIOUS
<1>b. /\ UNCHANGED <<input, worker, lines, replay, sent, observed>>
      /\ read' \in 0..Len(input) /\ refused' \in 0..read' /\ queue' \in [Queues -> Seq(Envs)]
      => Typed'
  BY DEF Typed, Places
<1>1. ASSUME Serve PROVE Typed'
  <2>1. read + 1 \in 0..Len(input) /\ Len(input) \in Nat /\ refused \in 0..(read + 1)
    BY <1>1, ServeReads, InputFrames DEF Places, Typed
  <2>2. CASE UNCHANGED queue /\ Observe(read + 1, "version_dropped")
    BY <1>1, <2>1, <2>2, ServeReads, Observed DEF Typed, Outcomes, Places
  <2>3. ASSUME NEW env \in Envs, UNCHANGED observed,
               queue' = [queue EXCEPT ![QueueFor(env)] = Append(@, env)]
        PROVE  Typed'
    <3>1. queue' \in [Queues -> Seq(Envs)]
      BY <2>3, QueueForIs, AppendIs DEF Typed
    <3> QED
      BY <1>1, <1>b, <2>1, <2>3, <3>1, ServeReads
  <2> QED
    BY <1>1, <2>2, <2>3, ServeReads DEF Fresh
<1>2. ASSUME NEW w \in Workers, Take(w) PROVE Typed'
  <2>1. /\ Head(queue[w[1]]) \in Envs /\ Tail(queue[w[1]]) \in Seq(Envs)
    BY <1>2, Queuing, TailIs DEF Take, Typed
  <2>2. [at |-> "dispatch", env |-> Head(queue[w[1]])] \in Hands
    BY <2>1 DEF Hands
  <2> QED
    BY <1>2, <2>1, <2>2, Queuing DEF Take, Typed, Places
<1>3. ASSUME NEW w \in Workers, Reject(w) PROVE Typed'
  BY <1>3, WorkerDoes, Observed DEF Reject, Typed, Places, Outcomes
<1>4. ASSUME NEW w \in Workers, HandleEnvelope(w) PROVE Typed'
  <2>1. PICK env \in Envs, at \in {"kafka", "fallback"}, status \in {"handled", "passthrough"} :
                /\ Faithful(input, env)
                /\ worker' = [worker EXCEPT ![w] = [at |-> at, env |-> env, status |-> status]]
    BY <1>4, WorkerDoes
  <2>2. [at |-> at, env |-> env, status |-> status] \in Hands
    BY <2>1 DEF Hands, Faithful
  <2> QED
    BY <1>4, <2>1, <2>2 DEF HandleEnvelope, Typed, Places
<1>5. ASSUME NEW w \in Workers, WriteKafka(w) PROVE Typed'
  <2>1. sent' \in Seq({KafkaMessage(x) : x \in Envs})
    BY <1>5, <1>a, InHands, AppendIs DEF WriteKafka, Typed
  <2> QED
    BY <1>5, <2>1, WrittenIs, Observed DEF WriteKafka, Typed, Places, Outcomes
<1>6. ASSUME NEW w \in Workers, WriteKafkaFails(w) PROVE Typed'
  <2>1. sent' \in Seq({KafkaMessage(x) : x \in Envs})
    <3>1. worker[w].env \in Envs
      BY <1>6, InHands DEF WriteKafkaFails
    <3>2. Append(sent, KafkaMessage(worker[w].env)) \in Seq({KafkaMessage(x) : x \in Envs})
      BY <1>a, <3>1, AppendIs DEF Typed
    <3> QED
      BY <1>6, <3>2 DEF WriteKafkaFails, Typed
  <2>2. [at |-> "fallback", env |-> worker[w].env, status |-> worker[w].status] \in Hands
    BY <1>6, InHands DEF Hands, WriteKafkaFails
  <2> QED
    BY <1>6, <2>1, <2>2, WorkerDoes DEF WriteKafkaFails, Typed, Places
<1>7. ASSUME NEW w \in Workers, WriteFallback(w) PROVE Typed'
  <2>1. lines' \in Seq({Line(x) : x \in Envs})
    BY <1>7, <1>a, InHands, AppendIs DEF WriteFallback, Typed
  <2> QED
    BY <1>7, <2>1, WrittenIs, Observed DEF WriteFallback, Typed, Places, Outcomes
<1>8. ASSUME NEW w \in Workers, WriteFallbackFails(w) PROVE Typed'
  BY <1>8, WrittenIs, Observed DEF WriteFallbackFails, Typed, Places, Outcomes
<1>9. ASSUME ReplayPeek PROVE Typed'
  <2>1. lines' \in Seq({Line(x) : x \in Envs}) /\ Head(lines) = lines[1] /\ 1 \in 1..Len(lines)
    BY <1>9, TailIs DEF ReplayPeek, Typed
  <2>2. PeekEnvelope(Head(lines)) \in Envs
    BY <2>1 DEF Carried, Faithful
  <2>3. replay' \in [at : {"kafka"}, env : Envs]
    BY <1>9, <2>2 DEF ReplayPeek
  <2> QED
    BY <1>9, <2>1, <2>3 DEF ReplayPeek, Typed, Places
<1>10. ASSUME ReplayWrite PROVE Typed'
  <2>1. sent' \in Seq({KafkaMessage(x) : x \in Envs})
    <3>1. replay.env \in Envs
      BY <1>10 DEF ReplayWrite, Typed, Nothing
    <3>2. Append(sent, KafkaMessage(replay.env)) \in Seq({KafkaMessage(x) : x \in Envs})
      BY <1>a, <3>1, AppendIs DEF Typed
    <3> QED
      BY <1>10, <3>2 DEF ReplayWrite, Typed
  <2> QED
    BY <1>10, <2>1 DEF ReplayWrite, Typed, Places
<1>11. CASE UNCHANGED vars
  BY <1>11 DEF vars, Typed, Places
<1>12. ASSUME ServeRefused PROVE Typed'
  <2>1. read + 1 \in 0..Len(input) /\ read + 1 \in 0..(read + 1)
    BY <1>12, InputFrames DEF ServeRefused, Typed
  <2> QED
    BY <1>12, <1>b, <2>1 DEF ServeRefused, Typed
<1> QED
  BY <1>1, <1>2, <1>3, <1>4, <1>5, <1>6, <1>7, <1>8, <1>9, <1>10, <1>11, <1>12 DEF Next, Done

\* What may be in a file, and in Kafka.
Lined(l) == Faithful(input, PeekEnvelope(l)) /\ PeekEnvelope(l).id = l.id
Posted(m) == Accepted(input[m.id]) /\ Contracted(input[m.id], m)

\* A message made of a faithful envelope may be in Kafka.
LEMMA PostedFaithful ==
  ASSUME NEW env, Faithful(input, env)
  PROVE  Posted(KafkaMessage(env))
<1>1. /\ KafkaMessage(env).id = env.id
      /\ Contracted(input[env.id], KafkaMessage(env))
  BY MessageIsContracted
<1> QED
  BY <1>1 DEF Posted, Faithful

\* A line made of a faithful envelope may be in a file.
LEMMA LinedFaithful ==
  ASSUME NEW env, Faithful(input, env)
  PROVE  Lined(Line(env))
BY LineIsFaithful DEF Lined

\* Every step passes on what it was given: serve to the queue, the queue to a
\* worker, the handler to a writer, the writer to Kafka or to a line, and the
\* line to the replay.
LEMMA NextCarried == IInv /\ [Next]_vars => Carried'
<1> SUFFICES ASSUME IInv, [Next]_vars PROVE Carried'
  OBVIOUS
<1> USE DEF IInv
<1> DEFINE Q == \A q \in Queues : \A k \in 1..Len(queue[q]) : Fresh(input, queue[q][k])
           W == \A w \in Workers :
                  /\ worker[w].at = "dispatch" => Fresh(input, worker[w].env)
                  /\ worker[w].at \in {"kafka", "fallback"} => Faithful(input, worker[w].env)
           L == \A k \in 1..Len(lines) : Lined(lines[k])
           R == replay.at = "kafka" => Faithful(input, replay.env)
           S == \A k \in 1..Len(sent) : Posted(sent[k])
<1>a. Carried <=> Q /\ W /\ L /\ R /\ S
  BY DEF Carried, Lined, Posted
<1>b. Carried' <=> Q' /\ W' /\ L' /\ R' /\ S'
  BY DEF Carried, Lined, Posted
<1>c. UNCHANGED <<input, queue>> => Q'
  BY <1>a
<1>d. UNCHANGED <<input, worker>> => W'
  BY <1>a
<1>e. UNCHANGED <<input, lines>> => L'
  BY <1>a DEF Lined
<1>f. UNCHANGED <<input, replay>> => R'
  BY <1>a
<1>g. UNCHANGED <<input, sent>> => S'
  BY <1>a DEF Posted
<1>h. ASSUME UNCHANGED input, NEW w \in Workers, NEW x, worker' = [worker EXCEPT ![w] = x],
             x.at = "dispatch" => Fresh(input, x.env),
             x.at \in {"kafka", "fallback"} => Faithful(input, x.env)
      PROVE  W'
  BY <1>a, <1>h DEF Typed
<1>i. ASSUME UNCHANGED input, NEW env, Faithful(input, env),
             sent' \in {sent, Append(sent, KafkaMessage(env))}
      PROVE  S'
  <2>1. CASE sent' = sent
    BY <1>i, <1>g, <2>1
  <2>2. CASE sent' = Append(sent, KafkaMessage(env))
    <3> DEFINE m == KafkaMessage(env)
    <3>1. m \in {KafkaMessage(e) : e \in Envs} /\ Posted(m)
      BY <1>i, PostedFaithful DEF Faithful
    <3> HIDE DEF m
    <3>2. \A k \in 1..Len(sent') : \/ sent'[k] = m
                                   \/ k \in 1..Len(sent) /\ sent'[k] = sent[k]
      BY <2>2, <3>1, AppendIs DEF Typed, m
    <3>3. \A k \in 1..Len(sent') : Posted(sent'[k])
      BY <1>a, <3>1, <3>2
    <3> QED
      BY <1>i, <3>3 DEF Posted
  <2> QED
    BY <1>i, <2>1, <2>2
<1> HIDE DEF Q, W, L, R, S
<1>1. ASSUME Serve PROVE Carried'
  <2>1. Q'
    <3>1. CASE UNCHANGED queue
      BY <1>1, <1>c, <3>1, ServeReads
    <3>2. ASSUME NEW env, Fresh(input, env),
                 queue' = [queue EXCEPT ![QueueFor(env)] = Append(@, env)]
          PROVE  Q'
      <4> DEFINE q == QueueFor(env)
      <4>1. q \in Queues /\ env \in Envs /\ queue[q] \in Seq(Envs)
        BY <3>2, QueueForIs DEF Fresh, Typed
      <4>2. /\ queue'[q] = Append(queue[q], env)
            /\ \A r \in Queues \ {q} : queue'[r] = queue[r]
        BY <3>2, <4>1 DEF Typed
      <4> HIDE DEF q
      <4>3. \A k \in 1..Len(queue'[q]) : \/ queue'[q][k] = env
                                         \/ k \in 1..Len(queue[q]) /\ queue'[q][k] = queue[q][k]
        BY <4>1, <4>2, AppendIs
      <4>4. \A r \in Queues : \A k \in 1..Len(queue'[r]) : Fresh(input, queue'[r][k])
        BY <1>a, <3>2, <4>1, <4>2, <4>3 DEF Q
      <4> QED
        BY <1>1, <4>4, ServeReads DEF Q
    <3> QED
      BY <1>1, <3>1, <3>2, ServeReads
  <2> QED
    BY <1>1, <1>b, <1>d, <1>e, <1>f, <1>g, <2>1, ServeReads
<1>2. ASSUME NEW w \in Workers, Take(w) PROVE Carried'
  <2> DEFINE q == w[1]
  <2>1. q \in Queues /\ queue[q] \in Seq(Envs) /\ queue[q] # <<>>
    BY <1>2, Queuing DEF Take, Typed
  <2>2. /\ queue'[q] = Tail(queue[q])
        /\ \A r \in Queues \ {q} : queue'[r] = queue[r]
    BY <1>2, <2>1 DEF Take, Typed
  <2>3. UNCHANGED <<input, lines, replay, sent>>
    BY <1>2 DEF Take
  <2>4. worker' = [worker EXCEPT ![w] = [at |-> "dispatch", env |-> Head(queue[q])]]
    BY <1>2 DEF Take
  <2> HIDE DEF q
  <2>5. \A r \in Queues : \A k \in 1..Len(queue'[r]) : Fresh(input, queue'[r][k])
    <3>1. \A k \in 1..Len(queue'[q]) : /\ k + 1 \in 1..Len(queue[q])
                                       /\ queue'[q][k] = queue[q][k + 1]
      BY <2>1, <2>2, TailIs
    <3> QED
      BY <1>a, <2>1, <2>2, <3>1 DEF Q
  <2>6. Q'
    BY <2>3, <2>5 DEF Q
  <2>7. Fresh(input, Head(queue[q]))
    BY <1>a, <2>1, TailIs DEF Q
  <2>8. PICK x : x = [at |-> "dispatch", env |-> Head(queue[q])]
    OBVIOUS
  <2>9. x.at = "dispatch" /\ x.env = Head(queue[q])
    BY <2>8
  <2>10. W'
    BY <1>h, <2>3, <2>4, <2>7, <2>8, <2>9
  <2> QED
    BY <1>b, <1>e, <1>f, <1>g, <2>3, <2>6, <2>10
<1>3. ASSUME NEW w \in Workers, Reject(w) PROVE Carried'
  <2>1. UNCHANGED <<input, queue, lines, replay, sent>> /\ worker' = [worker EXCEPT ![w] = Nothing]
    BY <1>3 DEF Reject
  <2> QED
    BY <1>b, <1>c, <1>e, <1>f, <1>g, <1>h, <2>1, NothingIsIdle
<1>4. ASSUME NEW w \in Workers, HandleEnvelope(w) PROVE Carried'
  <2>1. UNCHANGED <<input, queue, lines, replay, sent>>
    BY <1>4 DEF HandleEnvelope
  <2>2. PICK env \in Envs, at \in {"kafka", "fallback"}, status \in {"handled", "passthrough"} :
                /\ Faithful(input, env)
                /\ worker' = [worker EXCEPT ![w] = [at |-> at, env |-> env, status |-> status]]
    BY <1>4, WorkerDoes
  <2>3. PICK x : x = [at |-> at, env |-> env, status |-> status]
    OBVIOUS
  <2>4. x.at = at /\ x.env = env
    BY <2>3
  <2> QED
    BY <1>b, <1>c, <1>e, <1>f, <1>g, <1>h, <2>1, <2>2, <2>3, <2>4
<1>5. ASSUME NEW w \in Workers, WriteKafka(w) PROVE Carried'
  <2>1. UNCHANGED <<input, queue, lines, replay>> /\ Written(w) /\ worker[w].at = "kafka"
        /\ sent' = Append(sent, KafkaMessage(worker[w].env))
    BY <1>5 DEF WriteKafka
  <2>2. worker' = [worker EXCEPT ![w] = Nothing] /\ Faithful(input, worker[w].env)
    BY <2>1, WrittenIs
  <2>3. S'
    BY <1>i, <2>1, <2>2
  <2> QED
    BY <1>b, <1>c, <1>e, <1>f, <1>h, <2>1, <2>2, <2>3, NothingIsIdle
<1>6. ASSUME NEW w \in Workers, WriteKafkaFails(w) PROVE Carried'
  <2>1. UNCHANGED <<input, queue, lines, replay>> /\ worker[w].at = "kafka"
        /\ sent' \in {sent, Append(sent, KafkaMessage(worker[w].env))}
    BY <1>6 DEF WriteKafkaFails
  <2>2. Faithful(input, worker[w].env)
    BY <1>a, <2>1 DEF W
  <2>3. S'
    BY <1>i, <2>1, <2>2
  <2>4. PICK x : x = [at |-> "fallback", env |-> worker[w].env, status |-> worker[w].status]
    OBVIOUS
  <2>5. x.at = "fallback" /\ x.env = worker[w].env
    BY <2>4
  <2>6. worker' = [worker EXCEPT ![w] = x]
    BY <1>6, <2>4, WorkerDoes
  <2> QED
    BY <1>b, <1>c, <1>e, <1>f, <1>h, <2>1, <2>2, <2>3, <2>5, <2>6
<1>7. ASSUME NEW w \in Workers, WriteFallback(w) PROVE Carried'
  <2>1. UNCHANGED <<input, queue, sent, replay>> /\ Written(w) /\ worker[w].at = "fallback"
        /\ lines' = Append(lines, Line(worker[w].env))
    BY <1>7 DEF WriteFallback
  <2>2. worker' = [worker EXCEPT ![w] = Nothing] /\ Faithful(input, worker[w].env)
    BY <2>1, WrittenIs
  <2>3. L'
    <3> DEFINE l == Line(worker[w].env)
    <3>1. l \in {Line(e) : e \in Envs} /\ Lined(l)
      BY <2>2, LinedFaithful DEF Faithful
    <3> HIDE DEF l
    <3>2. \A k \in 1..Len(lines') : \/ lines'[k] = l
                                    \/ k \in 1..Len(lines) /\ lines'[k] = lines[k]
      BY <2>1, <3>1, AppendIs DEF Typed, l
    <3>3. \A k \in 1..Len(lines') : Lined(lines'[k])
      BY <1>a, <3>1, <3>2 DEF L
    <3> QED
      BY <2>1, <3>3 DEF L, Lined
  <2> QED
    BY <1>b, <1>c, <1>g, <1>f, <1>h, <2>1, <2>2, <2>3, NothingIsIdle
<1>8. ASSUME NEW w \in Workers, WriteFallbackFails(w) PROVE Carried'
  <2>1. UNCHANGED <<input, queue, lines, sent, replay>> /\ Written(w) /\ worker[w].at = "fallback"
    BY <1>8 DEF WriteFallbackFails
  <2>2. worker' = [worker EXCEPT ![w] = Nothing]
    BY <2>1, WrittenIs
  <2> QED
    BY <1>b, <1>c, <1>e, <1>g, <1>f, <1>h, <2>1, <2>2, NothingIsIdle
<1>9. ASSUME ReplayPeek PROVE Carried'
  <2>1. UNCHANGED <<input, queue, worker, sent>> /\ lines # <<>> /\ lines' = Tail(lines)
        /\ replay' = [at |-> "kafka", env |-> PeekEnvelope(Head(lines))]
    BY <1>9 DEF ReplayPeek
  <2>2. \A k \in 1..Len(lines') : Lined(lines'[k])
    BY <1>a, <2>1, TailIs DEF L, Typed
  <2>3. L'
    BY <2>1, <2>2 DEF L, Lined
  <2>4. Faithful(input, PeekEnvelope(Head(lines)))
    BY <1>a, <2>1, TailIs DEF L, Lined, Typed
  <2>5. R'
    BY <2>1, <2>4 DEF R
  <2> QED
    BY <1>b, <1>c, <1>d, <1>g, <2>1, <2>3, <2>5
<1>10. ASSUME ReplayWrite PROVE Carried'
  <2>1. UNCHANGED <<input, queue, worker, lines>> /\ replay.at = "kafka" /\ replay' = Nothing
        /\ sent' \in {sent, Append(sent, KafkaMessage(replay.env))}
    BY <1>10 DEF ReplayWrite
  <2>2. S'
    BY <1>a, <1>i, <2>1 DEF R
  <2>3. R'
    BY <2>1, NothingIsIdle DEF R
  <2> QED
    BY <1>b, <1>c, <1>d, <1>e, <2>1, <2>2, <2>3
<1>11. CASE UNCHANGED vars
  BY <1>11, <1>b, <1>c, <1>d, <1>e, <1>f, <1>g DEF vars
<1>12. CASE ServeRefused
  BY <1>12, <1>b, <1>c, <1>d, <1>e, <1>f, <1>g DEF ServeRefused
<1> QED
  BY <1>1, <1>2, <1>3, <1>4, <1>5, <1>6, <1>7, <1>8, <1>9, <1>10, <1>11, <1>12 DEF Next, Done

-----------------------------------------------------------------------------
(* Where a frame is *)

\* The steps by what they do to the places of frames: read and dropped, read and
\* queued, read and refused, from a queue to a worker, kept by a worker, counted by a worker.
Dropped(i) ==
  /\ i = read + 1 /\ read' = read + 1
  /\ Observe(i, "version_dropped")
  /\ input[i].version # "1.0"
  /\ UNCHANGED <<input, refused, queue, worker>>

Queued(i, q, env) ==
  /\ i = read + 1 /\ read' = read + 1
  /\ env.id = i
  /\ queue' = [queue EXCEPT ![q] = Append(@, env)]
  /\ UNCHANGED <<input, refused, worker, observed>>

Refused(i) ==
  /\ i = read + 1 /\ read' = read + 1
  /\ refused = 0 /\ refused' = i
  /\ UNCHANGED <<input, queue, worker, observed>>

Kept(w, x) ==
  /\ worker[w].at # "idle" /\ x.at # "idle"
  /\ x.env.id = worker[w].env.id
  /\ worker' = [worker EXCEPT ![w] = x]
  /\ UNCHANGED <<input, read, refused, queue, observed>>

Finished(w, i, o) ==
  /\ worker[w].at # "idle"
  /\ i = worker[w].env.id
  /\ o = "invalid" => ~Accepted(input[i])
  /\ Observe(i, o)
  /\ worker' = [worker EXCEPT ![w] = Nothing]
  /\ UNCHANGED <<input, read, refused, queue>>

Elsewhere == UNCHANGED <<input, read, refused, queue, worker, observed>>

\* Every step is one of these.
LEMMA Moves ==
  ASSUME IInv, [Next]_vars
  PROVE  \/ \E i \in Places : Dropped(i)
         \/ \E i \in Places, q \in Queues, env \in Envs : Queued(i, q, env)
         \/ \E i \in Places : Refused(i)
         \/ \E w \in Workers : Take(w)
         \/ \E w \in Workers : \E x : Kept(w, x)
         \/ \E w \in Workers, i \in Places, o \in Outcomes \ {"version_dropped"} : Finished(w, i, o)
         \/ Elsewhere
<1> USE DEF IInv
<1>1. ASSUME Serve
      PROVE  \/ \E i \in Places : Dropped(i)
             \/ \E i \in Places, q \in Queues, env \in Envs : Queued(i, q, env)
  <2>1. CASE input[read + 1].version # "1.0" /\ Observe(read + 1, "version_dropped")
             /\ UNCHANGED queue
    BY <1>1, <2>1, ServeReads DEF Dropped
  <2>2. ASSUME NEW env, Fresh(input, env), env.id = read + 1, UNCHANGED observed,
               queue' = [queue EXCEPT ![QueueFor(env)] = Append(@, env)]
        PROVE  \E i \in Places, q \in Queues, e \in Envs : Queued(i, q, e)
    <3>1. QueueFor(env) \in Queues /\ env \in Envs
      BY <2>2, QueueForIs DEF Fresh
    <3>2. Queued(read + 1, QueueFor(env), env)
      BY <1>1, <2>2, ServeReads DEF Queued
    <3> QED
      BY <1>1, <3>1, <3>2, ServeReads
  <2> QED
    BY <1>1, <2>1, <2>2, ServeReads
<1>2. ASSUME NEW w \in Workers, Reject(w)
      PROVE  \E i \in Places : Finished(w, i, "invalid")
  <2>1. Fresh(input, worker[w].env) /\ Rejects(worker[w].env)
    BY <1>2 DEF Reject, Carried
  <2>2. ~Accepted(input[worker[w].env.id])
    BY <2>1 DEF Accepted, Fresh, Rejects
  <2>3. Finished(w, worker[w].env.id, "invalid")
    BY <1>2, <2>2 DEF Finished, Reject
  <2> QED
    BY <1>2, <2>3, WorkerDoes
<1>3. ASSUME NEW w \in Workers, HandleEnvelope(w) PROVE \E x : Kept(w, x)
  <2>1. PICK env \in Envs, at \in {"kafka", "fallback"}, status \in {"handled", "passthrough"} :
                /\ env.id = worker[w].env.id
                /\ worker' = [worker EXCEPT ![w] = [at |-> at, env |-> env, status |-> status]]
    BY <1>3, WorkerDoes
  <2>2. PICK x : x = [at |-> at, env |-> env, status |-> status]
    OBVIOUS
  <2>3. x.at = at /\ x.env = env
    BY <2>2
  <2> QED
    BY <1>3, <2>1, <2>2, <2>3 DEF Kept, HandleEnvelope
<1>4. ASSUME NEW w \in Workers, WriteKafkaFails(w) PROVE \E x : Kept(w, x)
  <2>1. PICK x : x = [at |-> "fallback", env |-> worker[w].env, status |-> worker[w].status]
    OBVIOUS
  <2>2. x.at = "fallback" /\ x.env = worker[w].env
    BY <2>1
  <2>3. worker' = [worker EXCEPT ![w] = x]
    BY <1>4, <2>1, WorkerDoes
  <2> QED
    BY <1>4, <2>2, <2>3 DEF Kept, WriteKafkaFails
<1>5. ASSUME NEW w \in Workers, WriteKafka(w) \/ WriteFallback(w) \/ WriteFallbackFails(w)
      PROVE  \E i \in Places, o \in Outcomes \ {"version_dropped"} : Finished(w, i, o)
  <2>1. /\ worker[w].at \in {"kafka", "fallback"} /\ Written(w)
        /\ UNCHANGED <<input, read, refused, queue>>
    BY <1>5 DEF WriteKafka, WriteFallback, WriteFallbackFails
  <2>2. worker[w].status \in Outcomes \ {"version_dropped", "invalid"}
    BY <2>1, WrittenIs DEF Outcomes
  <2>3. Finished(w, worker[w].env.id, worker[w].status)
    BY <2>1, <2>2, WrittenIs DEF Finished
  <2> QED
    BY <2>1, <2>2, <2>3, WrittenIs
<1>6. ASSUME ReplayPeek \/ ReplayWrite \/ Done \/ UNCHANGED vars PROVE Elsewhere
  BY <1>6 DEF ReplayPeek, ReplayWrite, Done, vars, Elsewhere
<1>7. "invalid" \in Outcomes \ {"version_dropped"}
  BY DEF Outcomes
<1>8. ASSUME ServeRefused PROVE \E i \in Places : Refused(i)
  <2>1. read + 1 \in Places
    BY <1>8, InputFrames DEF Typed, ServeRefused, Places
  <2>2. Refused(read + 1)
    BY <1>8 DEF ServeRefused, Refused
  <2> QED
    BY <2>1, <2>2
<1> QED
  BY <1>1, <1>2, <1>3, <1>4, <1>5, <1>6, <1>7, <1>8 DEF Next

\* A frame that serve queues was nowhere before: it had not been read.
LEMMA QueuedMoves ==
  ASSUME IInv, NEW i \in Places, NEW q \in Queues, NEW env \in Envs, Queued(i, q, env)
  PROVE  /\ OnePlace'
         /\ \A j : Inside(j)' <=> Inside(j) \/ j = i
<1> USE DEF IInv
<1>1. ~Inside(i)
  BY InputFrames DEF Queued, Counted, PassedOn, Places, Typed
<1>2. /\ \A r \in Queues : \A k \in 1..Len(queue[r]) : queue[r][k].id # i
      /\ \A w \in Workers : worker[w].at # "idle" => worker[w].env.id # i
  BY <1>1 DEF Inside
<1>3. queue[q] \in Seq(Envs) /\ queue'[q] = Append(queue[q], env)
      /\ \A r \in Queues \ {q} : queue'[r] = queue[r]
  BY DEF Queued, Typed
<1>4. /\ Len(queue[q]) \in Nat
      /\ Len(queue'[q]) = Len(queue[q]) + 1
      /\ \A k \in 1..Len(queue'[q]) :
           \/ k = Len(queue[q]) + 1 /\ queue'[q][k] = env
           \/ k \in 1..Len(queue[q]) /\ queue'[q][k] = queue[q][k]
  BY <1>3, AppendIs
<1>5. /\ Len(queue'[q]) \in 1..Len(queue'[q]) /\ queue'[q][Len(queue'[q])] = env
      /\ \A k \in 1..Len(queue[q]) : k \in 1..Len(queue'[q]) /\ queue'[q][k] = queue[q][k]
  BY <1>4
<1>6. env.id = i /\ worker' = worker
  BY DEF Queued
<1>7. \A r \in Queues : \A k \in 1..Len(queue'[r]) :
        \/ r = q /\ k = Len(queue'[q]) /\ queue'[r][k].id = i
        \/ k \in 1..Len(queue[r]) /\ queue'[r][k] = queue[r][k]
  BY <1>3, <1>4, <1>6
<1>8. OnePlace'
  <2>1. ASSUME NEW r \in Queues, NEW t \in Queues, NEW k \in 1..Len(queue'[r]),
               NEW l \in 1..Len(queue'[t]), queue'[r][k].id = queue'[t][l].id
        PROVE  r = t /\ k = l
    <3>1. CASE k \in 1..Len(queue[r]) /\ queue'[r][k] = queue[r][k]
      <4>1. queue'[t][l].id # i
        BY <1>2, <2>1, <3>1
      <4>2. l \in 1..Len(queue[t]) /\ queue'[t][l] = queue[t][l]
        BY <1>7, <4>1
      <4> QED
        BY <2>1, <3>1, <4>2 DEF OnePlace
    <3>2. CASE r = q /\ k = Len(queue'[q]) /\ queue'[r][k].id = i
      <4>1. ~(l \in 1..Len(queue[t]) /\ queue'[t][l] = queue[t][l])
        BY <1>2, <2>1, <3>2
      <4> QED
        BY <1>7, <3>2, <4>1
    <3> QED
      BY <1>7, <3>1, <3>2
  <2>2. ASSUME NEW r \in Queues, NEW v \in Workers, NEW k \in 1..Len(queue'[r]),
               worker'[v].at # "idle"
        PROVE  worker'[v].env.id # queue'[r][k].id
    <3>1. CASE k \in 1..Len(queue[r]) /\ queue'[r][k] = queue[r][k]
      BY <1>6, <2>2, <3>1 DEF OnePlace
    <3>2. CASE queue'[r][k].id = i
      BY <1>2, <1>6, <2>2, <3>2
    <3> QED
      BY <1>7, <3>1, <3>2
  <2> QED
    BY <1>6, <2>1, <2>2 DEF OnePlace
<1>9. ASSUME NEW j PROVE Inside(j)' <=> Inside(j) \/ j = i
  <2>1. Inside(j)' => Inside(j) \/ j = i
    BY <1>6, <1>7 DEF Inside
  <2>2. Inside(j) => Inside(j)'
    BY <1>3, <1>5, <1>6 DEF Inside
  <2>3. j = i => Inside(j)'
    BY <1>5, <1>6 DEF Inside
  <2> QED
    BY <2>1, <2>2, <2>3
<1> QED
  BY <1>8, <1>9

\* Taking the head of a queue moves one frame and keeps the others in order.
LEMMA TakeMoves ==
  ASSUME IInv, NEW w \in Workers, Take(w)
  PROVE  /\ OnePlace'
         /\ \A j : Inside(j)' <=> Inside(j)
<1> USE DEF IInv
<1> DEFINE q == w[1]
<1>1. q \in Queues /\ queue[q] \in Seq(Envs) /\ queue[q] # <<>> /\ worker[w].at = "idle"
  BY Queuing DEF Take, Typed
<1>2. /\ queue'[q] = Tail(queue[q])
      /\ \A r \in Queues \ {q} : queue'[r] = queue[r]
  BY <1>1 DEF Take, Typed
<1>3. /\ Head(queue[q]) = queue[q][1] /\ 1 \in 1..Len(queue[q])
      /\ Len(queue[q]) \in Nat
      /\ Len(queue'[q]) = Len(queue[q]) - 1
      /\ \A k \in 1..Len(queue'[q]) : /\ k + 1 \in 1..Len(queue[q])
                                      /\ queue'[q][k] = queue[q][k + 1]
  BY <1>1, <1>2, TailIs
<1>4. /\ worker'[w].at = "dispatch" /\ worker'[w].env = queue[q][1]
      /\ \A v \in Workers \ {w} : worker'[v] = worker[v]
  BY <1>3 DEF Take, Typed
<1> HIDE DEF q
<1>5. ASSUME NEW r \in Queues, NEW k \in 1..Len(queue'[r])
      PROVE  \E l \in 1..Len(queue[r]) :
               /\ queue'[r][k] = queue[r][l]
               /\ r = q => l = k + 1 /\ l # 1
               /\ r # q => l = k
  <2>1. CASE r = q
    <3>1. k + 1 \in 1..Len(queue[r]) /\ queue'[r][k] = queue[r][k + 1] /\ k + 1 # 1
      BY <1>3, <2>1
    <3> QED
      BY <2>1, <3>1
  <2>2. CASE r # q
    BY <1>2, <2>2
  <2> QED
    BY <2>1, <2>2
<1>6. OnePlace'
  <2>1. ASSUME NEW r \in Queues, NEW t \in Queues, NEW k \in 1..Len(queue'[r]),
               NEW l \in 1..Len(queue'[t]), queue'[r][k].id = queue'[t][l].id
        PROVE  r = t /\ k = l
    <3>1. PICK m \in 1..Len(queue[r]) : /\ queue'[r][k] = queue[r][m]
                                        /\ r = q => m = k + 1
                                        /\ r # q => m = k
      BY <1>5
    <3>2. PICK n \in 1..Len(queue[t]) : /\ queue'[t][l] = queue[t][n]
                                        /\ t = q => n = l + 1
                                        /\ t # q => n = l
      BY <1>5
    <3>3. r = t /\ m = n
      BY <2>1, <3>1, <3>2 DEF OnePlace
    <3> QED
      BY <3>1, <3>2, <3>3
  <2>2. ASSUME NEW u \in Workers, NEW v \in Workers, worker'[u].at # "idle", worker'[v].at # "idle",
               worker'[u].env.id = worker'[v].env.id
        PROVE  u = v
    BY <1>1, <1>3, <1>4, <2>2 DEF OnePlace
  <2>3. ASSUME NEW r \in Queues, NEW v \in Workers, NEW k \in 1..Len(queue'[r]), worker'[v].at # "idle"
        PROVE  worker'[v].env.id # queue'[r][k].id
    <3>1. PICK m \in 1..Len(queue[r]) : queue'[r][k] = queue[r][m] /\ (r = q => m # 1)
      BY <1>5
    <3>2. CASE v = w
      BY <1>1, <1>3, <1>4, <3>1, <3>2 DEF OnePlace
    <3>3. CASE v # w
      BY <1>4, <2>3, <3>1, <3>3 DEF OnePlace
    <3> QED
      BY <3>2, <3>3
  <2> QED
    BY <2>1, <2>2, <2>3 DEF OnePlace
<1>7. ASSUME NEW j PROVE Inside(j)' <=> Inside(j)
  <2>1. ASSUME NEW r \in Queues, NEW k \in 1..Len(queue'[r]), queue'[r][k].id = j
        PROVE  Inside(j)
    <3>1. PICK m \in 1..Len(queue[r]) : queue'[r][k] = queue[r][m]
      BY <1>5
    <3> QED
      BY <2>1, <3>1 DEF Inside
  <2>2. ASSUME NEW v \in Workers, worker'[v].at # "idle", worker'[v].env.id = j
        PROVE  Inside(j)
    BY <1>1, <1>3, <1>4, <2>2 DEF Inside
  <2>3. ASSUME NEW r \in Queues, NEW k \in 1..Len(queue[r]), queue[r][k].id = j
        PROVE  Inside(j)'
    <3>1. CASE r = q /\ k = 1
      <4>1. worker'[w].at # "idle" /\ worker'[w].env.id = j
        BY <1>4, <2>3, <3>1
      <4> QED
        BY <4>1 DEF Inside
    <3>2. CASE r = q /\ k # 1
      <4>1. k - 1 \in 1..Len(queue'[r]) /\ queue'[r][k - 1] = queue[r][k]
        BY <1>3, <3>2
      <4> QED
        BY <2>3, <4>1 DEF Inside
    <3>3. CASE r # q
      BY <1>2, <2>3, <3>3 DEF Inside
    <3> QED
      BY <3>1, <3>2, <3>3
  <2>4. ASSUME NEW v \in Workers, worker[v].at # "idle", worker[v].env.id = j
        PROVE  Inside(j)'
    BY <1>1, <1>4, <2>4 DEF Inside
  <2> QED
    BY <2>1, <2>2, <2>3, <2>4 DEF Inside
<1> QED
  BY <1>6, <1>7

\* A worker that goes on with its envelope moves no frame.
LEMMA KeptMoves ==
  ASSUME IInv, NEW w \in Workers, NEW x, Kept(w, x)
  PROVE  /\ OnePlace'
         /\ \A j : Inside(j)' <=> Inside(j)
<1> USE DEF IInv
<1>1. /\ queue' = queue
      /\ \A v \in Workers : /\ worker'[v].at = "idle" <=> worker[v].at = "idle"
                            /\ worker'[v].at # "idle" => worker'[v].env.id = worker[v].env.id
  BY DEF Kept, Typed
<1>2. OnePlace'
  BY <1>1 DEF OnePlace
<1>3. ASSUME NEW j PROVE Inside(j)' <=> Inside(j)
  BY <1>1 DEF Inside
<1> QED
  BY <1>2, <1>3

\* A frame that a worker has counted is nowhere after.
LEMMA FinishedMoves ==
  ASSUME IInv, NEW w \in Workers, NEW i \in Places, NEW o, Finished(w, i, o)
  PROVE  /\ OnePlace'
         /\ Inside(i)
         /\ \A j : Inside(j)' <=> Inside(j) /\ j # i
<1> USE DEF IInv
<1>1. /\ queue' = queue /\ worker[w].at # "idle" /\ worker[w].env.id = i
      /\ worker'[w].at = "idle"
      /\ \A v \in Workers \ {w} : worker'[v] = worker[v]
  BY NothingIsIdle DEF Finished, Typed
<1>2. OnePlace'
  BY <1>1 DEF OnePlace
<1>3. ASSUME NEW j PROVE Inside(j)' <=> Inside(j) /\ j # i
  <2>1. Inside(j)' => Inside(j) /\ j # i
    BY <1>1 DEF Inside, OnePlace
  <2>2. Inside(j) /\ j # i => Inside(j)'
    BY <1>1 DEF Inside
  <2> QED
    BY <2>1, <2>2
<1> QED
  BY <1>1, <1>2, <1>3 DEF Inside

\* Every step counts a frame exactly when it leaves its last place.
LEMMA NextCounts == IInv /\ [Next]_vars => OnePlace' /\ Counted' /\ Told'
<1> SUFFICES ASSUME IInv, [Next]_vars PROVE OnePlace' /\ Counted' /\ Told'
  OBVIOUS
<1> USE DEF IInv
<1>a. read \in Nat /\ Len(input) \in Nat /\ \A i \in Places : i \in Nat
  BY InputFrames DEF Typed, Places
<1>b. ASSUME read' = read + 1, UNCHANGED refused, NEW j \in Places
      PROVE  /\ PassedOn(j)' <=> PassedOn(j) \/ j = read + 1
             /\ j = read + 1 => ~PassedOn(j)
  BY <1>a, <1>b DEF Typed, PassedOn
<1>1. ASSUME NEW i \in Places, Dropped(i) PROVE OnePlace' /\ Counted' /\ Told'
  <2>1. /\ UNCHANGED <<input, refused, queue, worker>> /\ i = read + 1 /\ read' = read + 1
        /\ input[i].version # "1.0"
    BY <1>1 DEF Dropped
  <2>2. OnePlace' /\ \A j : Inside(j)' <=> Inside(j)
    BY <2>1 DEF OnePlace, Inside
  <2>3. observed[i] = <<>> /\ ~Inside(i)
    BY <1>b, <2>1 DEF Counted
  <2>4. /\ observed'[i] = <<"version_dropped">>
        /\ \A j \in Places \ {i} : observed'[j] = observed[j]
    BY <1>1, <2>3, Observed DEF Dropped, Outcomes
  <2>5. Len(observed'[i]) = 1 /\ ~Accepted(input[i])
    BY <2>1, <2>4 DEF Accepted
  <2>6. Places' = Places
    BY <2>1 DEF Places
  <2>7. Counted'
    <3>1. ASSUME NEW j \in Places
          PROVE  /\ Inside(j)' => PassedOn(j)'
                 /\ Inside(j)' \/ ~PassedOn(j)' => observed'[j] = <<>>
                 /\ ~Inside(j)' /\ PassedOn(j)' => Len(observed'[j]) = 1
      <4>1. CASE j = i
        BY <1>b, <2>1, <2>2, <2>3, <2>5, <4>1
      <4>2. CASE j # i
        BY <1>b, <2>1, <2>2, <2>4, <4>2 DEF Counted
      <4> QED
        BY <4>1, <4>2
    <3> QED
      BY <2>6, <3>1 DEF Counted
  <2>8. Told'
    BY <2>1, <2>4, <2>5, <2>6 DEF Told
  <2> QED
    BY <2>2, <2>7, <2>8
<1>2. ASSUME NEW i \in Places, NEW q \in Queues, NEW env \in Envs, Queued(i, q, env)
      PROVE  OnePlace' /\ Counted' /\ Told'
  <2>1. UNCHANGED <<input, refused, observed>> /\ i = read + 1 /\ read' = read + 1
    BY <1>2 DEF Queued
  <2>2. OnePlace' /\ \A j : Inside(j)' <=> Inside(j) \/ j = i
    BY <1>2, QueuedMoves
  <2>3. Places' = Places
    BY <2>1 DEF Places
  <2>4. ASSUME NEW j \in Places
        PROVE  /\ Inside(j)' => PassedOn(j)'
               /\ Inside(j)' \/ ~PassedOn(j)' => observed'[j] = <<>>
               /\ ~Inside(j)' /\ PassedOn(j)' => Len(observed'[j]) = 1
    BY <1>b, <2>1, <2>2 DEF Counted
  <2> QED
    BY <2>1, <2>2, <2>3, <2>4 DEF Counted, Told
<1>3. ASSUME UNCHANGED <<input, read, refused, observed>>, OnePlace', \A j : Inside(j)' <=> Inside(j)
      PROVE  OnePlace' /\ Counted' /\ Told'
  <2>1. Places' = Places
    BY <1>3 DEF Places
  <2> QED
    BY <1>3, <2>1 DEF Counted, Told, PassedOn
<1>4. ASSUME NEW w \in Workers, NEW i \in Places, NEW o \in Outcomes \ {"version_dropped"},
             Finished(w, i, o)
      PROVE  OnePlace' /\ Counted' /\ Told'
  <2>1. UNCHANGED <<input, read, refused>> /\ (o = "invalid" => ~Accepted(input[i]))
    BY <1>4 DEF Finished
  <2>2. OnePlace' /\ Inside(i) /\ \A j : Inside(j)' <=> Inside(j) /\ j # i
    BY <1>4, FinishedMoves
  <2>3. observed[i] = <<>> /\ PassedOn(i) /\ \A j : PassedOn(j)' <=> PassedOn(j)
    BY <2>1, <2>2 DEF Counted, PassedOn
  <2>4. /\ observed'[i] = <<o>>
        /\ \A j \in Places \ {i} : observed'[j] = observed[j]
    BY <1>4, <2>3, Observed DEF Finished
  <2>5. Len(observed'[i]) = 1
    BY <2>4
  <2>6. Places' = Places
    BY <2>1 DEF Places
  <2>7. ASSUME NEW j \in Places
        PROVE  /\ Inside(j)' => PassedOn(j)'
               /\ Inside(j)' \/ ~PassedOn(j)' => observed'[j] = <<>>
               /\ ~Inside(j)' /\ PassedOn(j)' => Len(observed'[j]) = 1
    <3>1. CASE j = i
      BY <2>2, <2>3, <2>5, <3>1
    <3>2. CASE j # i
      BY <2>2, <2>3, <2>4, <3>2 DEF Counted
    <3> QED
      BY <3>1, <3>2
  <2>8. <<o>> \in {<<"version_dropped">>, <<"invalid">>} => o = "invalid"
    <3>1. <<o>>[1] = o /\ <<"version_dropped">>[1] = "version_dropped"
          /\ <<"invalid">>[1] = "invalid"
      OBVIOUS
    <3> QED
      BY <1>4, <3>1
  <2>9. Told'
    BY <2>1, <2>4, <2>6, <2>8 DEF Told
  <2> QED
    BY <2>2, <2>6, <2>7, <2>9 DEF Counted
<1>5. ASSUME NEW w \in Workers, Take(w) PROVE OnePlace' /\ Counted' /\ Told'
  BY <1>3, <1>5, TakeMoves DEF Take
<1>6. ASSUME NEW w \in Workers, NEW x, Kept(w, x) PROVE OnePlace' /\ Counted' /\ Told'
  BY <1>3, <1>6, KeptMoves DEF Kept
<1>7. ASSUME Elsewhere PROVE OnePlace' /\ Counted' /\ Told'
  <2>1. OnePlace' /\ \A j : Inside(j)' <=> Inside(j)
    BY <1>7 DEF Elsewhere, OnePlace, Inside
  <2> QED
    BY <1>3, <1>7, <2>1 DEF Elsewhere
<1>8. ASSUME NEW i \in Places, Refused(i) PROVE OnePlace' /\ Counted' /\ Told'
  <2>1. UNCHANGED <<input, queue, worker, observed>> /\ Places' = Places
    BY <1>8 DEF Refused, Places
  <2>2. \A j \in Places : PassedOn(j)' <=> PassedOn(j)
    BY <1>a, <1>8 DEF Refused, PassedOn, Places
  <2>3. OnePlace' /\ \A j : Inside(j)' <=> Inside(j)
    BY <2>1 DEF OnePlace, Inside
  <2> QED
    BY <2>1, <2>2, <2>3 DEF Counted, Told
<1> QED
  BY <1>1, <1>2, <1>4, <1>5, <1>6, <1>7, <1>8, Moves

\* A frame that was read and not refused stays so, and is the only kind that a
\* worker writes or a replay reads.
LEMMA NextAdmitted == IInv /\ [Next]_vars => Admitted'
<1> SUFFICES ASSUME IInv, [Next]_vars PROVE Admitted'
  OBVIOUS
<1> USE DEF IInv
<1> DEFINE StillPassedOn(i) == i <= read' /\ i # refused'
<1>1. ASSUME NEW i \in Places, PassedOn(i) PROVE StillPassedOn(i)
  <2>1. i \in Nat \ {0} /\ read \in Nat
    BY InputFrames DEF Typed
  <2>2. \/ UNCHANGED <<read, refused>>
        \/ read' = read + 1 /\ UNCHANGED refused
        \/ read' = read + 1 /\ refused' = read + 1
    BY Moves DEF Dropped, Queued, Refused, Take, Kept, Finished, Elsewhere
  <2> QED
    BY <1>1, <2>1, <2>2 DEF PassedOn
<1>2. ASSUME NEW w \in Workers, worker[w].at \in {"kafka", "fallback"}
      PROVE  /\ worker[w].env \in Envs /\ Faithful(input, worker[w].env)
             /\ worker[w].env.id \in Places /\ PassedOn(worker[w].env.id)
  <2>1. Faithful(input, worker[w].env)
    BY <1>2 DEF Carried
  <2>2. Inside(worker[w].env.id)
    BY <1>2 DEF Inside
  <2> QED
    BY <2>1, <2>2 DEF Faithful, Counted, Places
<1>3. ASSUME NEW k \in 1..Len(lines) PROVE lines[k].id \in Places /\ PassedOn(lines[k].id)
  BY DEF Carried, Faithful, Places, Admitted
<1>4. ASSUME replay.at = "kafka"
      PROVE  /\ replay.env \in Envs /\ Faithful(input, replay.env)
             /\ replay.env.id \in Places /\ PassedOn(replay.env.id)
  BY <1>4 DEF Carried, Faithful, Places, Admitted
<1> DEFINE L == \A k \in 1..Len(lines) : PassedOn(lines[k].id)
           R == replay.at = "kafka" => PassedOn(replay.env.id)
           S == \A k \in 1..Len(sent) : sent[k].id \in Places /\ PassedOn(sent[k].id)
<1>5. Places' = Places
  BY Moves DEF Dropped, Queued, Refused, Take, Kept, Finished, Elsewhere, Places
<1>6. UNCHANGED lines => L'
  BY <1>1, <1>3 DEF PassedOn
<1>7. UNCHANGED replay => R'
  BY <1>1, <1>4 DEF PassedOn
<1>8. UNCHANGED sent => S'
  BY <1>1, <1>5 DEF Admitted, PassedOn
<1>9. ASSUME NEW env, Faithful(input, env), env.id \in Places, PassedOn(env.id),
             sent' \in {sent, Append(sent, KafkaMessage(env))}
      PROVE  S'
  <2>1. CASE sent' = sent
    BY <1>8, <2>1
  <2>2. CASE sent' = Append(sent, KafkaMessage(env))
    <3> DEFINE m == KafkaMessage(env)
    <3>1. m \in {KafkaMessage(e) : e \in Envs} /\ m.id = env.id
      BY <1>9, MessageIsContracted DEF Faithful
    <3> HIDE DEF m
    <3>2. \A k \in 1..Len(sent') : \/ sent'[k] = m
                                   \/ k \in 1..Len(sent) /\ sent'[k] = sent[k]
      BY <2>2, <3>1, AppendIs DEF Typed, m
    <3>3. StillPassedOn(m.id) /\ m.id \in Places
      BY <1>1, <1>9, <3>1
    <3>4. ASSUME NEW k \in 1..Len(sent') PROVE sent'[k].id \in Places /\ StillPassedOn(sent'[k].id)
      BY <1>1, <3>2, <3>3 DEF Admitted
    <3> QED
      BY <1>5, <3>4 DEF PassedOn
  <2> QED
    BY <1>9, <2>1, <2>2
<1>10. Admitted' <=> L' /\ R' /\ S'
  BY DEF Admitted
<1> HIDE DEF L, R, S
<1>11. CASE UNCHANGED <<lines, replay, sent>>
  BY <1>6, <1>7, <1>8, <1>10, <1>11
<1>12. ASSUME NEW w \in Workers, WriteKafka(w) \/ WriteKafkaFails(w) PROVE Admitted'
  BY <1>2, <1>6, <1>7, <1>9, <1>10, <1>12 DEF WriteKafka, WriteKafkaFails
<1>13. ASSUME NEW w \in Workers, WriteFallback(w) PROVE Admitted'
  <2> DEFINE l == Line(worker[w].env)
  <2>1. /\ worker[w].at = "fallback" /\ UNCHANGED <<replay, sent>>
        /\ lines' = Append(lines, l)
    BY <1>13 DEF WriteFallback
  <2>2. /\ l \in {Line(e) : e \in Envs} /\ l.id = worker[w].env.id
    BY <1>2, <2>1, LineIsFaithful
  <2> HIDE DEF l
  <2>3. \A k \in 1..Len(lines') : \/ lines'[k] = l
                                  \/ k \in 1..Len(lines) /\ lines'[k] = lines[k]
    BY <2>1, <2>2, AppendIs DEF Typed
  <2>4. StillPassedOn(l.id)
    BY <1>1, <1>2, <2>1, <2>2
  <2>5. \A k \in 1..Len(lines') : StillPassedOn(lines'[k].id)
    BY <1>1, <1>3, <2>3, <2>4
  <2> QED
    BY <1>7, <1>8, <1>10, <2>1, <2>5 DEF L, PassedOn
<1>14. ASSUME ReplayPeek PROVE Admitted'
  <2>1. /\ UNCHANGED sent /\ lines # <<>> /\ lines' = Tail(lines)
        /\ replay' = [at |-> "kafka", env |-> PeekEnvelope(Head(lines))]
    BY <1>14 DEF ReplayPeek
  <2>2. /\ Head(lines) = lines[1] /\ 1 \in 1..Len(lines)
        /\ \A k \in 1..Len(lines') : k + 1 \in 1..Len(lines) /\ lines'[k] = lines[k + 1]
    BY <2>1, TailIs DEF Typed
  <2>3. L'
    BY <1>1, <1>3, <2>2 DEF L, PassedOn
  <2>4. replay'.env.id = lines[1].id
    BY <2>1, <2>2 DEF Carried
  <2>5. R'
    BY <1>1, <1>3, <2>2, <2>4 DEF R, PassedOn
  <2> QED
    BY <1>8, <1>10, <2>1, <2>3, <2>5
<1>15. ASSUME ReplayWrite PROVE Admitted'
  <2>1. /\ UNCHANGED lines /\ replay.at = "kafka" /\ replay'.at = "idle"
        /\ sent' \in {sent, Append(sent, KafkaMessage(replay.env))}
    BY <1>15, NothingIsIdle DEF ReplayWrite
  <2>2. R'
    BY <2>1 DEF R
  <2> QED
    BY <1>4, <1>6, <1>9, <1>10, <2>1, <2>2
<1>16. ASSUME NEW w \in Workers, Take(w) \/ Reject(w) \/ HandleEnvelope(w) \/ WriteFallbackFails(w)
       PROVE  UNCHANGED <<lines, replay, sent>>
  BY <1>16 DEF Take, Reject, HandleEnvelope, WriteFallbackFails
<1>17. ASSUME Serve \/ ServeRefused \/ Done \/ UNCHANGED vars
       PROVE  UNCHANGED <<lines, replay, sent>>
  BY <1>17 DEF Serve, ServeRefused, Done, vars
<1> QED
  BY <1>11, <1>12, <1>13, <1>14, <1>15, <1>16, <1>17 DEF Next


\* The inductive invariant holds for any frames on the connection, any number of
\* workers of each queue, and any choice between Kafka and the files.
THEOREM Inductive == Spec => []IInv
<1>1. IInv /\ [Next]_vars => IInv'
  BY NextTyped, NextCarried, NextCounts, NextAdmitted DEF IInv
<1> QED
  BY <1>1, InitIInv, PTL DEF Spec

\* Every message in Kafka is what the protocol says of its frame, whether the
\* handler's envelope was written directly, after a failed write, or read back
\* from a fallback line.
THEOREM Contractual == Spec => []SentAsContracted
<1>1. IInv => SentAsContracted
  <2> SUFFICES ASSUME IInv PROVE SentAsContracted
    OBVIOUS
  <2>1. DOMAIN sent = 1..Len(sent)
    BY LenProperties DEF IInv, Typed
  <2> QED
    BY <2>1 DEF IInv, Carried, SentAsContracted
<1> QED
  BY <1>1, Inductive, PTL

\* When serve, the queues and the workers are through, every frame that was read
\* is counted once but the one that a stopped queue refused; and a frame dropped,
\* rejected or refused is in no file and not in Kafka.
THEOREM Counting == Spec => []CountedOnce
<1>1. IInv => CountedOnce
  <2> SUFFICES ASSUME IInv PROVE CountedOnce
    OBVIOUS
  <2> USE DEF IInv
  <2>1. DOMAIN sent = 1..Len(sent) /\ DOMAIN lines = 1..Len(lines) /\ Len(input) \in Nat
        /\ read \in Nat /\ refused \in 0..read
    BY LenProperties, InputFrames DEF Typed
  <2>2. ASSUME NEW i \in Places PROVE Len(observed[i]) <= 1
    <3>1. CASE Inside(i) \/ ~PassedOn(i)
      BY <3>1 DEF Counted
    <3>2. CASE ~Inside(i) /\ PassedOn(i)
      <4>1. Len(observed[i]) = 1
        BY <3>2 DEF Counted
      <4> QED
        BY <4>1
    <3> QED
      BY <3>1, <3>2
  <2>3. ASSUME Idle, NEW i \in Places
        PROVE  Len(observed[i]) = IF i <= read /\ i # refused THEN 1 ELSE 0
    <3>1. ~Inside(i)
      BY <2>3 DEF Idle, Inside
    <3>2. CASE PassedOn(i)
      BY <3>1, <3>2 DEF Counted, PassedOn
    <3>3. CASE ~PassedOn(i)
      <4>1. Len(observed[i]) = 0
        BY <3>3 DEF Counted
      <4> QED
        BY <3>3, <4>1 DEF PassedOn
    <3> QED
      BY <3>2, <3>3
  <2>4. ASSUME NEW i \in Places, observed[i] \in {<<"version_dropped">>, <<"invalid">>}
        PROVE  /\ \A k \in DOMAIN sent : sent[k].id # i
               /\ \A k \in DOMAIN lines : lines[k].id # i
    <3>1. ~Accepted(input[i])
      BY <2>4 DEF Told
    <3>2. \A k \in DOMAIN sent : Accepted(input[sent[k].id])
      BY <2>1 DEF Carried
    <3>3. \A k \in DOMAIN lines : Accepted(input[lines[k].id])
      BY <2>1 DEF Carried, Faithful
    <3> QED
      BY <3>1, <3>2, <3>3
  <2>5. ASSUME NEW i \in Places, i = refused
        PROVE  /\ \A k \in DOMAIN sent : sent[k].id # i
               /\ \A k \in DOMAIN lines : lines[k].id # i
    BY <2>1, <2>5 DEF Admitted, PassedOn
  <2> QED
    BY <2>2, <2>3, <2>4, <2>5 DEF CountedOnce, Places
<1> QED
  BY <1>1, Inductive, PTL
=============================================================================
