---------------------------- MODULE QueueProofs ----------------------------
(***************************************************************************)
(* Proofs about Queue for any number of producers, workers and envelopes   *)
(* and any capacity.  The invariant IInv of Queue is inductive; the safety *)
(* properties and the refinement of QueueContract follow from it.          *)
(***************************************************************************)
EXTENDS Queue, TLAPS

\* A queue fresh from NewNamed has the types declared in TypeOK.
LEMMA InitTypeOK == Init => TypeOK
<1> SUFFICES ASSUME Init PROVE TypeOK
  OBVIOUS
<1>1. ch \in Seq(Envs) /\ Len(ch) <= Capacity
  BY CapacityAssumption DEF Init
<1>2. /\ \A p \in Producers : pc[p] = "idle"
      /\ \A w \in Workers : pc[w] = "recv"
      /\ pc \in [Threads -> ProducerPC \union WorkerPC]
  BY ThreadsAssumption DEF Init, Threads, ProducerPC, WorkerPC
<1>3. /\ env \in [Threads -> Envs \union {NoEnv}]
      /\ depth \in [Threads -> Nat]
  BY DEF Init
<1> QED
  BY <1>1, <1>2, <1>3 DEF Init, TypeOK, ProducerPC, WorkerPC

\* The typing of pc survives a step of one thread.
LEMMA PCStep ==
  ASSUME TypeOK, NEW t \in Threads, NEW v,
         t \in Producers => v \in ProducerPC,
         t \in Workers => v \in WorkerPC,
         pc' = [pc EXCEPT ![t] = v]
  PROVE  /\ pc' \in [Threads -> ProducerPC \union WorkerPC]
         /\ \A p \in Producers : pc'[p] \in ProducerPC
         /\ \A w \in Workers : pc'[w] \in WorkerPC
BY ThreadsAssumption DEF TypeOK, Threads

\* The typing of env survives a step of one thread.
LEMMA EnvStep ==
  ASSUME TypeOK, NEW t \in Threads, NEW v \in Envs \union {NoEnv},
         env' = [env EXCEPT ![t] = v]
  PROVE  env' \in [Threads -> Envs \union {NoEnv}]
BY DEF TypeOK

\* A producer that sends, or a worker inside fn, does hold an envelope.
LEMMA HeldEnv ==
  ASSUME TypeOK, Registered
  PROVE  /\ \A p \in Producers : pc[p] = "select" => env[p] \in Envs
         /\ \A w \in Workers : pc[w] = "fn" => env[w] \in Envs
BY DEF TypeOK, Registered, Threads

\* Every step of Enqueue, of a worker and of StopEnqueue/Close keeps the types
\* and the channel within its capacity.
LEMMA NextTypeOK == TypeOK /\ Registered /\ [Next]_vars => TypeOK'
<1> SUFFICES ASSUME TypeOK, Registered, [Next]_vars PROVE TypeOK'
  OBVIOUS
<1>a. /\ \A p \in Producers : p \in Threads /\ p \notin Workers
      /\ \A w \in Workers : w \in Threads /\ w \notin Producers
  BY ThreadsAssumption DEF Threads
<1>b. /\ {"idle", "select", "report", "set"} \subseteq ProducerPC
      /\ {"recv", "fn", "report", "set", "wait", "exit"} \subseteq WorkerPC
  BY DEF ProducerPC, WorkerPC
<1>1. ASSUME NEW p \in Producers, NEW e \in Envs, EnqueueBegin(p, e)
      PROVE  TypeOK'
  BY <1>1, <1>a, <1>b, PCStep, EnvStep DEF EnqueueBegin, TypeOK
<1>2. ASSUME NEW p \in Producers, NEW e \in Envs, EnqueueRefused(p, e)
      PROVE  TypeOK'
  BY <1>2 DEF EnqueueRefused, TypeOK
<1>3. ASSUME NEW p \in Producers, EnqueueSend(p) PROVE TypeOK'
  <2>1. env[p] \in Envs
    BY <1>3, HeldEnv DEF EnqueueSend
  <2>2. ch' \in Seq(Envs) /\ Len(ch') <= Capacity
    BY <1>3, <2>1, CapacityAssumption DEF EnqueueSend, TypeOK
  <2> QED
    BY <1>3, <1>a, <1>b, <2>1, <2>2, PCStep, EnvStep DEF EnqueueSend, TypeOK
<1>4. ASSUME NEW p \in Producers, EnqueueReleased(p) PROVE TypeOK'
  BY <1>4, <1>a, <1>b, PCStep, EnvStep DEF EnqueueReleased, TypeOK
<1>5. ASSUME NEW t \in Threads, ReadDepth(t) PROVE TypeOK'
  <2>1. Len(ch) \in Nat
    BY DEF TypeOK
  <2> QED
    BY <1>5, <1>b, <2>1, PCStep DEF ReadDepth, TypeOK
<1>6. ASSUME NEW p \in Producers, EnqueueReturn(p) PROVE TypeOK'
  BY <1>6, <1>a, <1>b, PCStep DEF EnqueueReturn, TypeOK
<1>7. ASSUME NEW w \in Workers, Recv(w) PROVE TypeOK'
  <2>1. /\ Head(ch) \in Envs
        /\ ch' \in Seq(Envs)
        /\ Len(ch') <= Capacity
    BY <1>7, CapacityAssumption DEF Recv, TypeOK
  <2> QED
    BY <1>7, <1>a, <1>b, <2>1, PCStep, EnvStep DEF Recv, TypeOK
<1>8. ASSUME NEW w \in Workers, CallFn(w) PROVE TypeOK'
  <2>1. env[w] \in Envs
    BY <1>8, HeldEnv DEF CallFn
  <2>2. handled' \in [Envs -> Nat]
    BY <1>8, <2>1 DEF CallFn, TypeOK
  <2> QED
    BY <1>8, <1>a, <1>b, <2>2, PCStep, EnvStep DEF CallFn, TypeOK
<1>9. ASSUME NEW w \in Workers, WorkerLoop(w) \/ SeeDone(w) \/ Exit(w)
      PROVE  TypeOK'
  BY <1>9, <1>a, <1>b, PCStep DEF WorkerLoop, SeeDone, Exit, TypeOK
<1>10. ASSUME NEW w \in Workers, ProducersGone(w) PROVE TypeOK'
  BY <1>10, <1>a, <1>b, PCStep DEF ProducersGone, TypeOK
<1>11. CASE StopEnqueue \/ StopEnqueueReturn \/ CloseReturn
  BY <1>11 DEF StopEnqueue, StopEnqueueReturn, CloseReturn, TypeOK
<1>12. CASE Terminated \/ UNCHANGED vars
  BY <1>12 DEF Terminated, vars, TypeOK
<1> QED
  BY <1>1, <1>2, <1>3, <1>4, <1>5, <1>6, <1>7, <1>8, <1>9, <1>10, <1>11,
     <1>12, <1>a
     DEF Next, ProducerStep, WorkerStep

-----------------------------------------------------------------------------
\* The wait group keeps counting exactly the producers inside Enqueue.
LEMMA NextRegistered == TypeOK /\ Registered /\ [Next]_vars => Registered'
<1> SUFFICES ASSUME TypeOK, Registered, [Next]_vars PROVE Registered'
  OBVIOUS
<1>a. /\ \A p \in Producers : p \in Threads /\ p \notin Workers
      /\ \A w \in Workers : w \in Threads /\ w \notin Producers
  BY ThreadsAssumption DEF Threads
<1> USE <1>a, NoEnvAssumption DEF Registered, TypeOK
<1>1. ASSUME NEW p \in Producers, NEW e \in Envs, EnqueueBegin(p, e)
      PROVE  Registered'
  BY <1>1 DEF EnqueueBegin
<1>2. ASSUME NEW p \in Producers, NEW e \in Envs, EnqueueRefused(p, e)
      PROVE  Registered'
  BY <1>2 DEF EnqueueRefused
<1>3. ASSUME NEW p \in Producers, EnqueueSend(p) PROVE Registered'
  BY <1>3 DEF EnqueueSend
<1>4. ASSUME NEW p \in Producers, EnqueueReleased(p) PROVE Registered'
  BY <1>4 DEF EnqueueReleased
<1>5. ASSUME NEW t \in Threads, ReadDepth(t) PROVE Registered'
  BY <1>5 DEF ReadDepth
<1>6. ASSUME NEW p \in Producers, EnqueueReturn(p) PROVE Registered'
  BY <1>6 DEF EnqueueReturn
<1>7. ASSUME NEW w \in Workers, Recv(w) PROVE Registered'
  <2>1. Head(ch) \in Envs
    BY <1>7 DEF Recv
  <2> QED BY <1>7, <2>1 DEF Recv
<1>8. ASSUME NEW w \in Workers, CallFn(w) PROVE Registered'
  BY <1>8 DEF CallFn
<1>9. ASSUME NEW w \in Workers, WorkerLoop(w) \/ SeeDone(w) \/ Exit(w)
      PROVE  Registered'
  BY <1>9 DEF WorkerLoop, SeeDone, Exit
<1>10. ASSUME NEW w \in Workers, ProducersGone(w) PROVE Registered'
  BY <1>10 DEF ProducersGone
<1>11. CASE StopEnqueue \/ StopEnqueueReturn \/ CloseReturn
  BY <1>11 DEF StopEnqueue, StopEnqueueReturn, CloseReturn
<1>12. CASE Terminated \/ UNCHANGED vars
  BY <1>12 DEF Terminated, vars
<1> QED
  BY <1>1, <1>2, <1>3, <1>4, <1>5, <1>6, <1>7, <1>8, <1>9, <1>10, <1>11,
     <1>12
     DEF Next, ProducerStep, WorkerStep

\* Once a worker drains, no producer is registered and none can register:
\* q.closed is set before q.done is closed, both under producerMu.
LEMMA NextStopPhases ==
  TypeOK /\ Registered /\ StopPhases /\ [Next]_vars => StopPhases'
<1> SUFFICES ASSUME TypeOK, Registered, StopPhases, [Next]_vars
             PROVE  StopPhases'
  OBVIOUS
<1>a. /\ \A p \in Producers : p \in Threads /\ p \notin Workers
      /\ \A w \in Workers : w \in Threads /\ w \notin Producers
  BY ThreadsAssumption DEF Threads
<1> USE <1>a DEF StopPhases, TypeOK
<1>1. ASSUME NEW p \in Producers, NEW e \in Envs, EnqueueBegin(p, e)
      PROVE  StopPhases'
  BY <1>1 DEF EnqueueBegin
<1>2. ASSUME NEW p \in Producers, NEW e \in Envs, EnqueueRefused(p, e)
      PROVE  StopPhases'
  BY <1>2 DEF EnqueueRefused
<1>3. ASSUME NEW p \in Producers, EnqueueSend(p) PROVE StopPhases'
  <2>1. producers # {}
    BY <1>3 DEF EnqueueSend, Registered
  <2> QED BY <1>3, <2>1 DEF EnqueueSend
<1>4. ASSUME NEW p \in Producers, EnqueueReleased(p) PROVE StopPhases'
  BY <1>4 DEF EnqueueReleased
<1>5. ASSUME NEW t \in Threads, ReadDepth(t) PROVE StopPhases'
  BY <1>5 DEF ReadDepth
<1>6. ASSUME NEW p \in Producers, EnqueueReturn(p) PROVE StopPhases'
  BY <1>6 DEF EnqueueReturn
<1>7. ASSUME NEW w \in Workers, Recv(w) PROVE StopPhases'
  BY <1>7 DEF Recv
<1>8. ASSUME NEW w \in Workers, CallFn(w) PROVE StopPhases'
  BY <1>8 DEF CallFn
<1>9. ASSUME NEW w \in Workers, WorkerLoop(w) \/ SeeDone(w) \/ Exit(w)
      PROVE  StopPhases'
  BY <1>9 DEF WorkerLoop, SeeDone, Exit
<1>10. ASSUME NEW w \in Workers, ProducersGone(w) PROVE StopPhases'
  BY <1>10 DEF ProducersGone
<1>11. CASE StopEnqueue \/ StopEnqueueReturn \/ CloseReturn
  BY <1>11 DEF StopEnqueue, StopEnqueueReturn, CloseReturn
<1>12. CASE Terminated \/ UNCHANGED vars
  BY <1>12 DEF Terminated, vars
<1> QED
  BY <1>1, <1>2, <1>3, <1>4, <1>5, <1>6, <1>7, <1>8, <1>9, <1>10, <1>11,
     <1>12
     DEF Next, ProducerStep, WorkerStep

-----------------------------------------------------------------------------
\* What the two channel operations do to the set of queued envelopes.
LEMMA SendChannel ==
  ASSUME NEW s \in Seq(Envs), NEW x \in Envs
  PROVE  /\ Len(Append(s, x)) = Len(s) + 1
         /\ \A i \in 1..Len(s) : Append(s, x)[i] = s[i]
         /\ Append(s, x)[Len(s) + 1] = x
OBVIOUS

\* Receiving takes away the head and nothing else.
LEMMA RecvChannel ==
  ASSUME NEW s \in Seq(Envs), s # <<>>
  PROVE  /\ Len(s) \in Nat \ {0}
         /\ Len(Tail(s)) = Len(s) - 1
         /\ Head(s) = s[1]
         /\ \A i \in 1..Len(Tail(s)) : Tail(s)[i] = s[i + 1]
OBVIOUS

\* No step of any thread loses or doubles an envelope.
LEMMA NextOnePlace ==
  TypeOK /\ Registered /\ OnePlace /\ [Next]_vars => OnePlace'
<1> SUFFICES ASSUME TypeOK, Registered, OnePlace, [Next]_vars
             PROVE  OnePlace'
  OBVIOUS
<1>a. /\ \A p \in Producers : p \in Threads /\ p \notin Workers
      /\ \A w \in Workers : w \in Threads /\ w \notin Producers
  BY ThreadsAssumption DEF Threads
<1>1. ASSUME NEW p \in Producers, NEW e \in Envs, EnqueueBegin(p, e)
      PROVE  OnePlace'
  <2>1. /\ \A w \in Workers : env'[w] = env[w]
        /\ \A q \in Producers : env'[q] = IF q = p THEN e ELSE env[q]
    BY <1>1, <1>a DEF EnqueueBegin, TypeOK
  <2>2. \A x \in Envs : /\ InChannel(x)' <=> InChannel(x)
                        /\ InHand(x)' <=> InHand(x)
    BY <1>1, <2>1 DEF EnqueueBegin, InChannel, InHand
  <2> QED
    BY <1>1, <2>1, <2>2 DEF EnqueueBegin, OnePlace
<1>2. ASSUME NEW p \in Producers, EnqueueSend(p) PROVE OnePlace'
  <2>1. env[p] \in Envs /\ env[p] # NoEnv
    BY <1>2, HeldEnv, NoEnvAssumption DEF EnqueueSend
  <2>2. /\ \A w \in Workers : env'[w] = env[w]
        /\ \A q \in Producers : env'[q] = IF q = p THEN NoEnv ELSE env[q]
    BY <1>2, <1>a DEF EnqueueSend, TypeOK
  <2>3. /\ ch \in Seq(Envs)
        /\ Len(ch) \in Nat
        /\ Len(ch') = Len(ch) + 1
        /\ \A i \in 1..Len(ch) : ch'[i] = ch[i]
        /\ ch'[Len(ch) + 1] = env[p]
    BY <1>2, <2>1, SendChannel DEF EnqueueSend, TypeOK
  <2>4. ~InChannel(env[p]) /\ ~InHand(env[p]) /\ handled[env[p]] = 0
    BY <2>1 DEF OnePlace
  <2>5. \A x \in Envs : InChannel(x)' <=> InChannel(x) \/ x = env[p]
    <3> TAKE x \in Envs
    <3>1. \A i \in 1..Len(ch') : i \in 1..Len(ch) \/ i = Len(ch) + 1
      BY <2>3
    <3>2. 1..Len(ch) \subseteq 1..Len(ch') /\ Len(ch) + 1 \in 1..Len(ch')
      BY <2>3
    <3> QED BY <2>3, <3>1, <3>2 DEF InChannel
  <2>6. \A x \in Envs : InHand(x)' <=> InHand(x)
    BY <2>2 DEF InHand
  <2>7. \A i, j \in 1..Len(ch') : ch'[i] = ch'[j] => i = j
    <3>1. \A i \in 1..Len(ch') : i \in 1..Len(ch) \/ i = Len(ch) + 1
      BY <2>3
    <3> QED BY <2>3, <2>4, <3>1 DEF OnePlace, InChannel
  <2>8. accepted' = accepted \union {env[p]} /\ handled' = handled
        /\ offered' = offered
    BY <1>2 DEF EnqueueSend
  <2>9. /\ accepted' \subseteq offered'
        /\ \A q \in Producers :
             /\ env'[q] # NoEnv => env'[q] \in offered' \ accepted'
             /\ \A r \in Producers : env'[q] = env'[r] /\ env'[q] # NoEnv
                                       => q = r
    BY <2>1, <2>2, <2>8 DEF OnePlace
  <2>10. /\ \A v, w \in Workers : env'[v] = env'[w] /\ env'[v] # NoEnv
                                    => v = w
    BY <2>2 DEF OnePlace
  <2>11. ASSUME NEW x \in Envs
         PROVE  /\ ~(InChannel(x)' /\ InHand(x)')
                /\ InChannel(x)' \/ InHand(x)'
                     => x \in accepted' /\ handled'[x] = 0
                /\ x \in accepted'
                     => InChannel(x)' \/ InHand(x)' \/ handled'[x] = 1
                /\ x \notin accepted' => handled'[x] = 0
    BY <2>4, <2>5, <2>6, <2>8 DEF OnePlace
  <2> QED
    BY <2>7, <2>9, <2>10, <2>11 DEF OnePlace
<1>3. ASSUME NEW p \in Producers, EnqueueReleased(p) PROVE OnePlace'
  <2>1. /\ \A w \in Workers : env'[w] = env[w]
        /\ \A q \in Producers : env'[q] = IF q = p THEN NoEnv ELSE env[q]
    BY <1>3, <1>a DEF EnqueueReleased, TypeOK
  <2>2. \A x \in Envs : /\ InChannel(x)' <=> InChannel(x)
                        /\ InHand(x)' <=> InHand(x)
    BY <1>3, <2>1 DEF EnqueueReleased, InChannel, InHand
  <2> QED
    BY <1>3, <2>1, <2>2 DEF EnqueueReleased, OnePlace
<1>4. ASSUME NEW w \in Workers, Recv(w) PROVE OnePlace'
  <2>1. /\ ch \in Seq(Envs)
        /\ Len(ch) \in Nat \ {0}
        /\ Len(ch') = Len(ch) - 1
        /\ \A i \in 1..Len(ch') : ch'[i] = ch[i + 1]
        /\ Head(ch) = ch[1]
        /\ Head(ch) \in Envs /\ Head(ch) # NoEnv
    BY <1>4, RecvChannel, NoEnvAssumption DEF Recv, TypeOK
  <2>2. /\ \A q \in Producers : env'[q] = env[q]
        /\ \A v \in Workers : env'[v] = IF v = w THEN Head(ch) ELSE env[v]
    BY <1>4, <1>a DEF Recv, TypeOK
  <2>3. env[w] = NoEnv
    BY <1>4 DEF Recv, Registered
  <2>4. \A i \in 1..Len(ch) : i = 1 \/ (i - 1 \in 1..Len(ch') /\ i = (i - 1) + 1)
    BY <2>1
  <2>5. 1 \in 1..Len(ch) /\ \A i \in 1..Len(ch') : i + 1 \in 1..Len(ch)
    BY <2>1
  <2>6. InChannel(Head(ch)) /\ ~InHand(Head(ch)) /\ handled[Head(ch)] = 0
    BY <2>1, <2>5 DEF OnePlace, InChannel
  <2>7. \A x \in Envs : InChannel(x)' <=> InChannel(x) /\ x # Head(ch)
    <3> SUFFICES ASSUME NEW x \in Envs
                 PROVE  InChannel(x)' <=> InChannel(x) /\ x # Head(ch)
      OBVIOUS
    <3>1. ASSUME NEW i \in 1..Len(ch'), ch'[i] = x
          PROVE  InChannel(x) /\ x # Head(ch)
      <4>1. ch[i + 1] = x /\ i + 1 \in 1..Len(ch) /\ i + 1 # 1
        BY <2>1, <2>5, <3>1
      <4> QED BY <2>1, <2>5, <4>1 DEF InChannel, OnePlace
    <3>2. ASSUME NEW i \in 1..Len(ch), ch[i] = x, x # Head(ch)
          PROVE  InChannel(x)'
      <4>1. i # 1 /\ i - 1 \in 1..Len(ch') /\ i = (i - 1) + 1
        BY <2>1, <2>4, <3>2
      <4>2. ch'[i - 1] = x
        BY <2>1, <3>2, <4>1
      <4> QED BY <4>1, <4>2 DEF InChannel
    <3> QED BY <3>1, <3>2 DEF InChannel
  <2>8. \A x \in Envs : InHand(x)' <=> InHand(x) \/ x = Head(ch)
    <3>1. \A x \in Envs : x # NoEnv
      BY NoEnvAssumption
    <3> QED BY <2>2, <2>3, <3>1 DEF InHand
  <2>9. \A i, j \in 1..Len(ch') : ch'[i] = ch'[j] => i = j
    BY <2>1, <2>5 DEF OnePlace
  <2>10. \A u, v \in Workers : env'[u] = env'[v] /\ env'[u] # NoEnv => u = v
    BY <2>2, <2>6 DEF OnePlace, InHand
  <2>11. UNCHANGED <<accepted, offered, handled>>
    BY <1>4 DEF Recv
  <2>12. /\ accepted' \subseteq offered'
         /\ \A q \in Producers :
              /\ env'[q] # NoEnv => env'[q] \in offered' \ accepted'
              /\ \A r \in Producers : env'[q] = env'[r] /\ env'[q] # NoEnv
                                        => q = r
    BY <2>2, <2>11 DEF OnePlace
  <2>13. ASSUME NEW x \in Envs
         PROVE  /\ ~(InChannel(x)' /\ InHand(x)')
                /\ InChannel(x)' \/ InHand(x)'
                     => x \in accepted' /\ handled'[x] = 0
                /\ x \in accepted'
                     => InChannel(x)' \/ InHand(x)' \/ handled'[x] = 1
                /\ x \notin accepted' => handled'[x] = 0
    BY <2>6, <2>7, <2>8, <2>11 DEF OnePlace
  <2> QED
    BY <2>9, <2>10, <2>12, <2>13 DEF OnePlace
<1>5. ASSUME NEW w \in Workers, CallFn(w) PROVE OnePlace'
  <2>1. env[w] \in Envs /\ env[w] # NoEnv
    BY <1>5, HeldEnv, NoEnvAssumption DEF CallFn
  <2>2. /\ \A q \in Producers : env'[q] = env[q]
        /\ \A v \in Workers : env'[v] = IF v = w THEN NoEnv ELSE env[v]
    BY <1>5, <1>a DEF CallFn, TypeOK
  <2>3. InHand(env[w]) /\ ~InChannel(env[w]) /\ handled[env[w]] = 0
        /\ env[w] \in accepted
    BY <2>1 DEF OnePlace, InHand
  <2>4. \A x \in Envs : handled'[x] = IF x = env[w] THEN 1 ELSE handled[x]
    BY <1>5, <2>1, <2>3 DEF CallFn, TypeOK
  <2>5. UNCHANGED <<ch, accepted, offered>>
    BY <1>5 DEF CallFn
  <2>6. \A x \in Envs : InChannel(x)' <=> InChannel(x)
    BY <2>5 DEF InChannel
  <2>7. \A x \in Envs : InHand(x)' <=> InHand(x) /\ x # env[w]
    <3>1. \A x \in Envs : x # NoEnv
      BY NoEnvAssumption
    <3> QED BY <2>1, <2>2, <3>1 DEF InHand, OnePlace
  <2>8. ASSUME NEW x \in Envs
        PROVE  /\ ~(InChannel(x)' /\ InHand(x)')
               /\ InChannel(x)' \/ InHand(x)'
                    => x \in accepted' /\ handled'[x] = 0
               /\ x \in accepted'
                    => InChannel(x)' \/ InHand(x)' \/ handled'[x] = 1
               /\ x \notin accepted' => handled'[x] = 0
    BY <2>3, <2>4, <2>5, <2>6, <2>7 DEF OnePlace
  <2> QED
    BY <2>2, <2>5, <2>8 DEF OnePlace
<1>6. ASSUME UNCHANGED <<ch, env, accepted, handled>>,
             offered \subseteq offered'
      PROVE  OnePlace'
  <2>1. \A x \in Envs : /\ InChannel(x)' <=> InChannel(x)
                        /\ InHand(x)' <=> InHand(x)
    BY <1>6 DEF InChannel, InHand
  <2> QED BY <1>6, <2>1 DEF OnePlace
<1>7. ASSUME NEW p \in Producers, NEW e \in Envs, EnqueueRefused(p, e)
      PROVE  OnePlace'
  BY <1>6, <1>7 DEF EnqueueRefused
<1>8. ASSUME NEW t \in Threads, ReadDepth(t) PROVE OnePlace'
  BY <1>6, <1>8 DEF ReadDepth
<1>9. ASSUME NEW p \in Producers, EnqueueReturn(p) PROVE OnePlace'
  BY <1>6, <1>9 DEF EnqueueReturn
<1>10. ASSUME NEW w \in Workers,
              WorkerLoop(w) \/ SeeDone(w) \/ ProducersGone(w) \/ Exit(w)
       PROVE  OnePlace'
  BY <1>6, <1>10 DEF WorkerLoop, SeeDone, ProducersGone, Exit
<1>11. CASE StopEnqueue \/ StopEnqueueReturn \/ CloseReturn
  BY <1>6, <1>11 DEF StopEnqueue, StopEnqueueReturn, CloseReturn
<1>12. CASE Terminated \/ UNCHANGED vars
  BY <1>6, <1>12 DEF Terminated, vars
<1> QED
  BY <1>1, <1>2, <1>3, <1>4, <1>5, <1>7, <1>8, <1>9, <1>10, <1>11, <1>12,
     <1>a
     DEF Next, ProducerStep, WorkerStep

-----------------------------------------------------------------------------
\* The inductive invariant holds before the first Enqueue.
LEMMA InitIInv == Init => IInv
<1> SUFFICES ASSUME Init PROVE IInv
  OBVIOUS
<1>1. TypeOK
  BY InitTypeOK
<1>2. /\ \A p \in Producers : pc[p] = "idle" /\ env[p] = NoEnv
      /\ \A w \in Workers : pc[w] = "recv" /\ env[w] = NoEnv
                            /\ loop[w] = "main"
      /\ 1..Len(ch) = {}
  BY ThreadsAssumption DEF Init, Threads
<1>3. Registered
  BY <1>2 DEF Init, Registered
<1>4. StopPhases
  BY <1>2 DEF Init, StopPhases
<1>5. OnePlace
  <2>1. \A e \in Envs : ~InChannel(e) /\ ~InHand(e) /\ handled[e] = 0
    BY <1>2, NoEnvAssumption DEF Init, InChannel, InHand
  <2> QED BY <1>2, <2>1 DEF Init, OnePlace
<1> QED BY <1>1, <1>3, <1>4, <1>5 DEF IInv

\* The inductive invariant survives every step of the queue.
LEMMA NextIInv == IInv /\ [Next]_vars => IInv'
BY NextTypeOK, NextRegistered, NextStopPhases, NextOnePlace DEF IInv

\* No interleaving of Enqueue, the workers and StopEnqueue/Close loses or
\* doubles an envelope: the inductive invariant holds in every reachable state.
THEOREM Invariance == Spec => []IInv
BY InitIInv, NextIInv, PTL DEF Spec

\* Every state the queue reaches has the types declared in TypeOK, and the
\* channel never exceeds its capacity.
THEOREM TypeCorrect == Spec => []TypeOK
<1>1. IInv => TypeOK
  BY DEF IInv
<1> QED BY <1>1, Invariance, PTL

\* When Close returns, fn was called exactly once for each accepted envelope
\* and never for a refused one.
THEOREM CloseComplete == Spec => []CloseHandlesAllOnce
<1>1. IInv => CloseHandlesAllOnce
  <2> SUFFICES ASSUME IInv, closer = "closed", NEW e \in Envs
               PROVE  handled[e] = IF e \in accepted THEN 1 ELSE 0
    BY DEF CloseHandlesAllOnce
  <2>1. \A w \in Workers : pc[w] = "exit" /\ ch = <<>>
    BY DEF IInv, StopPhases
  <2>2. ~InChannel(e)
    BY <2>1, ThreadsAssumption DEF InChannel
  <2>3. ~InHand(e)
    BY <2>1, NoEnvAssumption DEF InHand, IInv, Registered
  <2> QED BY <2>2, <2>3 DEF IInv, OnePlace
<1> QED BY <1>1, Invariance, PTL

\* A worker drains only when no producer can still send, so exiting on an
\* empty channel strands nothing.
THEOREM DrainIsAlone == Spec => []DrainingAlone
<1>1. IInv => DrainingAlone
  <2> SUFFICES ASSUME IInv, NEW w \in Workers,
                      loop[w] = "drain" \/ pc[w] = "exit",
                      NEW p \in Producers
               PROVE  pc[p] # "select"
    BY DEF DrainingAlone
  <2>1. producers = {}
    BY DEF IInv, StopPhases
  <2> QED BY <2>1 DEF IInv, Registered
<1> QED BY <1>1, Invariance, PTL

\* After StopEnqueue has returned nothing is accepted any more.
THEOREM StopIsFinal == Spec => NoSendOnceStopped
<1>1. IInv /\ [Next]_vars
        => [(closer \in {"stopped", "closed"}) => accepted' = accepted]_vars
  <2> SUFFICES ASSUME IInv, Next, closer \in {"stopped", "closed"}
               PROVE  accepted' = accepted
    OBVIOUS
  <2>1. \A p \in Producers : ~EnqueueSend(p)
    BY DEF IInv, StopPhases, Registered, EnqueueSend
  <2> QED
    BY <2>1 DEF Next, ProducerStep, WorkerStep, EnqueueBegin, EnqueueRefused,
       EnqueueReleased, ReadDepth, EnqueueReturn, Recv, CallFn, WorkerLoop,
       SeeDone, ProducersGone, Exit, StopEnqueue, StopEnqueueReturn,
       CloseReturn, Terminated, vars
<1> QED BY <1>1, Invariance, PTL DEF Spec, NoSendOnceStopped

-----------------------------------------------------------------------------
\* The queue implements the safety part of its contract: Enqueue's send is
\* Accept, the call of fn is Handle, the return of Close is Shut, and every
\* other step of a thread is invisible.
THEOREM Refinement == Spec => Contract!CSafeSpec
<1>1. Init => Contract!CInit
  BY DEF Init, Contract!CInit
<1>2. IInv /\ IInv' /\ [Next]_vars => [Contract!CNext]_(Contract!cvars)
  <2> SUFFICES ASSUME IInv, IInv', [Next]_vars
               PROVE  Contract!CNext \/ UNCHANGED Contract!cvars
    OBVIOUS
  <2>1. ASSUME NEW p \in Producers, EnqueueSend(p) PROVE Contract!CNext
    <3>1. env[p] \in Envs /\ env[p] # NoEnv
      BY <2>1, HeldEnv, NoEnvAssumption DEF EnqueueSend, IInv
    <3>2. env[p] \notin accepted /\ handled[env[p]] = 0
      BY <3>1 DEF IInv, OnePlace
    <3>3. closer # "closed"
      BY <2>1 DEF EnqueueSend, IInv, StopPhases, Registered
    <3>4. /\ accepted' = accepted \union {env[p]}
          /\ handled' = handled /\ closer' = closer
      BY <2>1 DEF EnqueueSend
    <3>5. PICK e \in Envs : e = env[p]
      BY <3>1
    <3>6. Contract!Accept(e)
      BY <3>2, <3>3, <3>4, <3>5 DEF Contract!Accept, IInv, TypeOK
    <3> QED BY <3>6 DEF Contract!CNext
  <2>2. ASSUME NEW w \in Workers, CallFn(w) PROVE Contract!CNext
    <3>1. env[w] \in Envs /\ env[w] # NoEnv
      BY <2>2, HeldEnv, NoEnvAssumption DEF CallFn, IInv
    <3>2. env[w] \in accepted /\ handled[env[w]] = 0
      BY <3>1 DEF IInv, OnePlace, InHand
    <3>3. /\ accepted' = accepted /\ closer' = closer
          /\ handled' = [handled EXCEPT ![env[w]] = @ + 1]
      BY <2>2 DEF CallFn
    <3>4. \A e \in Envs : handled'[e] = 0 <=> handled[e] = 0 /\ e # env[w]
      BY <3>1, <3>2, <3>3 DEF IInv, TypeOK
    <3>5. PICK e \in Envs : e = env[w]
      BY <3>1
    <3>6. Contract!Handle(e)
      BY <3>2, <3>3, <3>4, <3>5 DEF Contract!Handle, IInv, TypeOK
    <3> QED BY <3>6 DEF Contract!CNext
  <2>3. CASE CloseReturn
    <3>1. \A w \in Workers : pc[w] = "exit" /\ ch = <<>>
      BY <2>3 DEF CloseReturn, IInv, StopPhases
    <3>2. \A e \in Envs : ~InChannel(e) /\ ~InHand(e)
      BY <3>1, ThreadsAssumption, NoEnvAssumption
         DEF InChannel, InHand, IInv, Registered
    <3>3. \A e \in accepted : handled[e] # 0
      BY <3>2 DEF IInv, OnePlace, TypeOK
    <3>4. Contract!Shut
      BY <2>3, <3>3 DEF CloseReturn, Contract!Shut
    <3> QED BY <3>4 DEF Contract!CNext
  <2>4. ASSUME UNCHANGED <<accepted, handled, closer>>
        PROVE  UNCHANGED Contract!cvars
    BY <2>4 DEF Contract!cvars
  <2>5. CASE StopEnqueue \/ StopEnqueueReturn
    <3>1. UNCHANGED <<accepted, handled>>
          /\ closer # "closed" /\ closer' # "closed"
      BY <2>5 DEF StopEnqueue, StopEnqueueReturn
    <3> QED BY <3>1 DEF Contract!cvars
  <2>6. CASE UNCHANGED vars \/ Terminated
    BY <2>4, <2>6 DEF vars, Terminated
  <2>7. ASSUME NEW p \in Producers,
               \/ \E e \in Envs : EnqueueBegin(p, e) \/ EnqueueRefused(p, e)
               \/ EnqueueReleased(p) \/ ReadDepth(p) \/ EnqueueReturn(p)
        PROVE  UNCHANGED Contract!cvars
    BY <2>4, <2>7 DEF EnqueueBegin, EnqueueRefused, EnqueueReleased,
                      ReadDepth, EnqueueReturn
  <2>8. ASSUME NEW w \in Workers,
               \/ Recv(w) \/ ReadDepth(w) \/ WorkerLoop(w)
               \/ SeeDone(w) \/ ProducersGone(w) \/ Exit(w)
        PROVE  UNCHANGED Contract!cvars
    BY <2>4, <2>8 DEF Recv, ReadDepth, WorkerLoop, SeeDone, ProducersGone,
                      Exit
  <2> QED
    BY <2>1, <2>2, <2>3, <2>5, <2>6, <2>7, <2>8
       DEF Next, ProducerStep, WorkerStep
<1> QED BY <1>1, <1>2, Invariance, PTL DEF Spec, Contract!CSafeSpec
=============================================================================
