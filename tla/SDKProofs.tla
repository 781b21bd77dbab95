----------------------------- MODULE SDKProofs ------------------------------
(***************************************************************************)
(* Proofs about SDK for any goroutines, any calls and any arrays of        *)
(* options, as long as the calls of an application are Apart: an append    *)
(* writes into an array that other calls may read or append to.  SInv is   *)
(* inductive.                                                              *)
(***************************************************************************)
EXTENDS SDK, TLAPS

Typed ==
  /\ plan \in Plans
  /\ heap \in [DOMAIN Arrays \union Callers -> Seq(Options)]
  /\ pc \in [Callers -> {"idle", "append", "message"}]
  /\ at \in [Callers -> Nat]
  /\ slice \in [Callers -> [array : DOMAIN Arrays \union Callers \union {"none"},
                            len : Nat]]

\* What a call finds in its options is what the application put there, and the
\* arrays have the lengths they were made with.
Unharmed(p, h) ==
  /\ \A a \in DOMAIN Arrays : Len(h[a]) = Len(Arrays[a])
  /\ \A g \in Callers : \A i \in DOMAIN p[g] :
       Elements(h, p[g][i].opts) = Elements(Arrays, p[g][i].opts)

Untraced(call) == applyOpts(Elements(Arrays, call.opts)).traceID = ""

\* The slice s that goroutine g passes on holds the options of its call and,
\* behind them, the trace id of the context: in the array of the call if that
\* has room, else in an array of its own.
Appended(g, call, s, h) ==
  /\ s.array = IF call.opts.len < Len(Arrays[call.opts.array])
                 THEN call.opts.array ELSE g
  /\ Elements(h, s) = Append(Elements(Arrays, call.opts),
                             WithTraceID(call.ctx.traceID))

\* Where goroutine g is in a Ctx variant of a message, with its slice s.
Inside(g, call, where, s, h) ==
  /\ call.fn \in MessageFns /\ call.isCtx
  /\ where = "append" => s = call.opts /\ Untraced(call)
  /\ where = "message" =>
       \/ s = call.opts /\ ~Untraced(call)
       \/ Untraced(call) /\ Appended(g, call, s, h)

\* The inductive invariant.
SInv ==
  /\ Typed
  /\ Unharmed(plan, heap)
  /\ \A g \in Callers : pc[g] # "idle" =>
       /\ at[g] < Len(plan[g])
       /\ Inside(g, Call(g), pc[g], slice[g], heap)
  /\ OwnTrace

-----------------------------------------------------------------------------
(* Options *)

\* Of options that end in a trace id, that one is applied.
LEMMA LastApplies ==
  ASSUME NEW opts \in Seq(Options), NEW t \in STRING
  PROVE  applyOpts(Append(opts, WithTraceID(t))).traceID = t
<1> DEFINE all == Append(opts, WithTraceID(t))
           n == Len(opts) + 1
           setters == {i \in DOMAIN all : all[i].field = "traceID"}
<1>0. WithTraceID(t) \in Options
  BY DEF WithTraceID, Options
<1>1. /\ DOMAIN all = 1..n /\ n \in Nat \ {0}
      /\ all[n] = WithTraceID(t)
  <2>1. PICK opt \in Options : opt = WithTraceID(t)
    BY <1>0
  <2>2. DOMAIN Append(opts, opt) = 1..n /\ n \in Nat \ {0}
    OBVIOUS
  <2>3. Append(opts, opt)[n] = opt
    OBVIOUS
  <2> QED
    BY <2>1, <2>2, <2>3, Zenon
<1>2. all[n].field = "traceID" /\ all[n].value = t
  BY <1>1 DEF WithTraceID
<1>3. n \in setters /\ \A i \in setters : i \in Int /\ n >= i
  BY <1>1, <1>2
<1>4. Max(setters) = n
  <2> HIDE DEF setters, n
  <2>1. \E x \in setters : \A y \in setters : x >= y
    BY <1>3
  <2>2. /\ Max(setters) \in setters
        /\ \A y \in setters : Max(setters) >= y
    BY <2>1, Zenon DEF Max
  <2> QED
    BY <1>3, <2>2
<1>5. setters # {}
  BY <1>3
<1>6. "traceID" \in DOMAIN NoOpts
  BY DEF NoOpts
<1>7. applyOpts(all).traceID = all[Max(setters)].value
  BY <1>5, <1>6 DEF applyOpts
<1> QED
  BY <1>2, <1>4, <1>7

\* The options of a call are a sequence of options.
LEMMA ElementsTyped ==
  ASSUME NEW D, NEW h \in [D -> Seq(Options)], NEW s,
         s.array \in D, s.len \in 0..Len(h[s.array])
  PROVE  Elements(h, s) \in Seq(Options) /\ Len(Elements(h, s)) = s.len
<1>1. h[s.array] \in Seq(Options)
  OBVIOUS
<1>2. \A i \in 1..s.len : h[s.array][i] \in Options
  BY <1>1
<1>3. s.len \in Nat
  BY <1>1
<1> QED
  BY <1>2, <1>3 DEF Elements

\* A message sent by a Ctx variant has the trace id it asked for.
LEMMA InsideTrace ==
  ASSUME NEW p \in Plans, NEW g \in Callers, NEW i \in DOMAIN p[g], NEW s, NEW h,
         Unharmed(p, h), Inside(g, p[g][i], "message", s, h)
  PROVE  applyOpts(Elements(h, s)).traceID = Asked(p[g][i]).traceID
<1>1. PICK call : call = p[g][i]
  OBVIOUS
<1>2. /\ call.opts.array \in DOMAIN Arrays
      /\ call.opts.len \in 0..Len(Arrays[call.opts.array])
      /\ call.ctx.traceID \in STRING
  BY <1>1, PlansAssumption
<1>3. call.isCtx /\ Asked(call) = OrCtx(applyOpts(Elements(Arrays, call.opts)), call.ctx)
  BY <1>1 DEF Inside, Asked
<1>4. Asked(call).traceID = IF Untraced(call) THEN call.ctx.traceID
                            ELSE applyOpts(Elements(Arrays, call.opts)).traceID
  BY <1>3 DEF OrCtx, NoOpts, Untraced
<1>5. CASE s = call.opts /\ ~Untraced(call)
  BY <1>1, <1>4, <1>5 DEF Unharmed
<1>6. CASE Untraced(call) /\ Appended(g, call, s, h)
  <2>1. Arrays \in [DOMAIN Arrays -> Seq(Options)]
    BY ArraysAssumption
  <2>2. Elements(Arrays, call.opts) \in Seq(Options)
    BY <1>2, <2>1, ElementsTyped
  <2> QED
    BY <1>1, <1>2, <1>4, <1>6, <2>2, LastApplies DEF Appended
<1> QED
  BY <1>1, <1>5, <1>6 DEF Inside

-----------------------------------------------------------------------------
(* The steps *)

\* The next call of a goroutine is one of its plan.
LEMMA CallPlanned ==
  ASSUME Typed, NEW g \in Callers, at[g] < Len(plan[g])
  PROVE  at[g] + 1 \in DOMAIN plan[g]
BY PlansAssumption DEF Typed

\* A helper returns, having sent nothing or an envelope of its own.
LEMMA ReturnStep ==
  ASSUME SInv, NEW g \in Callers, Return(g), UNCHANGED <<plan, heap>>,
         \/ sent' = sent
         \/ \E e : sent' = sent \union {e} /\ Own(plan[e.by][e.call], e)
  PROVE  SInv'
<1>1. Typed'
  BY DEF SInv, Typed, Return, NoSlice
<1>2. Unharmed(plan, heap)'
  BY DEF SInv
<1>3. ASSUME NEW h \in Callers, pc'[h] # "idle"
      PROVE  /\ at'[h] < Len(plan'[h])
             /\ Inside(h, Call(h)', pc'[h], slice'[h], heap')
  <2>1. h # g
    BY <1>3 DEF SInv, Typed, Return
  <2>2. pc'[h] = pc[h] /\ at'[h] = at[h] /\ slice'[h] = slice[h]
    BY <2>1 DEF SInv, Typed, Return
  <2>3. Call(h)' = Call(h)
    BY <2>2 DEF Call
  <2> QED
    BY <1>3, <2>2, <2>3 DEF SInv
<1>4. OwnTrace'
  BY Zenon DEF SInv, OwnTrace
<1> QED
  BY <1>1, <1>2, <1>3, <1>4 DEF SInv

\* What Deliver adds is the call's own, if the trace id and the key of a log are.
LEMMA DeliverOwn ==
  ASSUME NEW g, NEW topic, NEW hasBody, NEW t, NEW k,
         Deliver(g, topic, hasBody, t, k),
         t = Asked(Call(g)).traceID,
         Call(g).fn \notin MessageFns => k = <<Asked(Call(g)).partitionKey>>
  PROVE  \E e : sent' = sent \union {e} /\ Own(plan[e.by][e.call], e)
<1>1. PICK e : e = [by |-> g, call |-> at[g] + 1, hasBody |-> hasBody,
                    traceID |-> t, partitionKey |-> k,
                    shard |-> <<isEventTopic(topic), shardIndex(t)>>]
  OBVIOUS
<1>2. sent' = sent \union {e}
  BY <1>1, Zenon DEF Deliver
<1>3. /\ e.by = g /\ e.call = at[g] + 1 /\ e.traceID = t /\ e.partitionKey = k
      /\ e.shard[2] = shardIndex(t)
  BY <1>1
<1>4. plan[e.by][e.call] = Call(g)
  BY <1>3, Zenon DEF Call
<1>5. Own(Call(g), e)
  BY <1>3, Zenon DEF Own
<1> QED
  BY <1>2, <1>4, <1>5, Zenon

\* The logs.
LEMMA LogStep ==
  ASSUME SInv, NEW g \in Callers, NEW fns, Begins(g, fns),
         fns \cap MessageFns = {}, NEW topic, NEW hasBody, Log(g, topic, hasBody)
  PROVE  SInv'
<1>1. at[g] + 1 \in DOMAIN plan[g] /\ plan \in Plans
  BY CallPlanned DEF SInv, Begins, Typed
<1>2. Elements(heap, Call(g).opts) = Elements(Arrays, Call(g).opts)
  BY <1>1, Zenon DEF SInv, Unharmed, Call
<1>3. /\ Call(g).isNil \/ Deliver(g, topic, hasBody, Asked(Call(g)).traceID,
                                  <<Asked(Call(g)).partitionKey>>)
      /\ Call(g).isNil => sent' = sent
      /\ Return(g)
      /\ UNCHANGED <<plan, heap>>
  BY <1>2, Zenon DEF Log, Asked
<1> QED
  BY <1>3, DeliverOwn, ReturnStep

\* The messages.
LEMMA MessageStep ==
  ASSUME SInv, NEW g \in Callers, NEW fn, NEW topic, NEW valid, NEW key,
         Message(g, fn, topic, valid, key), fn \in MessageFns
  PROVE  SInv'
<1>1. /\ \/ pc[g] = "message" /\ Call(g).fn = fn
         \/ Begins(g, {fn}) /\ ~Call(g).isCtx
      /\ Return(g) /\ UNCHANGED <<plan, heap>>
  BY DEF Message
<1>2. Call(g).fn = fn /\ at[g] < Len(plan[g])
  BY <1>1 DEF Begins, SInv
<1>3. at[g] + 1 \in DOMAIN plan[g] /\ plan \in Plans
  BY <1>2, CallPlanned DEF SInv, Typed
<1>4. PICK opts : opts = IF pc[g] = "message" THEN slice[g] ELSE Call(g).opts
  OBVIOUS
<1>5. \/ sent' = sent
      \/ Deliver(g, topic, FALSE, applyOpts(Elements(heap, opts)).traceID, key)
  BY <1>4, Zenon DEF Message
<1>6. applyOpts(Elements(heap, opts)).traceID = Asked(Call(g)).traceID
  <2>1. CASE pc[g] = "message"
    <3>1. Inside(g, plan[g][at[g] + 1], "message", slice[g], heap)
      BY <2>1 DEF SInv, Call
    <3>2. Unharmed(plan, heap)
      BY DEF SInv
    <3> QED
      BY <1>3, <1>4, <2>1, <3>1, <3>2, InsideTrace DEF Call
  <2>2. CASE pc[g] # "message"
    <3>1. Elements(heap, Call(g).opts) = Elements(Arrays, Call(g).opts)
      BY <1>3, Zenon DEF SInv, Unharmed, Call
    <3>2. ~Call(g).isCtx
      BY <1>1, <2>2
    <3> QED
      BY <1>4, <2>2, <3>1, <3>2 DEF Asked
  <2> QED
    BY <2>1, <2>2
<1> QED
  BY <1>1, <1>2, <1>5, <1>6, DeliverOwn, ReturnStep

\* A Ctx variant of a message looks for a trace id in the options.
LEMMA MessageCtxStep ==
  ASSUME SInv, NEW g \in Callers, MessageCtx(g)
  PROVE  SInv'
<1>1. at[g] + 1 \in DOMAIN plan[g] /\ plan \in Plans /\ at[g] < Len(plan[g])
  BY CallPlanned DEF MessageCtx, SInv, Begins, Typed
<1>2. Elements(heap, Call(g).opts) = Elements(Arrays, Call(g).opts)
  BY <1>1, Zenon DEF SInv, Unharmed, Call
<1>3. /\ UNCHANGED <<plan, heap, at, sent>>
      /\ Call(g).fn \in MessageFns /\ Call(g).isCtx
      /\ slice' = [slice EXCEPT ![g] = Call(g).opts]
      /\ pc' = [pc EXCEPT ![g] = IF Untraced(Call(g)) THEN "append" ELSE "message"]
  BY <1>2 DEF MessageCtx, Begins, Untraced
<1>4. /\ Call(g).opts \in [array : DOMAIN Arrays \union Callers \union {"none"},
                           len : Nat]
  BY <1>1, PlansAssumption DEF Call
<1>5. Typed'
  BY <1>3, <1>4 DEF SInv, Typed
<1>6. Unharmed(plan, heap)'
  BY <1>3 DEF SInv
<1>7. ASSUME NEW h \in Callers, pc'[h] # "idle"
      PROVE  /\ at'[h] < Len(plan'[h])
             /\ Inside(h, Call(h)', pc'[h], slice'[h], heap')
  <2>1. Call(h)' = Call(h)
    BY <1>3 DEF Call
  <2>2. CASE h = g
    <3>1. /\ slice'[g] = Call(g).opts
          /\ pc'[g] = IF Untraced(Call(g)) THEN "append" ELSE "message"
      BY <1>3 DEF SInv, Typed
    <3>2. Inside(g, Call(g), pc'[g], slice'[g], heap')
      BY <1>3, <3>1 DEF Inside
    <3> QED
      BY <1>1, <1>3, <2>1, <2>2, <3>2
  <2>3. CASE h # g
    <3>1. pc'[h] = pc[h] /\ slice'[h] = slice[h]
      BY <1>3, <2>3 DEF SInv, Typed
    <3> QED
      BY <1>3, <1>7, <2>1, <3>1 DEF SInv
  <2> QED
    BY <2>2, <2>3
<1>8. OwnTrace'
  BY <1>3, Zenon DEF SInv, OwnTrace
<1> QED
  BY <1>5, <1>6, <1>7, <1>8 DEF SInv

\* Writing behind a slice, into the array or into a copy, leaves alone what is
\* in other arrays and what is before the end of the slice.
Behind(h, h2, a, n) ==
  /\ DOMAIN h2 = DOMAIN h
  /\ \A b \in DOMAIN h : b # a => h2[b] = h[b]
  /\ \A k \in 1..n : h2[a][k] = h[a][k]

LEMMA BehindElements ==
  ASSUME NEW h, NEW h2, NEW a, NEW n, Behind(h, h2, a, n), n \in Nat,
         NEW s, s.array \in DOMAIN h, s.len \in Nat,
         s.array = a => s.len <= n
  PROVE  Elements(h2, s) = Elements(h, s)
<1>1. \A k \in 1..s.len : h2[s.array][k] = h[s.array][k]
  BY DEF Behind
<1> QED
  BY <1>1 DEF Elements

\* Goroutine g has written its trace id behind the first m options of array to,
\* where no call has options and no other goroutine has appended.
LEMMA AppendedStep ==
  ASSUME SInv, NEW g \in Callers, NEW to, NEW m \in Nat,
         heap' \in [DOMAIN Arrays \union Callers -> Seq(Options)],
         \A a \in DOMAIN Arrays : Len(heap'[a]) = Len(Arrays[a]),
         Behind(heap, heap', to, m),
         \A h \in Callers : \A i \in DOMAIN plan[h] :
           plan[h][i].opts.array = to => plan[h][i].opts.len <= m,
         \A h \in Callers : h # g /\ pc[h] = "message" /\ Untraced(Call(h))
           => slice[h].array # to,
         slice' \in [Callers -> [array : DOMAIN Arrays \union Callers \union {"none"},
                                 len : Nat]],
         \A h \in Callers : h # g => slice'[h] = slice[h],
         pc' = [pc EXCEPT ![g] = "message"], UNCHANGED <<plan, at, sent>>,
         at[g] < Len(plan[g]),
         Inside(g, Call(g), "message", slice'[g], heap')
  PROVE  SInv'
<1>1. Typed'
  BY DEF SInv, Typed
<1>2. \A h \in Callers : \A i \in DOMAIN plan[h] :
        Elements(heap', plan[h][i].opts) = Elements(heap, plan[h][i].opts)
  <2> SUFFICES ASSUME NEW h \in Callers, NEW i \in DOMAIN plan[h]
               PROVE  Elements(heap', plan[h][i].opts)
                        = Elements(heap, plan[h][i].opts)
    OBVIOUS
  <2>1. PICK s : s = plan[h][i].opts
    OBVIOUS
  <2>2. s.array \in DOMAIN heap /\ s.len \in Nat /\ (s.array = to => s.len <= m)
    BY <2>1, PlansAssumption DEF SInv, Typed
  <2>3. m \in Nat /\ Behind(heap, heap', to, m)
    OBVIOUS
  <2>4. PICK after : after = heap'
    OBVIOUS
  <2>5. Behind(heap, after, to, m)
    BY <2>3, <2>4, Zenon
  <2>6. Elements(after, s) = Elements(heap, s)
    BY ONLY <2>2, <2>3, <2>5, BehindElements
  <2> QED
    BY <2>1, <2>4, <2>6, Zenon
<1>3. Unharmed(plan, heap)'
  BY <1>2 DEF SInv, Unharmed
<1>4. ASSUME NEW h \in Callers, pc'[h] # "idle"
      PROVE  /\ at'[h] < Len(plan'[h])
             /\ Inside(h, Call(h)', pc'[h], slice'[h], heap')
  <2>1. Call(h)' = Call(h)
    BY DEF Call
  <2>2. CASE h = g
    <3>1. pc'[g] = "message"
      BY DEF SInv, Typed
    <3> QED
      BY <2>1, <2>2, <3>1
  <2>3. CASE h # g
    <3>1. pc'[h] = pc[h] /\ slice'[h] = slice[h]
      BY <2>3 DEF SInv, Typed
    <3>2. at[h] < Len(plan[h]) /\ Inside(h, Call(h), pc[h], slice[h], heap)
      BY <1>4, <3>1 DEF SInv
    <3>3. ASSUME pc[h] = "message", Appended(h, Call(h), slice[h], heap),
                 slice[h].array # to
          PROVE  Appended(h, Call(h), slice[h], heap')
      <4>1. at[h] + 1 \in DOMAIN plan[h] /\ plan \in Plans
        BY <3>2, CallPlanned DEF SInv, Typed
      <4>2. Call(h).opts.array \in DOMAIN Arrays
        BY <4>1, PlansAssumption DEF Call
      <4>3. slice[h].array \in DOMAIN heap /\ slice[h].len \in Nat
        BY <3>3, <4>2 DEF Appended, SInv, Typed
      <4>4. Elements(heap', slice[h]) = Elements(heap, slice[h])
        BY <3>3, <4>3, BehindElements
      <4> QED
        BY <3>3, <4>4 DEF Appended
    <3>4. pc[h] = "message" /\ Untraced(Call(h)) => slice[h].array # to
      BY <2>3
    <3>5. Inside(h, Call(h), pc[h], slice[h], heap')
      BY <3>2, <3>3, <3>4, Zenon DEF Inside
    <3> QED
      BY <2>1, <3>1, <3>2, <3>5
  <2> QED
    BY <2>2, <2>3
<1>5. OwnTrace'
  BY Zenon DEF SInv, OwnTrace
<1> QED
  BY <1>1, <1>3, <1>4, <1>5 DEF SInv

\* The trace id of the context is appended, and the options of the calls are
\* Apart from where it is written.
LEMMA AppendOptStep ==
  ASSUME Apart(plan), SInv, NEW g \in Callers, AppendOpt(g)
  PROVE  SInv'
<1>1. PICK call : call = Call(g)
  OBVIOUS
<1>2. /\ pc[g] = "append" /\ at[g] < Len(plan[g])
      /\ slice[g] = call.opts /\ Untraced(call)
      /\ call.fn \in MessageFns /\ call.isCtx
  BY <1>1 DEF AppendOpt, SInv, Inside
<1>3. /\ at[g] + 1 \in DOMAIN plan[g] /\ plan \in Plans
      /\ call = plan[g][at[g] + 1]
  BY <1>1, <1>2, CallPlanned DEF SInv, Typed, Call
<1>4. PICK a : a = call.opts.array
  OBVIOUS
<1>5. PICK n : n = call.opts.len
  OBVIOUS
<1>6. /\ a \in DOMAIN Arrays /\ a \notin Callers
      /\ n \in 0..Len(Arrays[a])
      /\ call.ctx.traceID \in STRING
  BY <1>3, <1>4, <1>5, PlansAssumption, ArraysAssumption
<1>7. PICK opt : opt = WithTraceID(call.ctx.traceID)
  OBVIOUS
<1>8. opt \in Options
  BY <1>6, <1>7 DEF WithTraceID, Options
<1>9. PICK to : to = IF n < Len(Arrays[a]) THEN a ELSE g
  OBVIOUS
<1>10. /\ heap \in [DOMAIN Arrays \union Callers -> Seq(Options)]
       /\ Len(heap[a]) = Len(Arrays[a]) /\ Len(heap[a]) \in Nat
       /\ Elements(heap, call.opts) = Elements(Arrays, call.opts)
  BY <1>3, <1>6 DEF SInv, Typed, Unharmed
<1>11. /\ Elements(heap, call.opts) \in Seq(Options)
       /\ Len(Elements(heap, call.opts)) = n
  <2>1. heap \in [DOMAIN Arrays \union Callers -> Seq(Options)]
    BY <1>10
  <2> QED
    BY <1>4, <1>5, <1>6, <1>10, <2>1, ElementsTyped
<1>12. CASE n < Len(Arrays[a])
  <2>1. /\ heap' = [heap EXCEPT ![a][n + 1] = opt]
        /\ slice' = [slice EXCEPT ![g] = [array |-> a, len |-> n + 1]]
    BY <1>1, <1>2, <1>4, <1>5, <1>7, <1>10, <1>12 DEF AppendOpt
  <2>2. PICK was : was = heap[a]
    OBVIOUS
  <2>3. was \in Seq(Options) /\ n + 1 \in 1..Len(was) /\ Len(was) = Len(Arrays[a])
    BY <1>6, <1>10, <1>12, <2>2
  <2>4. PICK is : is = [was EXCEPT ![n + 1] = opt]
    OBVIOUS
  <2>5. /\ is \in Seq(Options) /\ Len(is) = Len(was)
        /\ is[n + 1] = opt /\ \A k \in 1..n : is[k] = was[k]
    BY <1>6, <1>8, <2>3, <2>4
  <2>6. heap' = [heap EXCEPT ![a] = is]
    BY <2>1, <2>2, <2>4, Zenon
  <2>7. /\ heap' \in [DOMAIN Arrays \union Callers -> Seq(Options)]
        /\ heap'[a] = is
        /\ \A b \in DOMAIN Arrays \union Callers : b # a => heap'[b] = heap[b]
    BY <1>6, <1>10, <2>5, <2>6
  <2>8. Behind(heap, heap', a, n)
    BY <1>10, <2>2, <2>5, <2>7 DEF Behind
  <2>9. \A b \in DOMAIN Arrays : Len(heap'[b]) = Len(Arrays[b])
    BY <2>3, <2>5, <2>7 DEF SInv, Unharmed
  <2>10. Elements(heap', slice'[g]) = Append(Elements(Arrays, call.opts), opt)
    <3>1. slice'[g].array = a /\ slice'[g].len = n + 1
      BY <2>1 DEF SInv, Typed
    <3>2. Elements(heap', slice'[g]) = [k \in 1..n + 1 |-> is[k]]
      BY <2>7, <3>1 DEF Elements
    <3>3. Elements(heap, call.opts) = [k \in 1..n |-> was[k]]
      BY <1>4, <1>5, <2>2 DEF Elements
    <3>4. PICK old : old = Elements(heap, call.opts)
      OBVIOUS
    <3>5. old \in Seq(Options) /\ Len(old) = n /\ \A k \in 1..n : old[k] = was[k]
      BY <1>11, <3>3, <3>4
    <3>6. PICK new : new = Append(old, opt)
      OBVIOUS
    <3>7. /\ new \in Seq(Options) /\ Len(new) = n + 1
          /\ new[n + 1] = opt /\ \A k \in 1..n : new[k] = old[k]
      BY <1>8, <3>5, <3>6
    <3>8. \A k \in 1..n + 1 : new[k] = is[k]
      BY <1>6, <2>5, <3>5, <3>7
    <3>9. new = [k \in 1..n + 1 |-> is[k]]
      BY <3>7, <3>8
    <3> QED
      BY <1>10, <3>2, <3>4, <3>6, <3>9
  <2>11. AppendsInPlace(call)
    BY <1>2, <1>4, <1>5, <1>12 DEF AppendsInPlace, Untraced
  <2>12. \A h \in Callers : \A i \in DOMAIN plan[h] :
           plan[h][i].opts.array = a => plan[h][i].opts.len <= n
    BY <1>3, <1>4, <1>5, <2>11, Zenon DEF Apart
  <2>13. ASSUME NEW h \in Callers, h # g, pc[h] = "message", Untraced(Call(h)),
                slice[h].array = a
         PROVE  FALSE
    <3>1. /\ at[h] < Len(plan[h])
          /\ Call(h).fn \in MessageFns /\ Call(h).isCtx
          /\ Appended(h, Call(h), slice[h], heap)
      BY <2>13 DEF SInv, Inside
    <3>2. at[h] + 1 \in DOMAIN plan[h] /\ Call(h) = plan[h][at[h] + 1]
      BY <3>1, CallPlanned DEF SInv, Call
    <3>3. /\ Call(h).opts.array = a
          /\ Call(h).opts.len < Len(Arrays[Call(h).opts.array])
      BY <1>6, <2>13, <3>1 DEF Appended
    <3>4. AppendsInPlace(Call(h))
      BY <2>13, <3>1, <3>3 DEF AppendsInPlace, Untraced
    <3> QED
      BY <1>3, <1>4, <2>11, <2>13, <3>2, <3>3, <3>4, Zenon DEF Apart
  <2>14. /\ slice' \in [Callers -> [array : DOMAIN Arrays \union Callers \union {"none"},
                                    len : Nat]]
         /\ \A h \in Callers : h # g => slice'[h] = slice[h]
         /\ slice'[g].array = a
    BY <1>6, <2>1 DEF SInv, Typed
  <2>15. Inside(g, call, "message", slice'[g], heap')
    BY <1>2, <1>4, <1>5, <1>7, <1>12, <2>10, <2>14 DEF Inside, Appended
  <2>16. pc' = [pc EXCEPT ![g] = "message"] /\ UNCHANGED <<plan, at, sent>>
    BY DEF AppendOpt
  <2>17. n \in Nat
    BY <1>6
  <2> QED
    BY <1>1, <1>2, <2>7, <2>8, <2>9, <2>12, <2>13, <2>14, <2>15, <2>16, <2>17,
       AppendedStep
<1>13. CASE ~(n < Len(Arrays[a]))
  <2>1. PICK new : new = Append(Elements(Arrays, call.opts), opt)
    OBVIOUS
  <2>2. new \in Seq(Options) /\ Len(new) = n + 1
    BY <1>8, <1>10, <1>11, <2>1
  <2>3. /\ heap' = [heap EXCEPT ![g] = new]
        /\ slice' = [slice EXCEPT ![g] = [array |-> g, len |-> n + 1]]
    BY <1>1, <1>2, <1>4, <1>5, <1>7, <1>10, <1>13, <2>1 DEF AppendOpt
  <2>4. /\ heap' \in [DOMAIN Arrays \union Callers -> Seq(Options)]
        /\ heap'[g] = new
        /\ \A b \in DOMAIN Arrays \union Callers : b # g => heap'[b] = heap[b]
    BY <1>10, <2>2, <2>3
  <2>5. Behind(heap, heap', g, 0)
    BY <1>10, <2>4 DEF Behind
  <2>6. g \notin DOMAIN Arrays
    BY ArraysAssumption
  <2>7. \A b \in DOMAIN Arrays : Len(heap'[b]) = Len(Arrays[b])
    BY <2>4, <2>6 DEF SInv, Unharmed
  <2>8. \A h \in Callers : \A i \in DOMAIN plan[h] : plan[h][i].opts.array # g
    BY <1>3, <2>6, PlansAssumption
  <2>9. ASSUME NEW h \in Callers, h # g, pc[h] = "message", Untraced(Call(h)),
               slice[h].array = g
        PROVE  FALSE
    <3>1. at[h] < Len(plan[h]) /\ Appended(h, Call(h), slice[h], heap)
      BY <2>9 DEF SInv, Inside
    <3>2. at[h] + 1 \in DOMAIN plan[h] /\ Call(h) = plan[h][at[h] + 1]
      BY <3>1, CallPlanned DEF SInv, Call
    <3> QED
      BY <2>8, <2>9, <3>1, <3>2 DEF Appended
  <2>10. /\ slice' \in [Callers -> [array : DOMAIN Arrays \union Callers \union {"none"},
                                    len : Nat]]
         /\ \A h \in Callers : h # g => slice'[h] = slice[h]
         /\ slice'[g].array = g /\ slice'[g].len = n + 1
    BY <1>6, <2>3 DEF SInv, Typed
  <2>11. Elements(heap', slice'[g]) = new
    BY <2>2, <2>4, <2>10 DEF Elements
  <2>12. Inside(g, call, "message", slice'[g], heap')
    BY <1>2, <1>4, <1>5, <1>7, <1>13, <2>1, <2>10, <2>11 DEF Inside, Appended
  <2>13. pc' = [pc EXCEPT ![g] = "message"] /\ UNCHANGED <<plan, at, sent>>
    BY DEF AppendOpt
  <2>14. \A h \in Callers : \A i \in DOMAIN plan[h] :
           plan[h][i].opts.array = g => plan[h][i].opts.len <= 0
    BY <2>8, Zenon
  <2>15. PICK m \in Nat : m = 0
    OBVIOUS
  <2> QED
    BY <1>1, <1>2, <2>4, <2>5, <2>7, <2>9, <2>10, <2>12, <2>13, <2>14, <2>15,
       AppendedStep
<1> QED
  BY <1>12, <1>13

-----------------------------------------------------------------------------
(* The specification *)

LEMMA InitSInv == Init => SInv
<1> SUFFICES ASSUME Init PROVE SInv
  OBVIOUS
<1>1. \A a \in DOMAIN Arrays : heap[a] = Arrays[a]
  BY ArraysAssumption DEF Init
<1>2. heap \in [DOMAIN Arrays \union Callers -> Seq(Options)]
  BY ArraysAssumption DEF Init
<1>3. Typed
  BY <1>2 DEF Init, Typed, NoSlice
<1>4. Unharmed(plan, heap)
  BY <1>1, <1>3, PlansAssumption DEF Unharmed, Elements, Typed
<1> QED
  BY <1>3, <1>4 DEF Init, SInv, OwnTrace

LEMMA NextSInv == Apart(plan) /\ SInv /\ [Next]_vars => SInv'
<1> SUFFICES ASSUME Apart(plan), SInv, [Next]_vars PROVE SInv'
  OBVIOUS
<1>1. ASSUME UNCHANGED <<plan, heap, pc, at, slice, sent>> PROVE SInv'
  BY <1>1, Zenon DEF SInv, Typed, OwnTrace, Call
<1>2. ASSUME NEW g \in Callers, Send(g) PROVE SInv'
  BY <1>2, LogStep DEF Send, MessageFns
<1>3. ASSUME NEW g \in Callers, App(g) PROVE SInv'
  BY <1>3, LogStep DEF App, MessageFns
<1>4. ASSUME NEW g \in Callers, EventTrack(g) PROVE SInv'
  BY <1>4, LogStep DEF EventTrack, MessageFns
<1>5. ASSUME NEW g \in Callers, RPC(g) PROVE SInv'
  BY <1>5, LogStep DEF RPC, MessageFns
<1>6. ASSUME NEW g \in Callers, InboundHTTP(g) PROVE SInv'
  BY <1>6, LogStep DEF InboundHTTP, HTTP, MessageFns
<1>7. ASSUME NEW g \in Callers, OutboundHTTP(g) PROVE SInv'
  BY <1>7, LogStep DEF OutboundHTTP, HTTP, MessageFns
<1>8. ASSUME NEW g \in Callers, SendAppMessage(g) PROVE SInv'
  BY <1>8, MessageStep DEF SendAppMessage, MessageFns
<1>9. ASSUME NEW g \in Callers, SendSysMessage(g) PROVE SInv'
  BY <1>9, MessageStep DEF SendSysMessage, MessageFns
<1>10. ASSUME NEW g \in Callers, SendExpAssignmentMessage(g) PROVE SInv'
  BY <1>10, MessageStep DEF SendExpAssignmentMessage, MessageFns
<1>11. CASE Setenv
  BY <1>1, <1>11 DEF Setenv
<1>12. CASE Done \/ UNCHANGED vars
  BY <1>1, <1>12 DEF Done, vars
<1> QED
  BY <1>2, <1>3, <1>4, <1>5, <1>6, <1>7, <1>8, <1>9, <1>10, <1>11, <1>12,
     MessageCtxStep, AppendOptStep DEF Next

\* Goroutines that call the helpers of pkg/logtrack at the same time, with
\* options that are Apart, send envelopes with the trace id and the connection
\* their own call asked for, and logs with the partition key it asked for.
\* Without Apart it is not so: the Ctx variants of the messages append to the
\* slice the caller passed.
THEOREM OwnTraceHolds == Spec => [](Apart(plan) => OwnTrace)
<1> DEFINE Guarded == Apart(plan) => SInv
<1>1. Init => Guarded
  BY InitSInv
<1>2. Guarded /\ [Next]_vars => Guarded'
  <2> SUFFICES ASSUME Guarded, [Next]_vars, Apart(plan)' PROVE SInv'
    OBVIOUS
  <2>1. plan' = plan
    BY DEF Next, vars, Send, App, EventTrack, RPC, InboundHTTP, OutboundHTTP,
           HTTP, Log, MessageCtx, AppendOpt, SendAppMessage, SendSysMessage,
           SendExpAssignmentMessage, Message, Setenv, Done
  <2>2. Apart(plan)
    BY <2>1
  <2> QED
    BY <2>2, NextSInv
<1>3. Guarded => (Apart(plan) => OwnTrace)
  BY DEF SInv
<1> QED
  BY <1>1, <1>2, <1>3, PTL DEF Spec
=============================================================================
