---------------------------- MODULE ClientProofs ----------------------------
(***************************************************************************)
(* Proofs about Client for any number of goroutines, clients and shards.   *)
(* IInv is inductive: to the types it adds what a goroutine inside Send or *)
(* Close knows at each point, above all that holding s.mu excludes every   *)
(* other Send and every round of Close on that shard, so that a shard that *)
(* Close has been through can never be dialed again.                       *)
(***************************************************************************)
EXTENDS Client, TLAPS

\* Where a Send holds the mutex of its shard.
Holding == {"locked", "recheck", "dial", "write"}

\* A goroutine is inside calls of its own kind only, on a client that New made,
\* and a Send past the choice has its shard.
InHand ==
  /\ \A t \in Callers : pc[t] \in {"idle", "check", "lock"} \union Holding
  /\ \A t \in Admins : pc[t] \in {"idle", "close", "shards"}
  /\ \A t \in Threads : pc[t] # "idle" => ref[t] \in made
  /\ \A t \in Callers : pc[t] \in {"lock"} \union Holding => shard[t] \in Shards

\* A Send between Lock and Unlock is the holder of its shard's mutex, and it
\* writes only on a connection.
Locked ==
  \A t \in Callers :
    /\ pc[t] \in Holding => mu[ref[t]][shard[t]] = t
    /\ pc[t] = "write" => conn[ref[t]][shard[t]]

\* A shard without a connection that no Send is about to dial.
Sealed(c, s) ==
  /\ ~conn[c][s]
  /\ \A t \in Callers : ~(pc[t] = "dial" /\ ref[t] = c /\ shard[t] = s)

\* Client.Close seals the shards one after the other, and they stay sealed.
Swept ==
  /\ \A a \in Admins :
       pc[a] = "shards" => /\ closed[ref[a]]
                           /\ \A s \in 1..upto[a] : Sealed(ref[a], s)
  /\ \A c \in shut : closed[c] /\ \A s \in Shards : Sealed(c, s)

\* A connection in use carries whole frames only.
WholeWhileOpen ==
  \A c \in Clients, s \in Shards :
    conn[c][s] => \A i \in 1..Len(wire[c][s]) : wire[c][s][i] # "torn"

\* Every client that New made is the default, or is closed, or is being closed
\* by the Init or Close that took it; who holds defaultMu closes the default.
Owned ==
  /\ default \in made \union {Nil}
  /\ \A a \in Admins : defaultMu = a =>
       pc[a] \in {"close", "shards"} /\ ref[a] = default
  /\ \A c \in made : \/ c = default
                     \/ c \in shut
                     \/ \E a \in Admins : pc[a] # "idle" /\ ref[a] = c

\* The inductive invariant.
IInv ==
  /\ TypeOK
  /\ InHand
  /\ Locked
  /\ Swept
  /\ WholeWhileOpen
  /\ TornIsLast
  /\ Owned

\* Every step of a Send, an Init or a Close keeps the types.
LEMMA NextTypeOK == IInv /\ [Next]_vars => TypeOK'
<1> SUFFICES ASSUME IInv, [Next]_vars PROVE TypeOK'
  OBVIOUS
<1> USE ThreadsAssumption, ShardsAssumption, NilAssumption
       DEF IInv, TypeOK, InHand, Threads, Holding, Shards, shards, threads
<1>1. ASSUME NEW t \in Callers, SendClient(t) PROVE TypeOK'
  BY <1>1 DEF SendClient, Goto
<1>2. ASSUME NEW t \in Callers, SendNoClient(t) PROVE TypeOK'
  BY <1>2 DEF SendNoClient, Goto
<1>3. ASSUME NEW t \in Callers, SendCheck(t) PROVE TypeOK'
  BY <1>3 DEF SendCheck, Goto
<1>4. ASSUME NEW t \in Callers, SendToClosed(t) PROVE TypeOK'
  BY <1>4 DEF SendToClosed, Goto
<1>5. ASSUME NEW t \in Callers, SendLock(t) PROVE TypeOK'
  BY <1>5 DEF SendLock, Goto
<1>6. ASSUME NEW t \in Callers, SendSkip(t) PROVE TypeOK'
  BY <1>6 DEF SendSkip, SendReturn, Goto
<1>7. ASSUME NEW t \in Callers, SendReady(t) PROVE TypeOK'
  BY <1>7 DEF SendReady, Goto
<1>8. ASSUME NEW t \in Callers, SendRecheck(t) PROVE TypeOK'
  BY <1>8 DEF SendRecheck, Goto
<1>9. ASSUME NEW t \in Callers, SendTooLate(t) PROVE TypeOK'
  BY <1>9 DEF SendTooLate, SendReturn, Goto
<1>10. ASSUME NEW t \in Callers, Dial(t) PROVE TypeOK'
  BY <1>10 DEF Dial, Goto
<1>11. ASSUME NEW t \in Callers, DialFails(t) PROVE TypeOK'
  BY <1>11 DEF DialFails, SendReturn, Goto
<1>12. ASSUME NEW t \in Callers, WriteFrame(t) PROVE TypeOK'
  <2>1. wire' \in [Clients -> [Shards -> Seq({"whole", "torn"})]]
    BY <1>12 DEF WriteFrame
  <2> QED
    BY <1>12, <2>1 DEF WriteFrame, SendReturn, Goto
<1>13. ASSUME NEW t \in Callers, WriteFails(t) PROVE TypeOK'
  BY <1>13 DEF WriteFails, SendReturn, Goto
<1>14. ASSUME NEW c \in Clients, NEW s \in Shards, BackoffEnds(c, s)
       PROVE  TypeOK'
  BY <1>14 DEF BackoffEnds, Goto
<1>15. ASSUME NEW t \in Admins, NEW c \in Clients, InitSwap(t, c) PROVE TypeOK'
  BY <1>15 DEF InitSwap, Goto
<1>16. ASSUME NEW t \in Admins, NEW c \in Clients, InitFirst(t, c)
       PROVE  TypeOK'
  BY <1>16 DEF InitFirst, Goto
<1>17. ASSUME NEW t \in Admins, CloseDefault(t) PROVE TypeOK'
  BY <1>17 DEF CloseDefault, Goto
<1>18. ASSUME NEW t \in Admins, CloseNothing(t) PROVE TypeOK'
  BY <1>18 DEF CloseNothing, Goto
<1>19. ASSUME NEW t \in Admins, SetClosed(t) PROVE TypeOK'
  BY <1>19 DEF SetClosed, Goto
<1>20. ASSUME NEW t \in Admins, CloseShard(t) PROVE TypeOK'
  BY <1>20 DEF CloseShard, Goto
<1>21. ASSUME NEW t \in Admins, CloseReturn(t) PROVE TypeOK'
  BY <1>21 DEF CloseReturn, Goto
<1>22. CASE Quiet \/ UNCHANGED vars
  BY <1>22 DEF Quiet, vars
<1> QED
  BY <1>1, <1>2, <1>3, <1>4, <1>5, <1>6, <1>7, <1>8, <1>9, <1>10, <1>11, <1>12,
     <1>13, <1>14, <1>15, <1>16, <1>17, <1>18, <1>19, <1>20, <1>21, <1>22
     DEF Next, SendStep, AdminStep

\* Every step leaves each goroutine in a call of its own kind, with a client and,
\* past the choice, a shard.
LEMMA NextInHand == IInv /\ [Next]_vars => InHand'
<1> SUFFICES ASSUME IInv, [Next]_vars PROVE InHand'
  OBVIOUS
<1> USE ThreadsAssumption, ShardsAssumption, NilAssumption
       DEF IInv, TypeOK, InHand, Owned, Threads, Holding, shards, threads
<1>1. ASSUME NEW t \in Callers, SendClient(t) PROVE InHand'
  BY <1>1 DEF SendClient, Goto
<1>2. ASSUME NEW t \in Callers, SendNoClient(t) PROVE InHand'
  BY <1>2 DEF SendNoClient, Goto
<1>3. ASSUME NEW t \in Callers, SendCheck(t) PROVE InHand'
  BY <1>3 DEF SendCheck, Goto
<1>4. ASSUME NEW t \in Callers, SendToClosed(t) PROVE InHand'
  BY <1>4 DEF SendToClosed, Goto
<1>5. ASSUME NEW t \in Callers, SendLock(t) PROVE InHand'
  BY <1>5 DEF SendLock, Goto
<1>6. ASSUME NEW t \in Callers, SendSkip(t) PROVE InHand'
  BY <1>6 DEF SendSkip, SendReturn, Goto
<1>7. ASSUME NEW t \in Callers, SendReady(t) PROVE InHand'
  BY <1>7 DEF SendReady, Goto
<1>8. ASSUME NEW t \in Callers, SendRecheck(t) PROVE InHand'
  BY <1>8 DEF SendRecheck, Goto
<1>9. ASSUME NEW t \in Callers, SendTooLate(t) PROVE InHand'
  BY <1>9 DEF SendTooLate, SendReturn, Goto
<1>10. ASSUME NEW t \in Callers, Dial(t) PROVE InHand'
  BY <1>10 DEF Dial, Goto
<1>11. ASSUME NEW t \in Callers, DialFails(t) PROVE InHand'
  BY <1>11 DEF DialFails, SendReturn, Goto
<1>12. ASSUME NEW t \in Callers, WriteFrame(t) PROVE InHand'
  BY <1>12 DEF WriteFrame, SendReturn, Goto
<1>13. ASSUME NEW t \in Callers, WriteFails(t) PROVE InHand'
  BY <1>13 DEF WriteFails, SendReturn, Goto
<1>14. ASSUME NEW c \in Clients, NEW s \in Shards, BackoffEnds(c, s)
       PROVE  InHand'
  BY <1>14 DEF BackoffEnds, Goto
<1>15. ASSUME NEW t \in Admins, NEW c \in Clients, InitSwap(t, c) PROVE InHand'
  BY <1>15 DEF InitSwap, Goto
<1>16. ASSUME NEW t \in Admins, NEW c \in Clients, InitFirst(t, c)
       PROVE  InHand'
  BY <1>16 DEF InitFirst, Goto
<1>17. ASSUME NEW t \in Admins, CloseDefault(t) PROVE InHand'
  BY <1>17 DEF CloseDefault, Goto
<1>18. ASSUME NEW t \in Admins, CloseNothing(t) PROVE InHand'
  BY <1>18 DEF CloseNothing, Goto
<1>19. ASSUME NEW t \in Admins, SetClosed(t) PROVE InHand'
  BY <1>19 DEF SetClosed, Goto
<1>20. ASSUME NEW t \in Admins, CloseShard(t) PROVE InHand'
  BY <1>20 DEF CloseShard, Goto
<1>21. ASSUME NEW t \in Admins, CloseReturn(t) PROVE InHand'
  BY <1>21 DEF CloseReturn, Goto
<1>22. CASE Quiet \/ UNCHANGED vars
  BY <1>22 DEF Quiet, vars
<1> QED
  BY <1>1, <1>2, <1>3, <1>4, <1>5, <1>6, <1>7, <1>8, <1>9, <1>10, <1>11, <1>12,
     <1>13, <1>14, <1>15, <1>16, <1>17, <1>18, <1>19, <1>20, <1>21, <1>22
     DEF Next, SendStep, AdminStep

\* The mutex of a shard excludes: no step takes it, or the connection, from a
\* Send that is between Lock and Unlock.
LEMMA NextLocked == IInv /\ [Next]_vars => Locked'
<1> SUFFICES ASSUME IInv, [Next]_vars PROVE Locked'
  OBVIOUS
<1> USE ThreadsAssumption, ShardsAssumption, NilAssumption
       DEF IInv, TypeOK, InHand, Locked, Threads, Holding, shards,
           threads
<1>1. ASSUME NEW t \in Callers, SendClient(t) PROVE Locked'
  BY <1>1 DEF SendClient, Goto
<1>2. ASSUME NEW t \in Callers, SendNoClient(t) PROVE Locked'
  BY <1>2 DEF SendNoClient, Goto
<1>3. ASSUME NEW t \in Callers, SendCheck(t) PROVE Locked'
  BY <1>3 DEF SendCheck, Goto
<1>4. ASSUME NEW t \in Callers, SendToClosed(t) PROVE Locked'
  BY <1>4 DEF SendToClosed, Goto
<1>5. ASSUME NEW t \in Callers, SendLock(t) PROVE Locked'
  BY <1>5 DEF SendLock, Goto
<1>6. ASSUME NEW t \in Callers, SendSkip(t) PROVE Locked'
  BY <1>6 DEF SendSkip, SendReturn, Goto
<1>7. ASSUME NEW t \in Callers, SendReady(t) PROVE Locked'
  BY <1>7 DEF SendReady, Goto
<1>8. ASSUME NEW t \in Callers, SendRecheck(t) PROVE Locked'
  BY <1>8 DEF SendRecheck, Goto
<1>9. ASSUME NEW t \in Callers, SendTooLate(t) PROVE Locked'
  BY <1>9 DEF SendTooLate, SendReturn, Goto
<1>10. ASSUME NEW t \in Callers, Dial(t) PROVE Locked'
  BY <1>10 DEF Dial, Goto
<1>11. ASSUME NEW t \in Callers, DialFails(t) PROVE Locked'
  BY <1>11 DEF DialFails, SendReturn, Goto
<1>12. ASSUME NEW t \in Callers, WriteFrame(t) PROVE Locked'
  BY <1>12 DEF WriteFrame, SendReturn, Goto
<1>13. ASSUME NEW t \in Callers, WriteFails(t) PROVE Locked'
  BY <1>13 DEF WriteFails, SendReturn, Goto
<1>14. ASSUME NEW c \in Clients, NEW s \in Shards, BackoffEnds(c, s)
       PROVE  Locked'
  BY <1>14 DEF BackoffEnds, Goto
<1>15. ASSUME NEW t \in Admins, NEW c \in Clients, InitSwap(t, c) PROVE Locked'
  BY <1>15 DEF InitSwap, Goto
<1>16. ASSUME NEW t \in Admins, NEW c \in Clients, InitFirst(t, c)
       PROVE  Locked'
  BY <1>16 DEF InitFirst, Goto
<1>17. ASSUME NEW t \in Admins, CloseDefault(t) PROVE Locked'
  BY <1>17 DEF CloseDefault, Goto
<1>18. ASSUME NEW t \in Admins, CloseNothing(t) PROVE Locked'
  BY <1>18 DEF CloseNothing, Goto
<1>19. ASSUME NEW t \in Admins, SetClosed(t) PROVE Locked'
  BY <1>19 DEF SetClosed, Goto
<1>20. ASSUME NEW t \in Admins, CloseShard(t) PROVE Locked'
  BY <1>20 DEF CloseShard, Goto
<1>21. ASSUME NEW t \in Admins, CloseReturn(t) PROVE Locked'
  BY <1>21 DEF CloseReturn, Goto
<1>22. CASE Quiet \/ UNCHANGED vars
  BY <1>22 DEF Quiet, vars
<1> QED
  BY <1>1, <1>2, <1>3, <1>4, <1>5, <1>6, <1>7, <1>8, <1>9, <1>10, <1>11, <1>12,
     <1>13, <1>14, <1>15, <1>16, <1>17, <1>18, <1>19, <1>20, <1>21, <1>22
     DEF Next, SendStep, AdminStep

\* A sealed shard of a client whose c.closed is set stays sealed: a Send dials
\* only after it has seen c.closed unset with the mutex of the shard in hand.
LEMMA SealedStays ==
  ASSUME IInv, [Next]_vars, NEW c \in Clients, NEW s \in Shards, closed[c],
         Sealed(c, s)
  PROVE  Sealed(c, s)'
<1> USE ThreadsAssumption, ShardsAssumption, NilAssumption
       DEF IInv, TypeOK, InHand, Locked, Threads, Holding, Sealed, shards, threads
<1>1. ASSUME NEW t \in Callers, SendClient(t) PROVE Sealed(c, s)'
  BY <1>1 DEF SendClient, Goto
<1>2. ASSUME NEW t \in Callers, SendNoClient(t) PROVE Sealed(c, s)'
  BY <1>2 DEF SendNoClient, Goto
<1>3. ASSUME NEW t \in Callers, SendCheck(t) PROVE Sealed(c, s)'
  BY <1>3 DEF SendCheck, Goto
<1>4. ASSUME NEW t \in Callers, SendToClosed(t) PROVE Sealed(c, s)'
  BY <1>4 DEF SendToClosed, Goto
<1>5. ASSUME NEW t \in Callers, SendLock(t) PROVE Sealed(c, s)'
  BY <1>5 DEF SendLock, Goto
<1>6. ASSUME NEW t \in Callers, SendSkip(t) PROVE Sealed(c, s)'
  BY <1>6 DEF SendSkip, SendReturn, Goto
<1>7. ASSUME NEW t \in Callers, SendReady(t) PROVE Sealed(c, s)'
  BY <1>7 DEF SendReady, Goto
<1>8. ASSUME NEW t \in Callers, SendRecheck(t) PROVE Sealed(c, s)'
  BY <1>8 DEF SendRecheck, Goto
<1>9. ASSUME NEW t \in Callers, SendTooLate(t) PROVE Sealed(c, s)'
  BY <1>9 DEF SendTooLate, SendReturn, Goto
<1>10. ASSUME NEW t \in Callers, Dial(t) PROVE Sealed(c, s)'
  BY <1>10 DEF Dial, Goto
<1>11. ASSUME NEW t \in Callers, DialFails(t) PROVE Sealed(c, s)'
  BY <1>11 DEF DialFails, SendReturn, Goto
<1>12. ASSUME NEW t \in Callers, WriteFrame(t) PROVE Sealed(c, s)'
  BY <1>12 DEF WriteFrame, SendReturn, Goto
<1>13. ASSUME NEW t \in Callers, WriteFails(t) PROVE Sealed(c, s)'
  BY <1>13 DEF WriteFails, SendReturn, Goto
<1>14. ASSUME NEW k \in Clients, NEW r \in Shards, BackoffEnds(k, r)
       PROVE  Sealed(c, s)'
  BY <1>14 DEF BackoffEnds, Goto
<1>15. ASSUME NEW t \in Admins, NEW k \in Clients, InitSwap(t, k)
       PROVE  Sealed(c, s)'
  BY <1>15 DEF InitSwap, Goto
<1>16. ASSUME NEW t \in Admins, NEW k \in Clients, InitFirst(t, k)
       PROVE  Sealed(c, s)'
  BY <1>16 DEF InitFirst, Goto
<1>17. ASSUME NEW t \in Admins, CloseDefault(t) PROVE Sealed(c, s)'
  BY <1>17 DEF CloseDefault, Goto
<1>18. ASSUME NEW t \in Admins, CloseNothing(t) PROVE Sealed(c, s)'
  BY <1>18 DEF CloseNothing, Goto
<1>19. ASSUME NEW t \in Admins, SetClosed(t) PROVE Sealed(c, s)'
  BY <1>19 DEF SetClosed, Goto
<1>20. ASSUME NEW t \in Admins, CloseShard(t) PROVE Sealed(c, s)'
  BY <1>20 DEF CloseShard, Goto
<1>21. ASSUME NEW t \in Admins, CloseReturn(t) PROVE Sealed(c, s)'
  BY <1>21 DEF CloseReturn, Goto
<1>22. CASE Quiet \/ UNCHANGED vars
  BY <1>22 DEF Quiet, vars
<1> QED
  BY <1>1, <1>2, <1>3, <1>4, <1>5, <1>6, <1>7, <1>8, <1>9, <1>10, <1>11, <1>12,
     <1>13, <1>14, <1>15, <1>16, <1>17, <1>18, <1>19, <1>20, <1>21, <1>22
     DEF Next, SendStep, AdminStep

\* c.closed is never cleared.
LEMMA ClosedStays ==
  ASSUME IInv, [Next]_vars, NEW c \in Clients, closed[c]
  PROVE  closed'[c]
<1> USE DEF IInv, TypeOK, shards, threads
<1>1. ASSUME NEW t \in Callers,
             SendClient(t) \/ SendNoClient(t) \/ SendStep(t)
      PROVE  UNCHANGED closed
  BY <1>1 DEF SendClient, SendNoClient, SendStep, SendCheck, SendToClosed,
              SendLock, SendSkip, SendReady, SendRecheck, SendTooLate, Dial,
              DialFails, WriteFrame, WriteFails
<1>2. ASSUME NEW t \in Admins, SetClosed(t) PROVE closed'[c]
  BY <1>2 DEF SetClosed
<1>3. ASSUME NEW t \in Admins, NEW k \in Clients,
             InitSwap(t, k) \/ InitFirst(t, k)
      PROVE  UNCHANGED closed
  BY <1>3 DEF InitSwap, InitFirst
<1>4. ASSUME NEW t \in Admins,
             CloseDefault(t) \/ CloseNothing(t) \/ CloseShard(t) \/ CloseReturn(t)
      PROVE  UNCHANGED closed
  BY <1>4 DEF CloseDefault, CloseNothing, CloseShard, CloseReturn
<1>5. ASSUME NEW k \in Clients, NEW s \in Shards, BackoffEnds(k, s)
      PROVE  UNCHANGED closed
  BY <1>5 DEF BackoffEnds
<1>6. CASE Quiet \/ UNCHANGED vars
  BY <1>6 DEF Quiet, vars
<1> QED
  BY <1>1, <1>2, <1>3, <1>4, <1>5, <1>6 DEF Next, AdminStep

\* What Client.Close has swept, or leaves behind on its return, stays swept: a
\* step that does not move a Close keeps it by SealedStays, and a round of the
\* loop finds the mutex of its shard free, so nobody is about to dial it.
LEMMA NextSwept == IInv /\ [Next]_vars => Swept'
<1> SUFFICES ASSUME IInv, [Next]_vars PROVE Swept'
  OBVIOUS
<1> USE DEF IInv, TypeOK, shards, threads
<1>a. /\ Callers \subseteq Threads /\ Admins \subseteq Threads
      /\ Callers \cap Admins = {}
  BY ThreadsAssumption DEF Threads
<1>b. ASSUME NEW a \in Admins, pc[a] # "idle" PROVE ref[a] \in Clients
  BY <1>a, <1>b DEF InHand
<1>c. ASSUME NEW a \in Admins, pc[a] = "shards", NEW c \in Clients, c = ref[a]
      PROVE  /\ closed'[c]
             /\ \A s \in 1..upto[a] : Sealed(c, s)'
  <2>1. closed[c] /\ \A s \in 1..upto[a] : s \in Shards /\ Sealed(c, s)
    BY <1>c, ShardsAssumption DEF Swept, Shards
  <2> QED
    BY <2>1, ClosedStays, SealedStays
<1>d. \A c \in shut : closed'[c] /\ \A s \in Shards : Sealed(c, s)'
  BY ClosedStays, SealedStays DEF Swept
<1>1. ASSUME \A a \in Admins : /\ pc'[a] = "shards" => pc[a] = "shards"
                               /\ ref'[a] = ref[a],
             UNCHANGED <<upto, shut>>
      PROVE  Swept'
  BY <1>b, <1>c, <1>d, <1>1 DEF Swept
<1>2. ASSUME NEW t \in Callers,
             SendClient(t) \/ SendNoClient(t) \/ SendStep(t)
      PROVE  Swept'
  <2>1. /\ UNCHANGED <<upto, shut>>
        /\ \A a \in Admins : pc'[a] = pc[a] /\ ref'[a] = ref[a]
    BY <1>2, <1>a
       DEF SendClient, SendNoClient, SendStep, SendCheck, SendToClosed,
           SendLock, SendSkip, SendReady, SendRecheck, SendTooLate, Dial,
           DialFails, WriteFrame, WriteFails, SendReturn, Goto
  <2> QED
    BY <1>1, <2>1
<1>3. ASSUME NEW c \in Clients, NEW s \in Shards, BackoffEnds(c, s)
      PROVE  Swept'
  BY <1>1, <1>3 DEF BackoffEnds
<1>4. ASSUME NEW t \in Admins, NEW c \in Clients,
             InitSwap(t, c) \/ InitFirst(t, c)
      PROVE  Swept'
  <2>1. \A a \in Admins : pc'[a] = "shards" => /\ pc[a] = "shards"
                                               /\ ref'[a] = ref[a]
    BY <1>4, <1>a DEF InitSwap, InitFirst, Goto
  <2>2. UNCHANGED <<upto, shut>>
    BY <1>4 DEF InitSwap, InitFirst
  <2> QED
    BY <1>b, <1>c, <1>d, <2>1, <2>2 DEF Swept
<1>5. ASSUME NEW t \in Admins, CloseDefault(t) \/ CloseNothing(t)
      PROVE  Swept'
  <2>1. \A a \in Admins : pc'[a] = "shards" => /\ pc[a] = "shards"
                                               /\ ref'[a] = ref[a]
    BY <1>5, <1>a DEF CloseDefault, CloseNothing, Goto
  <2>2. UNCHANGED <<upto, shut>>
    BY <1>5 DEF CloseDefault, CloseNothing
  <2> QED
    BY <1>b, <1>c, <1>d, <2>1, <2>2 DEF Swept
<1>6. ASSUME NEW t \in Admins, SetClosed(t) PROVE Swept'
  <2>1. closed'[ref'[t]] /\ upto'[t] = 0 /\ 1..0 = {}
    BY <1>6, <1>a, <1>b DEF SetClosed
  <2>2. \A a \in Admins \ {t} : pc'[a] = pc[a] /\ upto'[a] = upto[a]
    BY <1>6, <1>a DEF SetClosed, Goto
  <2>3. UNCHANGED <<ref, shut>>
    BY <1>6 DEF SetClosed
  <2>4. ASSUME NEW a \in Admins, pc'[a] = "shards"
        PROVE  closed'[ref'[a]] /\ \A s \in 1..upto'[a] : Sealed(ref[a], s)'
    <3>1. CASE a = t
      BY <3>1, <2>1
    <3>2. CASE a # t
      BY <3>2, <2>2, <2>3, <2>4, <1>b, <1>c
    <3> QED
      BY <3>1, <3>2
  <2> QED
    BY <1>d, <2>3, <2>4 DEF Swept
<1>7. ASSUME NEW t \in Admins, CloseShard(t) PROVE Swept'
  <2> DEFINE c == ref[t]
             r == upto[t] + 1
  <2>1. /\ c \in Clients /\ r \in Shards /\ upto[t] \in Nat
        /\ 1..r = (1..upto[t]) \union {r}
    BY <1>7, <1>b, ShardsAssumption DEF CloseShard, Shards
  <2>2. ~conn'[c][r]
    BY <1>7, <2>1 DEF CloseShard
  <2>3. \A u \in Callers : ~(pc[u] = "dial" /\ ref[u] = c /\ shard[u] = r)
    BY <1>7, NilAssumption DEF CloseShard, Locked, Holding
  <2>4. UNCHANGED <<pc, ref, shard, shut>> /\ upto' = [upto EXCEPT ![t] = r]
    BY <1>7 DEF CloseShard
  <2>5. ASSUME NEW s \in 1..r PROVE Sealed(c, s)'
    <3>1. CASE s = r
      BY <3>1, <2>2, <2>3, <2>4 DEF Sealed
    <3>2. CASE s # r
      <4>1. pc[t] = "shards"
        BY <1>7 DEF CloseShard
      <4>2. PICK k \in Clients : k = c /\ k = c'
        BY <2>1, <2>4
      <4>3. Sealed(k, s)'
        BY <1>c, <2>1, <3>2, <4>1, <4>2
      <4> QED
        BY <4>2, <4>3 DEF Sealed
    <3> QED
      BY <3>1, <3>2
  <2>6. closed'[ref'[t]] /\ \A s \in 1..upto'[t] : Sealed(ref[t], s)'
    <3>1. closed'[ref'[t]]
      BY <1>7, <1>c, <2>1, <2>4 DEF CloseShard
    <3>2. upto'[t] = r
      BY <2>1, <2>4
    <3> HIDE DEF r
    <3> QED
      BY <3>1, <3>2, <2>5
  <2> QED
    BY <1>b, <1>c, <1>d, <2>4, <2>6 DEF Swept
<1>8. ASSUME NEW t \in Admins, CloseReturn(t) PROVE Swept'
  <2> DEFINE k == ref[t]
  <2>1. ASSUME NEW c \in Clients, c = k
        PROVE  closed'[c] /\ \A s \in Shards : Sealed(c, s)'
    BY <1>8, <1>c, <2>1 DEF CloseReturn, Shards
  <2>2. /\ shut' = shut \union {k} /\ upto' = upto /\ k \in Clients
        /\ pc'[t] = "idle"
        /\ \A a \in Admins \ {t} : pc'[a] = pc[a] /\ ref'[a] = ref[a]
    BY <1>8, <1>a, <1>b DEF CloseReturn, Goto
  <2> QED
    BY <1>b, <1>c, <1>d, <2>1, <2>2 DEF Swept
<1>9. CASE Quiet \/ UNCHANGED vars
  BY <1>1, <1>9 DEF Quiet, vars
<1> QED
  BY <1>2, <1>3, <1>4, <1>5, <1>6, <1>7, <1>8, <1>9 DEF Next, AdminStep

\* A frame is torn only by the step that drops the connection, and a new
\* connection starts empty.
LEMMA NextWhole == IInv /\ [Next]_vars => WholeWhileOpen'
<1> SUFFICES ASSUME IInv, [Next]_vars PROVE WholeWhileOpen'
  OBVIOUS
<1> USE ThreadsAssumption, ShardsAssumption, NilAssumption
       DEF IInv, TypeOK, InHand, Locked, WholeWhileOpen, Threads, Holding,
           shards, threads
<1>1. ASSUME NEW t \in Callers, SendClient(t) PROVE WholeWhileOpen'
  BY <1>1 DEF SendClient, Goto
<1>2. ASSUME NEW t \in Callers, SendNoClient(t) PROVE WholeWhileOpen'
  BY <1>2 DEF SendNoClient, Goto
<1>3. ASSUME NEW t \in Callers, SendCheck(t) PROVE WholeWhileOpen'
  BY <1>3 DEF SendCheck, Goto
<1>4. ASSUME NEW t \in Callers, SendToClosed(t) PROVE WholeWhileOpen'
  BY <1>4 DEF SendToClosed, Goto
<1>5. ASSUME NEW t \in Callers, SendLock(t) PROVE WholeWhileOpen'
  BY <1>5 DEF SendLock, Goto
<1>6. ASSUME NEW t \in Callers, SendSkip(t) PROVE WholeWhileOpen'
  BY <1>6 DEF SendSkip, SendReturn, Goto
<1>7. ASSUME NEW t \in Callers, SendReady(t) PROVE WholeWhileOpen'
  BY <1>7 DEF SendReady, Goto
<1>8. ASSUME NEW t \in Callers, SendRecheck(t) PROVE WholeWhileOpen'
  BY <1>8 DEF SendRecheck, Goto
<1>9. ASSUME NEW t \in Callers, SendTooLate(t) PROVE WholeWhileOpen'
  BY <1>9 DEF SendTooLate, SendReturn, Goto
<1>10. ASSUME NEW t \in Callers, Dial(t) PROVE WholeWhileOpen'
  BY <1>10 DEF Dial, Goto
<1>11. ASSUME NEW t \in Callers, DialFails(t) PROVE WholeWhileOpen'
  BY <1>11 DEF DialFails, SendReturn, Goto
<1>12. ASSUME NEW t \in Callers, WriteFrame(t) PROVE WholeWhileOpen'
  BY <1>12 DEF WriteFrame, SendReturn, Goto
<1>13. ASSUME NEW t \in Callers, WriteFails(t) PROVE WholeWhileOpen'
  BY <1>13 DEF WriteFails, SendReturn, Goto
<1>14. ASSUME NEW c \in Clients, NEW s \in Shards, BackoffEnds(c, s)
       PROVE  WholeWhileOpen'
  BY <1>14 DEF BackoffEnds, Goto
<1>15. ASSUME NEW t \in Admins, NEW c \in Clients, InitSwap(t, c)
       PROVE  WholeWhileOpen'
  BY <1>15 DEF InitSwap, Goto
<1>16. ASSUME NEW t \in Admins, NEW c \in Clients, InitFirst(t, c)
       PROVE  WholeWhileOpen'
  BY <1>16 DEF InitFirst, Goto
<1>17. ASSUME NEW t \in Admins, CloseDefault(t) PROVE WholeWhileOpen'
  BY <1>17 DEF CloseDefault, Goto
<1>18. ASSUME NEW t \in Admins, CloseNothing(t) PROVE WholeWhileOpen'
  BY <1>18 DEF CloseNothing, Goto
<1>19. ASSUME NEW t \in Admins, SetClosed(t) PROVE WholeWhileOpen'
  BY <1>19 DEF SetClosed, Goto
<1>20. ASSUME NEW t \in Admins, CloseShard(t) PROVE WholeWhileOpen'
  BY <1>20 DEF CloseShard, Goto
<1>21. ASSUME NEW t \in Admins, CloseReturn(t) PROVE WholeWhileOpen'
  BY <1>21 DEF CloseReturn, Goto
<1>22. CASE Quiet \/ UNCHANGED vars
  BY <1>22 DEF Quiet, vars
<1> QED
  BY <1>1, <1>2, <1>3, <1>4, <1>5, <1>6, <1>7, <1>8, <1>9, <1>10, <1>11, <1>12,
     <1>13, <1>14, <1>15, <1>16, <1>17, <1>18, <1>19, <1>20, <1>21, <1>22
     DEF Next, SendStep, AdminStep

\* A frame is added only to a connection that carries whole frames.
LEMMA NextTorn == IInv /\ [Next]_vars => TornIsLast'
<1> SUFFICES ASSUME IInv, [Next]_vars PROVE TornIsLast'
  OBVIOUS
<1> USE ThreadsAssumption, ShardsAssumption, NilAssumption
       DEF IInv, TypeOK, InHand, Locked, WholeWhileOpen, TornIsLast, Threads,
           Holding, shards, threads
<1>1. ASSUME NEW t \in Callers, SendClient(t) PROVE TornIsLast'
  BY <1>1 DEF SendClient, Goto
<1>2. ASSUME NEW t \in Callers, SendNoClient(t) PROVE TornIsLast'
  BY <1>2 DEF SendNoClient, Goto
<1>3. ASSUME NEW t \in Callers, SendCheck(t) PROVE TornIsLast'
  BY <1>3 DEF SendCheck, Goto
<1>4. ASSUME NEW t \in Callers, SendToClosed(t) PROVE TornIsLast'
  BY <1>4 DEF SendToClosed, Goto
<1>5. ASSUME NEW t \in Callers, SendLock(t) PROVE TornIsLast'
  BY <1>5 DEF SendLock, Goto
<1>6. ASSUME NEW t \in Callers, SendSkip(t) PROVE TornIsLast'
  BY <1>6 DEF SendSkip, SendReturn, Goto
<1>7. ASSUME NEW t \in Callers, SendReady(t) PROVE TornIsLast'
  BY <1>7 DEF SendReady, Goto
<1>8. ASSUME NEW t \in Callers, SendRecheck(t) PROVE TornIsLast'
  BY <1>8 DEF SendRecheck, Goto
<1>9. ASSUME NEW t \in Callers, SendTooLate(t) PROVE TornIsLast'
  BY <1>9 DEF SendTooLate, SendReturn, Goto
<1>10. ASSUME NEW t \in Callers, Dial(t) PROVE TornIsLast'
  BY <1>10 DEF Dial, Goto
<1>11. ASSUME NEW t \in Callers, DialFails(t) PROVE TornIsLast'
  BY <1>11 DEF DialFails, SendReturn, Goto
<1>12. ASSUME NEW t \in Callers, WriteFrame(t) PROVE TornIsLast'
  BY <1>12 DEF WriteFrame, SendReturn, Goto
<1>13. ASSUME NEW t \in Callers, WriteFails(t) PROVE TornIsLast'
  BY <1>13 DEF WriteFails, SendReturn, Goto
<1>14. ASSUME NEW c \in Clients, NEW s \in Shards, BackoffEnds(c, s)
       PROVE  TornIsLast'
  BY <1>14 DEF BackoffEnds, Goto
<1>15. ASSUME NEW t \in Admins, NEW c \in Clients, InitSwap(t, c)
       PROVE  TornIsLast'
  BY <1>15 DEF InitSwap, Goto
<1>16. ASSUME NEW t \in Admins, NEW c \in Clients, InitFirst(t, c)
       PROVE  TornIsLast'
  BY <1>16 DEF InitFirst, Goto
<1>17. ASSUME NEW t \in Admins, CloseDefault(t) PROVE TornIsLast'
  BY <1>17 DEF CloseDefault, Goto
<1>18. ASSUME NEW t \in Admins, CloseNothing(t) PROVE TornIsLast'
  BY <1>18 DEF CloseNothing, Goto
<1>19. ASSUME NEW t \in Admins, SetClosed(t) PROVE TornIsLast'
  BY <1>19 DEF SetClosed, Goto
<1>20. ASSUME NEW t \in Admins, CloseShard(t) PROVE TornIsLast'
  BY <1>20 DEF CloseShard, Goto
<1>21. ASSUME NEW t \in Admins, CloseReturn(t) PROVE TornIsLast'
  BY <1>21 DEF CloseReturn, Goto
<1>22. CASE Quiet \/ UNCHANGED vars
  BY <1>22 DEF Quiet, vars
<1> QED
  BY <1>1, <1>2, <1>3, <1>4, <1>5, <1>6, <1>7, <1>8, <1>9, <1>10, <1>11, <1>12,
     <1>13, <1>14, <1>15, <1>16, <1>17, <1>18, <1>19, <1>20, <1>21, <1>22
     DEF Next, SendStep, AdminStep

\* No step loses a client: the one that Init replaces is in the hands of that
\* Init until its Close has returned.
LEMMA NextOwned == IInv /\ [Next]_vars => Owned'
<1> SUFFICES ASSUME IInv, [Next]_vars PROVE Owned'
  OBVIOUS
<1> USE ThreadsAssumption, ShardsAssumption, NilAssumption
       DEF IInv, TypeOK, InHand, Owned, Threads, Holding, shards, threads
<1>1. ASSUME NEW t \in Callers, SendClient(t) PROVE Owned'
  BY <1>1 DEF SendClient, Goto
<1>2. ASSUME NEW t \in Callers, SendNoClient(t) PROVE Owned'
  BY <1>2 DEF SendNoClient, Goto
<1>3. ASSUME NEW t \in Callers, SendCheck(t) PROVE Owned'
  BY <1>3 DEF SendCheck, Goto
<1>4. ASSUME NEW t \in Callers, SendToClosed(t) PROVE Owned'
  BY <1>4 DEF SendToClosed, Goto
<1>5. ASSUME NEW t \in Callers, SendLock(t) PROVE Owned'
  BY <1>5 DEF SendLock, Goto
<1>6. ASSUME NEW t \in Callers, SendSkip(t) PROVE Owned'
  BY <1>6 DEF SendSkip, SendReturn, Goto
<1>7. ASSUME NEW t \in Callers, SendReady(t) PROVE Owned'
  BY <1>7 DEF SendReady, Goto
<1>8. ASSUME NEW t \in Callers, SendRecheck(t) PROVE Owned'
  BY <1>8 DEF SendRecheck, Goto
<1>9. ASSUME NEW t \in Callers, SendTooLate(t) PROVE Owned'
  BY <1>9 DEF SendTooLate, SendReturn, Goto
<1>10. ASSUME NEW t \in Callers, Dial(t) PROVE Owned'
  BY <1>10 DEF Dial, Goto
<1>11. ASSUME NEW t \in Callers, DialFails(t) PROVE Owned'
  BY <1>11 DEF DialFails, SendReturn, Goto
<1>12. ASSUME NEW t \in Callers, WriteFrame(t) PROVE Owned'
  BY <1>12 DEF WriteFrame, SendReturn, Goto
<1>13. ASSUME NEW t \in Callers, WriteFails(t) PROVE Owned'
  BY <1>13 DEF WriteFails, SendReturn, Goto
<1>14. ASSUME NEW c \in Clients, NEW s \in Shards, BackoffEnds(c, s)
       PROVE  Owned'
  BY <1>14 DEF BackoffEnds, Goto
<1>15. ASSUME NEW t \in Admins, NEW c \in Clients, InitSwap(t, c) PROVE Owned'
  BY <1>15 DEF InitSwap, Goto
<1>16. ASSUME NEW t \in Admins, NEW c \in Clients, InitFirst(t, c) PROVE Owned'
  <2>1. default' \in made' \union {Nil}
    BY <1>16 DEF InitFirst
  <2>2. \A a \in Admins : defaultMu' # a
    BY <1>16 DEF InitFirst
  <2>3. \A k \in made : k # Nil
    OBVIOUS
  <2>4. ASSUME NEW k \in made'
        PROVE  (\/ k = default
                \/ k \in shut
                \/ \E a \in Admins : pc[a] # "idle" /\ ref[a] = k)'
    BY <1>16, <2>3, <2>4 DEF InitFirst
  <2> QED
    BY <2>1, <2>2, <2>4
<1>17. ASSUME NEW t \in Admins, CloseDefault(t) PROVE Owned'
  BY <1>17 DEF CloseDefault, Goto
<1>18. ASSUME NEW t \in Admins, CloseNothing(t) PROVE Owned'
  BY <1>18 DEF CloseNothing, Goto
<1>19. ASSUME NEW t \in Admins, SetClosed(t) PROVE Owned'
  BY <1>19 DEF SetClosed, Goto
<1>20. ASSUME NEW t \in Admins, CloseShard(t) PROVE Owned'
  BY <1>20 DEF CloseShard, Goto
<1>21. ASSUME NEW t \in Admins, CloseReturn(t) PROVE Owned'
  BY <1>21 DEF CloseReturn, Goto
<1>22. CASE Quiet \/ UNCHANGED vars
  BY <1>22 DEF Quiet, vars
<1> QED
  BY <1>1, <1>2, <1>3, <1>4, <1>5, <1>6, <1>7, <1>8, <1>9, <1>10, <1>11, <1>12,
     <1>13, <1>14, <1>15, <1>16, <1>17, <1>18, <1>19, <1>20, <1>21, <1>22
     DEF Next, SendStep, AdminStep

-----------------------------------------------------------------------------
\* Before the first Init nothing is made, held or open.
LEMMA InitIInv == Init => IInv
<1> SUFFICES ASSUME Init PROVE IInv
  OBVIOUS
<1> USE ThreadsAssumption, ShardsAssumption, NilAssumption DEF Init, Threads
<1>1. TypeOK
  BY DEF TypeOK, Shards
<1>2. InHand /\ Locked
  BY DEF InHand, Locked, Holding
<1>3. Swept /\ Owned
  BY DEF Swept, Owned
<1>4. WholeWhileOpen /\ TornIsLast
  BY DEF WholeWhileOpen, TornIsLast
<1> QED
  BY <1>1, <1>2, <1>3, <1>4 DEF IInv

\* IInv holds in every state the goroutines of an application can reach.
THEOREM Inductive == Spec => []IInv
<1>1. IInv /\ [Next]_vars => IInv'
  BY NextTypeOK, NextInHand, NextLocked, NextSwept, NextWhole, NextTorn,
     NextOwned DEF IInv
<1> QED
  BY <1>1, InitIInv, PTL DEF Spec

\* Whatever Sends, Inits and Closes overlap, every variable stays in its type.
THEOREM TypeCorrect == Spec => []TypeOK
<1>1. IInv => TypeOK
  BY DEF IInv
<1> QED
  BY <1>1, Inductive, PTL

\* After Client.Close has returned no shard of the client has a connection
\* again: not by a Send that saw c.closed unset, nor by one that waited for the
\* mutex of the shard all the while.
THEOREM Closed == Spec => []ClosedStaysClosed
<1>1. IInv => ClosedStaysClosed
  BY DEF IInv, Swept, Sealed, ClosedStaysClosed
<1> QED
  BY <1>1, Inductive, PTL

\* When no Init or Close is on its way, every client but the default one is
\* closed and has no connections.
THEOREM NoLeak == Spec => []NoClientLeaks
<1>1. IInv => NoClientLeaks
  BY DEF IInv, Owned, Swept, Sealed, NoClientLeaks
<1> QED
  BY <1>1, Inductive, PTL

\* On no connection does a frame follow one that a failed write tore.
THEOREM Torn == Spec => []TornIsLast
<1>1. IInv => TornIsLast
  BY DEF IInv
<1> QED
  BY <1>1, Inductive, PTL
=============================================================================
