---------------------------- MODULE GatewayProofs ----------------------------
(***************************************************************************)
(* Proofs about the server and about the process around it.                *)
(*                                                                         *)
(* TCPServer, for any finite set of connections and any limit: IInv is     *)
(* inductive.  It ties s.connCount, s.conns and s.connsWG, which the       *)
(* accept loop and the serve goroutines update in separate steps, to where *)
(* those goroutines are.                                                   *)
(*                                                                         *)
(* Gateway, for any connections and any environments in which the process  *)
(* may be started: queues of any size, with any number of workers.  GInv   *)
(* is inductive together with IInv: the step lemmas of the server name no  *)
(* specification and are used again for the server inside the process.     *)
(***************************************************************************)
EXTENDS Gateway, FiniteSetTheorems, TLAPS

-----------------------------------------------------------------------------
(* The server *)

\* The accept loop has a connection in hand exactly from Accept to the spawn of
\* serve, and no other connection is between the two.
HandOff ==
  /\ acc # NoConn <=> apc \in {"count", "over", "insert", "spawn"}
  /\ \A c \in Conns : cpc[c] = "accepted" <=> c = acc

\* The connections that s.connCount counts: from connCount.Add(1) in the accept
\* loop to connCount.Add(-1) there or in the deferred function of serve.
CountedConns ==
  {c \in Conns : \/ cpc[c] \in ServePC \ {"wgDone"}
                 \/ c = acc /\ apc \in {"over", "insert", "spawn"}}

\* The counter says how many they are, and exceeds the limit only while the
\* accept loop is about to drop the one that is too many.
Counted ==
  /\ connCount = Cardinality(CountedConns)
  /\ connCount <= MaxConnections + 1
  /\ apc # "over" => connCount <= MaxConnections

\* s.conns and s.connsWG against the program counters.
Tabled ==
  /\ \A c \in Conns :
       c \in conns <=> \/ cpc[c] \in ServePC \ {"uncount", "wgDone"}
                       \/ c = acc /\ apc = "spawn"
  /\ \A c \in Conns : c \in connsWG <=> cpc[c] \in ServePC

\* The mode is stored before the deadlines are applied, and once they are no
\* goroutine reads without one.
Deadlines ==
  /\ spc \notin {"run", "store"} => shutdownMode
  /\ ReadersBounded

\* Nobody waits to be accepted unless the listener is open, it is open only
\* between Listen and the end of the accept loop, and a Shutdown that saw that
\* end and returned left no serve goroutine.
Settled ==
  /\ published => apc \notin {"unstarted", "listen", "set"}
  /\ apc \in {"unstarted", "listen"} => listener = "none"
  /\ listener # "open" => \A c \in Conns : cpc[c] # "backlog"
  /\ apc = "done" => listener # "open"
  /\ drained => apc = "done"
  /\ spc = "returned" /\ drained => connsWG = {}

\* The inductive invariant.
IInv ==
  /\ TypeOK
  /\ HandOff
  /\ Counted
  /\ Tabled
  /\ Deadlines
  /\ Settled

-----------------------------------------------------------------------------
\* One round of the loop of serve, from the table's point of view: the
\* goroutine stays between its spawn and its deferred function.
Round(c) ==
  \/ LoadMode(c) \/ SetDeadline(c) \/ ReadFrame(c) \/ ReadBroken(c) \/ ReadCut(c)
  \/ EnqueueBegin(c) \/ EnqueueSend(c) \/ EnqueueReleased(c)

\* The steps that move neither the accept loop nor a serve goroutine.
Aside == ShutdownStep \/ CtxExpires \/ Returned

Looping == {"top", "setDeadline", "read", "enqueue", "blocked", "delete"}

\* A round leaves the accept loop and the table alone.
LEMMA RoundMoves ==
  ASSUME TypeOK, NEW c \in Conns, Round(c)
  PROVE  /\ cpc[c] \in Looping
         /\ \E l \in Looping : cpc' = [cpc EXCEPT ![c] = l]
         /\ UNCHANGED <<apc, acc, started, listener, published, conns, connCount,
                        connsWG, sockOpen, shutdownMode, closed, spc, ctxDone,
                        drained>>
<1> USE DEF TypeOK, Looping, accept, table, stopping, CGoto, Leave
<1>1. CASE LoadMode(c)
  BY <1>1 DEF LoadMode
<1>2. CASE SetDeadline(c)
  BY <1>2 DEF SetDeadline
<1>3. CASE ReadFrame(c)
  BY <1>3 DEF ReadFrame
<1>4. CASE ReadBroken(c) \/ ReadCut(c)
  BY <1>4 DEF ReadBroken, ReadCut
<1>5. CASE EnqueueBegin(c)
  BY <1>5 DEF EnqueueBegin
<1>6. CASE EnqueueSend(c) \/ EnqueueReleased(c)
  BY <1>6 DEF EnqueueSend, EnqueueReleased
<1> QED
  BY <1>1, <1>2, <1>3, <1>4, <1>5, <1>6 DEF Round

\* Shutdown, once the listener is closed, moves nobody else.
LEMMA AsideMoves ==
  ASSUME Aside
  PROVE  UNCHANGED <<apc, acc, started, listener, published, conns, connCount,
                     connsWG, cpc, dest, sent>>
BY DEF Aside, ShutdownStep, StoreMode, ApplyReadDeadlineAll, LoadStarted,
       AcceptDone, StopNormal, StopCritical, ForceCloseAll, PollZero,
       ShutdownReturn, CtxExpires, Returned, vars, accept, table, serving

\* Every step is one of the accept loop, of a client that connects, of a serve
\* goroutine or of Shutdown.
LEMMA StepCases ==
  Next => \/ Start \/ Listen \/ ListenFails \/ SetListener \/ AcceptClosed
          \/ CountConn \/ DropConn \/ InsertConn \/ Spawn
          \/ \E c \in Conns : \/ Accept(c) \/ Connect(c) \/ Round(c)
                              \/ DeleteConn(c) \/ UncountConn(c)
                              \/ ServeReturn(c)
          \/ CloseListener \/ Aside
BY DEF Next, AcceptLoop, ServeStep, Round, Aside

\* At most one connection is between Accept and the spawn of serve.
LEMMA NextHandOff == IInv /\ [Next]_vars => HandOff'
<1> SUFFICES ASSUME IInv, [Next]_vars PROVE HandOff'
  OBVIOUS
<1> USE ConnsAssumption DEF IInv, TypeOK, HandOff, ServePC, accept, table, serving,
                            stopping
<1>1. CASE Start
  BY <1>1 DEF Start, AGoto
<1>2. CASE Listen
  BY <1>2 DEF Listen, AGoto
<1>3. CASE ListenFails
  BY <1>3 DEF ListenFails, AGoto
<1>4. CASE SetListener
  BY <1>4 DEF SetListener, AGoto
<1>5. CASE AcceptClosed
  BY <1>5 DEF AcceptClosed, AGoto
<1>6. CASE CountConn
  BY <1>6 DEF CountConn, AGoto
<1>7. CASE DropConn
  BY <1>7 DEF DropConn, AGoto, CGoto
<1>8. CASE InsertConn
  BY <1>8 DEF InsertConn, AGoto
<1>9. CASE Spawn
  BY <1>9 DEF Spawn, AGoto, CGoto
<1>10. ASSUME NEW c \in Conns, Accept(c) PROVE HandOff'
  BY <1>10 DEF Accept, CGoto, AGoto
<1>11. ASSUME NEW c \in Conns, Connect(c) PROVE HandOff'
  BY <1>11 DEF Connect, CGoto
<1>12. ASSUME NEW c \in Conns, DeleteConn(c) PROVE HandOff'
  BY <1>12 DEF DeleteConn, CGoto
<1>13. ASSUME NEW c \in Conns, UncountConn(c) PROVE HandOff'
  BY <1>13 DEF UncountConn, CGoto
<1>14. ASSUME NEW c \in Conns, ServeReturn(c) PROVE HandOff'
  BY <1>14 DEF ServeReturn, CGoto
<1>15. ASSUME NEW c \in Conns, Round(c) PROVE HandOff'
  BY <1>15, RoundMoves DEF Looping
<1>16. CASE CloseListener
  BY <1>16 DEF CloseListener, SGoto
<1>17. CASE Aside
  BY <1>17, AsideMoves
<1>18. CASE UNCHANGED vars
  BY <1>18 DEF vars
<1> QED
  BY <1>1, <1>2, <1>3, <1>4, <1>5, <1>6, <1>7, <1>8, <1>9, <1>10, <1>11, <1>12,
     <1>13, <1>14, <1>15, <1>16, <1>17, <1>18, StepCases

\* s.conns and s.connsWG follow the program counters.
LEMMA NextTabled == IInv /\ [Next]_vars => Tabled'
<1> SUFFICES ASSUME IInv, [Next]_vars PROVE Tabled'
  OBVIOUS
<1> USE ConnsAssumption DEF IInv, TypeOK, HandOff, Tabled, ServePC, accept, table,
                            serving, stopping
<1>1. CASE Start
  BY <1>1 DEF Start, AGoto
<1>2. CASE Listen
  BY <1>2 DEF Listen, AGoto
<1>3. CASE ListenFails
  BY <1>3 DEF ListenFails, AGoto
<1>4. CASE SetListener
  BY <1>4 DEF SetListener, AGoto
<1>5. CASE AcceptClosed
  BY <1>5 DEF AcceptClosed, AGoto
<1>6. CASE CountConn
  BY <1>6 DEF CountConn, AGoto
<1>7. CASE DropConn
  BY <1>7 DEF DropConn, AGoto, CGoto
<1>8. CASE InsertConn
  BY <1>8 DEF InsertConn, AGoto
<1>9. CASE Spawn
  BY <1>9 DEF Spawn, AGoto, CGoto
<1>10. ASSUME NEW c \in Conns, Accept(c) PROVE Tabled'
  BY <1>10 DEF Accept, CGoto, AGoto
<1>11. ASSUME NEW c \in Conns, Connect(c) PROVE Tabled'
  BY <1>11 DEF Connect, CGoto
<1>12. ASSUME NEW c \in Conns, DeleteConn(c) PROVE Tabled'
  BY <1>12 DEF DeleteConn, CGoto
<1>13. ASSUME NEW c \in Conns, UncountConn(c) PROVE Tabled'
  BY <1>13 DEF UncountConn, CGoto
<1>14. ASSUME NEW c \in Conns, ServeReturn(c) PROVE Tabled'
  BY <1>14 DEF ServeReturn, CGoto
<1>15. ASSUME NEW c \in Conns, Round(c) PROVE Tabled'
  BY <1>15, RoundMoves DEF Looping
<1>16. CASE CloseListener
  BY <1>16 DEF CloseListener, SGoto
<1>17. CASE Aside
  BY <1>17, AsideMoves
<1>18. CASE UNCHANGED vars
  BY <1>18 DEF vars
<1> QED
  BY <1>1, <1>2, <1>3, <1>4, <1>5, <1>6, <1>7, <1>8, <1>9, <1>10, <1>11, <1>12,
     <1>13, <1>14, <1>15, <1>16, <1>17, <1>18, StepCases

\* Whoever enters readFrame after the deadlines were applied has loaded the mode
\* after it was stored; whoever was in it is in the table.
LEMMA NextDeadlines == IInv /\ [Next]_vars => Deadlines'
<1> SUFFICES ASSUME IInv, [Next]_vars PROVE Deadlines'
  OBVIOUS
<1> USE ConnsAssumption DEF IInv, TypeOK, HandOff, Tabled, Deadlines, ReadersBounded,
                            ServePC, accept, table, serving, stopping
<1>1. CASE Start
  BY <1>1 DEF Start, AGoto
<1>2. CASE Listen
  BY <1>2 DEF Listen, AGoto
<1>3. CASE ListenFails
  BY <1>3 DEF ListenFails, AGoto
<1>4. CASE SetListener
  BY <1>4 DEF SetListener, AGoto
<1>5. CASE AcceptClosed
  BY <1>5 DEF AcceptClosed, AGoto
<1>6. CASE CountConn
  BY <1>6 DEF CountConn, AGoto
<1>7. CASE DropConn
  BY <1>7 DEF DropConn, AGoto, CGoto
<1>8. CASE InsertConn
  BY <1>8 DEF InsertConn, AGoto
<1>9. CASE Spawn
  BY <1>9 DEF Spawn, AGoto, CGoto
<1>10. ASSUME NEW c \in Conns, Accept(c) PROVE Deadlines'
  BY <1>10 DEF Accept, CGoto, AGoto
<1>11. ASSUME NEW c \in Conns, Connect(c) PROVE Deadlines'
  BY <1>11 DEF Connect, CGoto
<1>12. ASSUME NEW c \in Conns, DeleteConn(c) PROVE Deadlines'
  BY <1>12 DEF DeleteConn, CGoto
<1>13. ASSUME NEW c \in Conns, UncountConn(c) PROVE Deadlines'
  BY <1>13 DEF UncountConn, CGoto
<1>14. ASSUME NEW c \in Conns, ServeReturn(c) PROVE Deadlines'
  BY <1>14 DEF ServeReturn, CGoto
<1>15. ASSUME NEW c \in Conns, Round(c) PROVE Deadlines'
  <2>1. UNCHANGED <<spc, shutdownMode>>
    BY <1>15, RoundMoves
  <2>2. CASE LoadMode(c)
    BY <2>1, <2>2 DEF LoadMode, CGoto
  <2>3. CASE SetDeadline(c)
    BY <2>1, <2>3 DEF SetDeadline, CGoto
  <2>4. CASE ReadFrame(c)
    BY <2>1, <2>4 DEF ReadFrame, CGoto
  <2>5. CASE ReadBroken(c) \/ ReadCut(c)
    BY <2>1, <2>5 DEF ReadBroken, ReadCut, CGoto
  <2>6. CASE EnqueueBegin(c) \/ EnqueueSend(c) \/ EnqueueReleased(c)
    BY <2>1, <2>6 DEF EnqueueBegin, EnqueueSend, EnqueueReleased, Leave, CGoto
  <2> QED
    BY <1>15, <2>2, <2>3, <2>4, <2>5, <2>6 DEF Round
<1>16. CASE CloseListener
  BY <1>16 DEF CloseListener, SGoto
<1>17. CASE Aside
  <2>1. UNCHANGED cpc
    BY <1>17, AsideMoves
  <2>2. CASE StoreMode
    BY <2>1, <2>2 DEF StoreMode, SGoto
  <2>3. CASE ApplyReadDeadlineAll
    <3>1. \A c \in Conns : cpc[c] = "read" => deadline'[c]
      BY <2>3 DEF ApplyReadDeadlineAll
    <3> QED
      BY <2>1, <2>3, <3>1 DEF ApplyReadDeadlineAll, SGoto
  <2>4. ASSUME \/ LoadStarted \/ AcceptDone \/ StopNormal \/ StopCritical
               \/ ForceCloseAll \/ PollZero \/ ShutdownReturn
        PROVE  Deadlines'
    BY <2>1, <2>4 DEF LoadStarted, AcceptDone, StopNormal, StopCritical,
                      ForceCloseAll, PollZero, ShutdownReturn, SGoto
  <2>5. CASE CtxExpires \/ Returned
    BY <2>5 DEF CtxExpires, Returned, vars
  <2> QED
    BY <1>17, <2>2, <2>3, <2>4, <2>5 DEF Aside, ShutdownStep
<1>18. CASE UNCHANGED vars
  BY <1>18 DEF vars
<1> QED
  BY <1>1, <1>2, <1>3, <1>4, <1>5, <1>6, <1>7, <1>8, <1>9, <1>10, <1>11, <1>12,
     <1>13, <1>14, <1>15, <1>16, <1>17, <1>18, StepCases

\* Once the accept loop has ended nobody is accepted or spawned any more.
LEMMA NextSettled == IInv /\ [Next]_vars => Settled'
<1> SUFFICES ASSUME IInv, [Next]_vars PROVE Settled'
  OBVIOUS
<1> USE ConnsAssumption DEF IInv, TypeOK, HandOff, Tabled, Settled, ServePC, accept,
                            table, serving, stopping
<1>1. CASE Start
  BY <1>1 DEF Start, AGoto
<1>2. CASE Listen
  BY <1>2 DEF Listen, AGoto
<1>3. CASE ListenFails
  BY <1>3 DEF ListenFails, AGoto
<1>4. CASE SetListener
  BY <1>4 DEF SetListener, AGoto
<1>5. CASE AcceptClosed
  BY <1>5 DEF AcceptClosed, AGoto
<1>6. CASE CountConn
  BY <1>6 DEF CountConn, AGoto
<1>7. CASE DropConn
  BY <1>7 DEF DropConn, AGoto, CGoto
<1>8. CASE InsertConn
  BY <1>8 DEF InsertConn, AGoto
<1>9. CASE Spawn
  BY <1>9 DEF Spawn, AGoto, CGoto
<1>10. ASSUME NEW c \in Conns, Accept(c) PROVE Settled'
  BY <1>10 DEF Accept, CGoto, AGoto
<1>11. ASSUME NEW c \in Conns, Connect(c) PROVE Settled'
  BY <1>11 DEF Connect, CGoto
<1>12. ASSUME NEW c \in Conns, DeleteConn(c) PROVE Settled'
  BY <1>12 DEF DeleteConn, CGoto
<1>13. ASSUME NEW c \in Conns, UncountConn(c) PROVE Settled'
  BY <1>13 DEF UncountConn, CGoto
<1>14. ASSUME NEW c \in Conns, ServeReturn(c) PROVE Settled'
  BY <1>14 DEF ServeReturn, CGoto
<1>15. ASSUME NEW c \in Conns, Round(c) PROVE Settled'
  BY <1>15, RoundMoves DEF Looping
<1>16. CASE CloseListener
  BY <1>16 DEF CloseListener, SGoto
<1>17. CASE Aside
  BY <1>17 DEF Aside, ShutdownStep, StoreMode, ApplyReadDeadlineAll, LoadStarted,
              AcceptDone, StopNormal, StopCritical, ForceCloseAll, PollZero,
              ShutdownReturn, CtxExpires, Returned, vars, SGoto
<1>18. CASE UNCHANGED vars
  BY <1>18 DEF vars
<1> QED
  BY <1>1, <1>2, <1>3, <1>4, <1>5, <1>6, <1>7, <1>8, <1>9, <1>10, <1>11, <1>12,
     <1>13, <1>14, <1>15, <1>16, <1>17, <1>18, StepCases


-----------------------------------------------------------------------------
\* connCount.Add(1) counts the connection in hand and no other.
LEMMA CountOne ==
  ASSUME IInv, CountConn
  PROVE  /\ CountedConns' = CountedConns \union {acc}
         /\ acc \in Conns /\ acc \notin CountedConns
BY ConnsAssumption
   DEF IInv, TypeOK, HandOff, CountConn, AGoto, CountedConns, ServePC, serving

\* The counted connections are finitely many.
LEMMA CountedFinite ==
  ASSUME TypeOK
  PROVE  /\ IsFiniteSet(CountedConns)
         /\ Cardinality(CountedConns) \in Nat
BY ConnsAssumption, FS_Subset, FS_CardinalityType DEF CountedConns

\* A step after which one connection less is counted keeps the counter exact
\* and above zero.
LEMMA CountDown ==
  ASSUME IInv, NEW c \in CountedConns, CountedConns' = CountedConns \ {c},
         connCount' = connCount - 1
  PROVE  /\ connCount' \in Nat
         /\ connCount' = Cardinality(CountedConns')
         /\ connCount' <= MaxConnections
<1>1. Cardinality(CountedConns') = Cardinality(CountedConns) - 1
  BY CountedFinite, FS_RemoveElement DEF IInv
<1>2. IsFiniteSet(CountedConns')
  BY CountedFinite, FS_Subset DEF IInv
<1>3. Cardinality(CountedConns') \in Nat
  BY <1>2, FS_CardinalityType
<1> QED
  BY <1>1, <1>3, ServerBounds DEF IInv, TypeOK, Counted

\* The counter stays exact, and over the limit by one at most: the accept loop
\* drops that connection before it accepts another.
LEMMA NextCounted == IInv /\ [Next]_vars => Counted' /\ connCount' \in Nat
<1> SUFFICES ASSUME IInv, [Next]_vars PROVE Counted' /\ connCount' \in Nat
  OBVIOUS
<1>a. ASSUME CountedConns' = CountedConns, UNCHANGED connCount,
             apc' = "over" <=> apc = "over"
      PROVE  Counted' /\ connCount' \in Nat
  BY <1>a DEF IInv, TypeOK, Counted
<1> USE DEF CountedConns, ServePC, accept, table, serving, stopping
<1>1. CASE Start \/ Listen \/ ListenFails \/ SetListener \/ AcceptClosed
  BY <1>1, <1>a DEF Start, Listen, ListenFails, SetListener, AcceptClosed, AGoto
<1>2. ASSUME NEW c \in Conns, Accept(c) PROVE Counted' /\ connCount' \in Nat
  <2>1. CountedConns' = CountedConns
    BY <1>2, ConnsAssumption DEF IInv, TypeOK, HandOff, Accept, CGoto, AGoto
  <2> QED
    BY <1>2, <1>a, <2>1 DEF Accept, AGoto
<1>3. CASE CountConn
  <2> HIDE DEF CountedConns
  <2>1. Cardinality(CountedConns') = connCount + 1
    BY <1>3, CountOne, CountedFinite, FS_AddElement DEF IInv, Counted
  <2>2. connCount' = connCount + 1 /\ connCount \in Nat /\ connCount <= MaxConnections
    BY <1>3 DEF CountConn, IInv, TypeOK, Counted
  <2>3. apc' # "over" => connCount + 1 <= MaxConnections
    BY <1>3, <2>2, ServerBounds DEF CountConn, AGoto
  <2> QED
    BY <2>1, <2>2, <2>3, ServerBounds DEF Counted
<1>4. CASE DropConn
  <2>1. acc \in CountedConns /\ CountedConns' = CountedConns \ {acc}
    BY <1>4, ConnsAssumption DEF IInv, TypeOK, HandOff, DropConn, CGoto, AGoto
  <2> HIDE DEF CountedConns
  <2> QED
    BY <1>4, <2>1, CountDown, ServerBounds DEF DropConn, Counted
<1>5. CASE InsertConn
  BY <1>5, <1>a DEF InsertConn, AGoto
<1>6. CASE Spawn
  <2>1. CountedConns' = CountedConns
    BY <1>6, ConnsAssumption DEF IInv, TypeOK, HandOff, Spawn, CGoto, AGoto
  <2> QED
    BY <1>6, <1>a, <2>1 DEF Spawn, AGoto
<1>7. ASSUME NEW c \in Conns, Connect(c) PROVE Counted' /\ connCount' \in Nat
  <2>1. CountedConns' = CountedConns
    BY <1>7 DEF IInv, TypeOK, HandOff, Connect, CGoto
  <2> QED
    BY <1>7, <1>a, <2>1 DEF Connect
<1>8. ASSUME NEW c \in Conns, Round(c) PROVE Counted' /\ connCount' \in Nat
  <2>1. CountedConns' = CountedConns
    BY <1>8, RoundMoves DEF IInv, TypeOK, Looping
  <2> QED
    BY <1>8, <1>a, <2>1, RoundMoves DEF IInv
<1>9. ASSUME NEW c \in Conns, DeleteConn(c)
      PROVE  Counted' /\ connCount' \in Nat
  <2>1. CountedConns' = CountedConns
    BY <1>9 DEF IInv, TypeOK, DeleteConn, CGoto
  <2> QED
    BY <1>9, <1>a, <2>1 DEF DeleteConn
<1>10. ASSUME NEW c \in Conns, UncountConn(c)
       PROVE  Counted' /\ connCount' \in Nat
  <2>1. c \in CountedConns /\ CountedConns' = CountedConns \ {c}
    BY <1>10 DEF IInv, TypeOK, HandOff, UncountConn, CGoto
  <2> HIDE DEF CountedConns
  <2> QED
    BY <1>10, <2>1, CountDown, ServerBounds DEF UncountConn, Counted
<1>11. ASSUME NEW c \in Conns, ServeReturn(c)
       PROVE  Counted' /\ connCount' \in Nat
  <2>1. CountedConns' = CountedConns
    BY <1>11 DEF IInv, TypeOK, HandOff, ServeReturn, CGoto
  <2> QED
    BY <1>11, <1>a, <2>1 DEF ServeReturn
<1>12. CASE CloseListener
  <2>1. CountedConns' = CountedConns
    BY <1>12 DEF IInv, TypeOK, CloseListener
  <2> QED
    BY <1>12, <1>a, <2>1 DEF CloseListener
<1>13. CASE Aside
  BY <1>13, <1>a, AsideMoves
<1>14. CASE UNCHANGED vars
  BY <1>14, <1>a DEF vars
<1> QED
  BY <1>1, <1>2, <1>3, <1>4, <1>5, <1>6, <1>7, <1>8, <1>9, <1>10, <1>11, <1>12,
     <1>13, <1>14, StepCases

-----------------------------------------------------------------------------
\* Every step keeps the types; that the counter never falls below zero is
\* NextCounted.
LEMMA NextTypeOK == IInv /\ [Next]_vars => TypeOK'
<1> SUFFICES ASSUME IInv, [Next]_vars PROVE TypeOK'
  OBVIOUS
<1>a. connCount' \in Nat
  BY NextCounted
<1> USE <1>a, ConnsAssumption
       DEF IInv, TypeOK, HandOff, ServePC, Queues, accept, table, serving,
           stopping, AGoto, CGoto, SGoto
<1>1. CASE Start
  BY <1>1 DEF Start
<1>2. CASE Listen
  BY <1>2 DEF Listen
<1>3. CASE ListenFails
  BY <1>3 DEF ListenFails
<1>4. CASE SetListener
  BY <1>4 DEF SetListener
<1>5. CASE AcceptClosed
  BY <1>5 DEF AcceptClosed
<1>6. ASSUME NEW c \in Conns, Accept(c) PROVE TypeOK'
  BY <1>6 DEF Accept
<1>7. CASE CountConn
  BY <1>7 DEF CountConn
<1>8. CASE DropConn
  BY <1>8 DEF DropConn
<1>9. CASE InsertConn
  BY <1>9 DEF InsertConn
<1>10. CASE Spawn
  BY <1>10 DEF Spawn
<1>11. ASSUME NEW c \in Conns, Connect(c) PROVE TypeOK'
  BY <1>11 DEF Connect
<1>12. ASSUME NEW c \in Conns, Round(c) PROVE TypeOK'
  <2>1. CASE LoadMode(c)
    BY <2>1 DEF LoadMode
  <2>2. CASE SetDeadline(c)
    BY <2>2 DEF SetDeadline
  <2>3. CASE ReadFrame(c)
    BY <2>3 DEF ReadFrame
  <2>4. CASE ReadBroken(c)
    BY <2>4 DEF ReadBroken
  <2>5. CASE ReadCut(c)
    BY <2>5 DEF ReadCut
  <2>6. CASE EnqueueBegin(c)
    BY <2>6 DEF EnqueueBegin, Leave
  <2>7. CASE EnqueueSend(c)
    BY <2>7 DEF EnqueueSend, Leave
  <2>8. CASE EnqueueReleased(c)
    BY <2>8 DEF EnqueueReleased, Leave
  <2> QED
    BY <1>12, <2>1, <2>2, <2>3, <2>4, <2>5, <2>6, <2>7, <2>8 DEF Round
<1>13. ASSUME NEW c \in Conns, DeleteConn(c) PROVE TypeOK'
  BY <1>13 DEF DeleteConn
<1>14. ASSUME NEW c \in Conns, UncountConn(c) PROVE TypeOK'
  BY <1>14 DEF UncountConn
<1>15. ASSUME NEW c \in Conns, ServeReturn(c) PROVE TypeOK'
  BY <1>15 DEF ServeReturn
<1>16. CASE CloseListener
  BY <1>16 DEF CloseListener
<1>17. CASE Aside
  <2>1. CASE StoreMode
    BY <2>1 DEF StoreMode
  <2>2. CASE LoadStarted
    BY <2>2 DEF LoadStarted
  <2>3. CASE AcceptDone
    BY <2>3 DEF AcceptDone
  <2>4. CASE ApplyReadDeadlineAll
    BY <2>4 DEF ApplyReadDeadlineAll
  <2>5. CASE StopNormal
    BY <2>5 DEF StopNormal
  <2>6. CASE StopCritical
    BY <2>6 DEF StopCritical
  <2>7. CASE ForceCloseAll
    BY <2>7 DEF ForceCloseAll
  <2>8. CASE PollZero
    BY <2>8 DEF PollZero
  <2>9. CASE ShutdownReturn
    BY <2>9 DEF ShutdownReturn
  <2>10. CASE CtxExpires
    BY <2>10 DEF CtxExpires
  <2>11. CASE Returned
    BY <2>11 DEF Returned, vars
  <2> QED
    BY <1>17, <2>1, <2>2, <2>3, <2>4, <2>5, <2>6, <2>7, <2>8, <2>9,
       <2>10, <2>11 DEF Aside, ShutdownStep
<1>18. CASE UNCHANGED vars
  BY <1>18 DEF vars
<1> QED
  BY <1>1, <1>2, <1>3, <1>4, <1>5, <1>6, <1>7, <1>8, <1>9, <1>10, <1>11, <1>12,
     <1>13, <1>14, <1>15, <1>16, <1>17, <1>18, StepCases

-----------------------------------------------------------------------------
\* A server that was just created satisfies the invariant.
LEMMA InitIInv == Init => IInv
<1> SUFFICES ASSUME Init PROVE IInv
  OBVIOUS
<1> USE ConnsAssumption, ServerBounds DEF Init
<1>1. TypeOK
  BY DEF TypeOK, ServePC, Queues
<1>2. HandOff /\ Tabled
  BY DEF HandOff, Tabled, ServePC
<1>3. CountedConns = {}
  BY DEF CountedConns, ServePC
<1>4. Counted
  BY <1>3, FS_EmptySet DEF Counted
<1>5. Deadlines /\ Settled
  BY DEF Deadlines, ReadersBounded, Settled
<1> QED
  BY <1>1, <1>2, <1>4, <1>5 DEF IInv

\* Every step of the server keeps the invariant.
LEMMA NextIInv == IInv /\ [Next]_vars => IInv'
BY NextTypeOK, NextHandOff, NextCounted, NextTabled, NextDeadlines, NextSettled
   DEF IInv

\* The table is part of what is counted, without the connection that is to be
\* dropped.
LEMMA InvLimit == IInv => LimitHolds
<1> SUFFICES ASSUME IInv PROVE LimitHolds
  OBVIOUS
<1>1. conns \subseteq CountedConns
  BY DEF IInv, TypeOK, Tabled, CountedConns
<1>2. Cardinality(conns) <= Cardinality(CountedConns) /\ Cardinality(conns) \in Nat
  BY <1>1, CountedFinite, FS_Subset, FS_CardinalityType DEF IInv
<1>3. CASE apc # "over"
  BY <1>2, <1>3, ServerBounds DEF IInv, TypeOK, Counted, LimitHolds
<1>4. CASE apc = "over"
  <2>1. acc \in CountedConns /\ acc \notin conns
    BY <1>4, ConnsAssumption DEF IInv, TypeOK, HandOff, Tabled, CountedConns, ServePC
  <2>2. conns \subseteq CountedConns \ {acc}
    BY <1>1, <2>1
  <2>3. /\ IsFiniteSet(CountedConns \ {acc})
        /\ Cardinality(CountedConns \ {acc}) = Cardinality(CountedConns) - 1
    BY <2>1, CountedFinite, FS_RemoveElement DEF IInv
  <2>4. Cardinality(conns) <= Cardinality(CountedConns \ {acc})
    BY <2>2, <2>3, FS_Subset
  <2> QED
    BY <1>2, <2>3, <2>4, ServerBounds DEF IInv, TypeOK, Counted, LimitHolds
<1> QED
  BY <1>3, <1>4

\* After the accept loop has ended and the wait group is empty no connection is
\* left anywhere: none accepted, none served, none in the backlog.
LEMMA InvDrained == IInv => DrainedIsQuiet
<1> SUFFICES ASSUME IInv, spc = "returned", drained
             PROVE  /\ connCount = 0 /\ conns = {}
                    /\ \A c \in Conns : cpc[c] \in {"absent", "gone"}
  BY DEF DrainedIsQuiet
<1>1. \A c \in Conns : cpc[c] \in {"absent", "gone"}
  BY ConnsAssumption DEF IInv, TypeOK, HandOff, Tabled, Settled, ServePC
<1>2. acc = NoConn
  BY DEF IInv, HandOff, Settled
<1>3. conns = {}
  BY <1>1, <1>2, ConnsAssumption DEF IInv, TypeOK, Tabled, ServePC
<1>4. CountedConns = {}
  BY <1>1, <1>2, ConnsAssumption DEF CountedConns, ServePC
<1>5. connCount = 0
  BY <1>4, FS_EmptySet DEF IInv, Counted
<1> QED
  BY <1>1, <1>3, <1>5

-----------------------------------------------------------------------------
\* IInv holds in every state the server can reach.
THEOREM Inductive == Spec => []IInv
BY InitIInv, NextIInv, PTL DEF Spec

\* Every variable stays in its type; in particular connCount.Add(-1) never takes
\* the counter below zero.
THEOREM TypeCorrect == Spec => []TypeOK
<1>1. IInv => TypeOK
  BY DEF IInv
<1> QED
  BY <1>1, Inductive, PTL

\* For any number of connections and any limit, s.conns never holds more than
\* cfg.MaxConnections.
THEOREM Limit == Spec => []LimitHolds
BY InvLimit, Inductive, PTL

\* After the deadlines were applied no goroutine blocks in readFrame without one.
THEOREM Bounded == Spec => []ReadersBounded
<1>1. IInv => ReadersBounded
  BY DEF IInv, Deadlines
<1> QED
  BY <1>1, Inductive, PTL

\* A Shutdown that saw the end of the accept loop returns to a server without
\* connections.
THEOREM Drained == Spec => []DrainedIsQuiet
BY InvDrained, Inductive, PTL

-----------------------------------------------------------------------------
(* The process *)

Envelopes == Conns \X Nat \X Queues

\* The order in which main takes the process down.
AfterNormal == {"closeCritical", "closeKafka", "closeFallback", "exited"}
AfterCritical == {"closeKafka", "closeFallback", "exited"}
AfterServer == AfterNormal \union {"closeNormal"}

\* The types of the process around the server.
GTyped ==
  /\ cfg \in {Load(e) : e \in Environments}
  /\ main \in {"start", "queues", "run", "shutdown", "failed", "panicked"}
              \union AfterServer
  /\ ch \in [Queues -> Seq(Envelopes)]
  /\ idle \in [Queues -> Nat]
  /\ busy \in [Queues -> SUBSET Envelopes]
  /\ kafkaOpen \in BOOLEAN
  /\ accepted \in SUBSET Envelopes

\* Before the listener is open no client is there, a process that failed or
\* panicked had not been listening, and inside Enqueue there is a queue.
Silent ==
  /\ listener = "none" => accepted = {} /\ \A c \in Conns : cpc[c] = "absent"
  /\ main \in {"start", "queues", "failed", "panicked"} => accepted = {}
  /\ \A c \in Conns : cpc[c] \in {"enqueue", "blocked"} => dest[c] \in Queues

\* An envelope that Enqueue took is in the channel of its queue, inside
\* dispatch or dispatched.
Kept ==
  \A e \in accepted :
    \/ e \in dispatched
    \/ e \in busy[e[3]]
    \/ \E i \in 1..Len(ch[e[3]]) : ch[e[3]][i] = e

\* No worker of the queue is left.
Gone(q) == idle[q] = 0 /\ busy[q] = {}

\* The last worker of a queue leaves it closed, empty and without producers.
LastOut ==
  main \notin {"start", "queues", "failed", "panicked"} =>
    \A q \in Queues :
      Gone(q) /\ WorkerCount[q] > 0 =>
        q \in closed /\ Producers(q) = {} /\ ch[q] = <<>>

\* main goes past a queue only when its workers are gone, and the writers close
\* after both.
InOrder ==
  /\ main \in AfterNormal => Gone("normal")
  /\ main \in AfterCritical => Gone("critical")
  /\ ~kafkaOpen => main \in {"start", "failed", "panicked"} \union AfterCritical
  /\ WritersOutliveWorkers

\* The queues refuse only after the context expired or the server returned, and
\* then nobody is refused unless Shutdown did not see the accept loop end.
Forced ==
  /\ spc \in {"stopNormal", "stopCritical"} => ctxDone
  /\ main \in AfterServer => spc = "returned"
  /\ closed # {} => ctxDone \/ spc = "returned"
  /\ refused # {} => ctxDone \/ (spc = "returned" /\ ~drained)

\* The inductive invariant of the process, with the server's.
GInv ==
  /\ IInv
  /\ GTyped
  /\ Silent
  /\ Kept
  /\ LastOut
  /\ InOrder
  /\ Forced

-----------------------------------------------------------------------------
\* The steps in which only the server moves and no Enqueue ends.
ServerOnly ==
  /\ Running
  /\ \/ AcceptLoop \/ CtxExpires
     \/ main = "shutdown" /\ (CloseListener \/ ShutdownStep)
     \/ \E c \in Conns : Connect(c) \/ ReadFrame(c) \/ ReadBroken(c)
  /\ UNCHANGED <<cfg, main, ch, idle, busy, kafkaOpen, fallbackOpen, dispatched,
                 accepted, refused>>

\* Every step of the process, sorted by what it leaves alone.
LEMMA GStepCases ==
  [GNext]_gvars =>
    \/ WireWriters \/ WireQueues \/ Signal \/ ServerError
    \/ CloseNormal \/ CloseCritical \/ CloseKafka \/ CloseFallback \/ Exit
    \/ ServerOnly
    \/ \E c \in Conns : Serve(c) \/ Send(c)
    \/ \E q \in Queues : Take(q) \/ WorkerExit(q) \/ \E e \in busy[q] : Dispatch(q, e)
    \/ UNCHANGED gvars
BY DEF GNext, MainStep, ServerStep, MainShutdown, WorkerStep, Terminated,
       ServerOnly, queues, writers, ghistory

\* The environments give whole numbers of workers and slots.
LEMMA ConfigInts ==
  ASSUME NEW e \in Environments
  PROVE  /\ Load(e).Server.WorkerCount \in Int
         /\ Load(e).Server.CriticalWorkerCount \in Int
<1>1. \A key, d : d \in Int => getInt(e, key, d) \in Int
  BY IntegersParsed DEF getInt, Parsed
<1>2. \A key, d : d \in Int => getPositiveInt(e, key, d) \in Int
  BY <1>1 DEF getPositiveInt
<1> HIDE DEF getInt, getPositiveInt
<1>3. Load(e).Server.WorkerCount = getInt(e, "SERVER_WORKER_COUNT", 30)
  BY DEF Load
<1>4. Load(e).Server.CriticalWorkerCount
        = getPositiveInt(e, "SERVER_CRITICAL_WORKER_COUNT", 10)
  BY DEF Load
<1> QED
  BY <1>1, <1>2, <1>3, <1>4

\* The same for the configuration the process has loaded.
LEMMA WorkersInt ==
  ASSUME GTyped
  PROVE  \A q \in Queues : WorkerCount[q] \in Int
BY ConfigInts DEF GTyped, WorkerCount, Queues

\* The invariant of the server does not depend on which queues are closed.
LEMMA ClosedOnly ==
  ASSUME IInv,
         UNCHANGED <<accept, table, serving, shutdownMode, spc, ctxDone, drained>>,
         closed' \in SUBSET Queues
  PROVE  IInv'
BY DEF IInv, TypeOK, HandOff, Counted, CountedConns, Tabled, Deadlines,
       ReadersBounded, Settled, accept, table, serving

\* Every step of the process keeps the server's invariant: it is a step of the
\* server, leaves the server alone, or closes a queue.
LEMMA GNextIInv == IInv /\ [GNext]_gvars => IInv'
<1> SUFFICES ASSUME IInv, [GNext]_gvars PROVE IInv'
  OBVIOUS
<1>1. CASE CloseNormal \/ CloseCritical
  BY <1>1, ClosedOnly DEF CloseNormal, CloseCritical, CloseBegin, IInv, TypeOK, Queues
<1>2. CASE ServerOnly
  BY <1>2, NextIInv DEF ServerOnly, Next
<1>3. ASSUME NEW c \in Conns, Serve(c) \/ Send(c) PROVE IInv'
  BY <1>3, NextIInv DEF Serve, Send, Next
<1>4. ASSUME \/ WireWriters \/ WireQueues \/ Signal \/ ServerError
             \/ CloseKafka \/ CloseFallback \/ Exit
      PROVE  IInv'
  BY <1>4, NextIInv DEF WireWriters, WireQueues, Signal, ServerError, CloseKafka,
                        CloseFallback, Exit
<1>5. ASSUME NEW q \in Queues, Take(q) \/ WorkerExit(q) PROVE IInv'
  BY <1>5, NextIInv DEF Take, WorkerExit
<1>6. ASSUME NEW q \in Queues, NEW e \in busy[q], Dispatch(q, e) PROVE IInv'
  BY <1>6, NextIInv DEF Dispatch
<1>7. CASE UNCHANGED gvars
  BY <1>7, NextIInv DEF gvars
<1> QED
  BY <1>1, <1>2, <1>3, <1>4, <1>5, <1>6, <1>7, GStepCases

-----------------------------------------------------------------------------
\* The envelope of an Enqueue that ends is one of its queue.
LEMMA InHandTyped ==
  ASSUME GInv, NEW c \in Conns, cpc[c] \in {"enqueue", "blocked"}
  PROVE  /\ InHand(c) \in Envelopes
         /\ InHand(c)[3] = dest[c]
         /\ dest[c] \in Queues
BY DEF GInv, IInv, TypeOK, Silent, InHand, Envelopes

\* Enqueue's send puts the envelope into the channel or hands it to a worker.
LEMMA SendCases ==
  ASSUME NEW c \in Conns, Send(c)
  PROVE  /\ cpc[c] = "blocked"
         /\ accepted' = accepted \union {InHand(c)}
         /\ UNCHANGED <<cfg, main, kafkaOpen, dispatched, refused>>
         /\ \/ /\ ch' = [ch EXCEPT ![dest[c]] = Append(@, InHand(c))]
               /\ UNCHANGED <<idle, busy>>
            \/ /\ idle[dest[c]] > 0
               /\ idle' = [idle EXCEPT ![dest[c]] = @ - 1]
               /\ busy' = [busy EXCEPT ![dest[c]] = @ \union {InHand(c)}]
               /\ UNCHANGED ch
BY DEF Send, EnqueueSend, writers

\* dispatch never meets the closed Kafka writer: while it runs its queue has not
\* been passed by main.
LEMMA DispatchReturns ==
  ASSUME GInv, NEW q \in Queues, NEW e \in busy[q], Dispatch(q, e)
  PROVE  /\ busy' = [busy EXCEPT ![q] = @ \ {e}]
         /\ idle' = [idle EXCEPT ![q] = @ + 1]
         /\ dispatched' = dispatched \union {e}
         /\ UNCHANGED <<vars, cfg, main, ch, kafkaOpen, accepted, refused>>
<1>1. kafkaOpen
  <2> SUFFICES ASSUME ~kafkaOpen PROVE FALSE
    OBVIOUS
  <2>1. main \in AfterCritical
    BY DEF GInv, InOrder, Dispatch, Running, Alive, Ended
  <2>2. Gone("normal") /\ Gone("critical")
    BY <2>1 DEF GInv, InOrder, AfterCritical, AfterNormal
  <2> QED
    BY <2>2 DEF Gone, Queues
<1> QED
  BY <1>1 DEF Dispatch, writers

\* Every step keeps the types of the process.
LEMMA NextGTyped == GInv /\ [GNext]_gvars => GTyped'
<1> SUFFICES ASSUME GInv, [GNext]_gvars PROVE GTyped'
  OBVIOUS
<1>0. GTyped
  BY DEF GInv
<1> USE <1>0 DEF GTyped, AfterNormal, AfterCritical, AfterServer, queues, writers,
                 ghistory
<1>1. CASE WireWriters
  BY <1>1 DEF WireWriters
<1>2. CASE WireQueues
  <2>1. idle' \in [Queues -> Nat]
    <3>1. \A q \in Queues : WorkerCount[q] \in Int
      BY WorkersInt
    <3>2. \A q \in Queues :
            (IF WorkerCount[q] > 0 THEN WorkerCount[q] ELSE 0) \in Nat
      BY <3>1
    <3> QED
      BY <1>2, <3>2 DEF WireQueues
  <2> QED
    BY <1>2, <2>1 DEF WireQueues
<1>3. CASE Signal \/ ServerError
  BY <1>3 DEF Signal, ServerError
<1>4. CASE CloseNormal \/ CloseCritical
  BY <1>4 DEF CloseNormal, CloseCritical, CloseBegin
<1>5. CASE CloseKafka \/ CloseFallback \/ Exit
  BY <1>5 DEF CloseKafka, CloseFallback, Exit
<1>6. CASE ServerOnly
  BY <1>6 DEF ServerOnly
<1>7. ASSUME NEW c \in Conns, Serve(c) PROVE GTyped'
  BY <1>7 DEF Serve
<1>8. ASSUME NEW c \in Conns, Send(c) PROVE GTyped'
  <2> DEFINE q == dest[c]
             e == InHand(c)
  <2>1. e \in Envelopes /\ q \in Queues /\ cpc[c] = "blocked"
    BY <1>8, InHandTyped, SendCases
  <2> HIDE DEF q, e
  <2>2. CASE ch' = [ch EXCEPT ![q] = Append(@, e)] /\ UNCHANGED <<idle, busy>>
    <3>1. Append(ch[q], e) \in Seq(Envelopes)
      BY <2>1
    <3>2. ch' \in [Queues -> Seq(Envelopes)]
      BY <2>1, <2>2, <3>1
    <3>3. accepted' = accepted \union {e} /\ UNCHANGED <<cfg, main, kafkaOpen>>
      BY <1>8, SendCases DEF e
    <3> QED
      BY <2>1, <2>2, <3>2, <3>3
  <2>3. CASE /\ idle[q] > 0 /\ idle' = [idle EXCEPT ![q] = @ - 1]
             /\ busy' = [busy EXCEPT ![q] = @ \union {e}] /\ UNCHANGED ch
    <3>1. idle' \in [Queues -> Nat] /\ busy' \in [Queues -> SUBSET Envelopes]
      BY <2>1, <2>3
    <3> QED
      BY <1>8, <2>1, <2>3, <3>1, SendCases DEF e
  <2> QED
    BY <1>8, <2>2, <2>3, SendCases DEF q, e
<1>9. ASSUME NEW q \in Queues, Take(q) PROVE GTyped'
  <2>1. Head(ch[q]) \in Envelopes /\ Tail(ch[q]) \in Seq(Envelopes)
    BY <1>9 DEF Take
  <2> QED
    BY <1>9, <2>1 DEF Take
<1>10. ASSUME NEW q \in Queues, WorkerExit(q) PROVE GTyped'
  BY <1>10 DEF WorkerExit
<1>11. ASSUME NEW q \in Queues, NEW e \in busy[q], Dispatch(q, e) PROVE GTyped'
  <2>1. /\ busy' = [busy EXCEPT ![q] = @ \ {e}]
        /\ idle' = [idle EXCEPT ![q] = @ + 1]
        /\ UNCHANGED <<cfg, main, ch, kafkaOpen, accepted>>
    BY <1>11, DispatchReturns
  <2> QED
    BY <2>1
<1>12. CASE UNCHANGED gvars
  BY <1>12 DEF gvars
<1> QED
  BY <1>1, <1>2, <1>3, <1>4, <1>5, <1>6, <1>7, <1>8, <1>9, <1>10, <1>11, <1>12,
     GStepCases

\* No client is there before the listener is, and a queue is chosen with the
\* frame.
LEMMA NextSilent == GInv /\ [GNext]_gvars => Silent'
<1> SUFFICES ASSUME GInv, [GNext]_gvars PROVE Silent'
  OBVIOUS
<1>0. Silent /\ TypeOK /\ HandOff /\ Settled
  BY DEF GInv, IInv
<1> USE <1>0, ConnsAssumption
       DEF Silent, TypeOK, HandOff, Queues, queues, writers, ghistory
<1>a. ASSUME UNCHANGED <<listener, cpc, dest, accepted>>,
             \/ UNCHANGED main
             \/ main' \notin {"start", "queues", "failed", "panicked"}
             \/ main \in {"start", "queues"}
      PROVE  Silent'
  BY <1>a
<1> USE DEF accept, table, serving, stopping
<1>1. CASE WireWriters \/ WireQueues
  BY <1>1, <1>a DEF WireWriters, WireQueues, vars
<1>2. CASE ServerError
  BY <1>2 DEF ServerError, vars
<1>3. ASSUME \/ Signal \/ CloseNormal \/ CloseCritical \/ CloseKafka
             \/ CloseFallback \/ Exit
      PROVE  Silent'
  BY <1>3, <1>a DEF Signal, CloseNormal, CloseCritical, CloseBegin, CloseKafka,
                    CloseFallback, Exit, vars
<1>4. CASE ServerOnly
  <2>1. UNCHANGED <<main, accepted>>
    BY <1>4 DEF ServerOnly
  <2>2. ASSUME UNCHANGED <<cpc, dest>>, listener' = "none" => listener = "none"
        PROVE  Silent'
    BY <2>1, <2>2
  <2>3. CASE Start \/ Listen \/ ListenFails \/ SetListener \/ AcceptClosed
    BY <2>2, <2>3 DEF Start, Listen, ListenFails, SetListener, AcceptClosed
  <2>4. CASE CountConn \/ InsertConn
    BY <2>2, <2>4 DEF CountConn, InsertConn
  <2>5. CASE DropConn
    BY <2>1, <2>5 DEF DropConn, CGoto
  <2>6. CASE Spawn
    BY <2>1, <2>6 DEF Spawn, CGoto
  <2>7. ASSUME NEW c \in Conns, Accept(c) \/ Connect(c) PROVE Silent'
    BY <2>1, <2>7 DEF Accept, Connect, CGoto
  <2>8. ASSUME NEW c \in Conns, ReadFrame(c) PROVE Silent'
    BY <2>1, <2>8 DEF ReadFrame, CGoto
  <2>9. ASSUME NEW c \in Conns, ReadBroken(c) PROVE Silent'
    BY <2>1, <2>9 DEF ReadBroken, CGoto
  <2>10. CASE CloseListener
    BY <2>1, <2>10 DEF CloseListener
  <2>11. CASE ShutdownStep \/ CtxExpires
    BY <2>2, <2>11, AsideMoves DEF Aside
  <2> QED
    BY <1>4, <2>3, <2>4, <2>5, <2>6, <2>7, <2>8, <2>9, <2>10, <2>11
       DEF ServerOnly, AcceptLoop
<1>5. ASSUME NEW c \in Conns, Serve(c) PROVE Silent'
  <2>1. UNCHANGED <<main, accepted>>
    BY <1>5 DEF Serve
  <2>2. CASE LoadMode(c) \/ SetDeadline(c) \/ ReadCut(c)
    BY <2>1, <2>2 DEF LoadMode, SetDeadline, ReadCut, CGoto
  <2>3. CASE EnqueueBegin(c)
    BY <2>1, <2>3 DEF EnqueueBegin, Leave, CGoto
  <2>4. CASE EnqueueReleased(c)
    BY <2>1, <2>4 DEF EnqueueReleased, Leave, CGoto
  <2>5. CASE DeleteConn(c)
    BY <2>1, <2>5 DEF DeleteConn, CGoto
  <2>6. CASE UncountConn(c)
    BY <2>1, <2>6 DEF UncountConn, CGoto
  <2>7. CASE ServeReturn(c)
    BY <2>1, <2>7 DEF ServeReturn, CGoto
  <2> QED
    BY <1>5, <2>2, <2>3, <2>4, <2>5, <2>6, <2>7 DEF Serve, ServeStep
<1>6. ASSUME NEW c \in Conns, Send(c) PROVE Silent'
  <2>1. cpc[c] = "blocked" /\ UNCHANGED <<main, listener>>
    BY <1>6 DEF Send, EnqueueSend
  <2>2. listener # "none" /\ main \notin {"start", "queues", "failed", "panicked"}
    BY <1>6, <2>1 DEF Send, Running, Alive, Ended
  <2>3. cpc' = [cpc EXCEPT ![c] = "top"] /\ dest' = [dest EXCEPT ![c] = "none"]
    BY <1>6 DEF Send, EnqueueSend, Leave, CGoto
  <2> QED
    BY <2>1, <2>2, <2>3
<1>7. ASSUME NEW q \in Queues, Take(q) \/ WorkerExit(q) PROVE Silent'
  BY <1>7, <1>a DEF Take, WorkerExit, vars
<1>8. ASSUME NEW q \in Queues, NEW e \in busy[q], Dispatch(q, e) PROVE Silent'
  BY <1>8, <1>a, DispatchReturns DEF vars
<1>9. CASE UNCHANGED gvars
  BY <1>9, <1>a DEF gvars, vars
<1> QED
  BY <1>1, <1>2, <1>3, <1>4, <1>5, <1>6, <1>7, <1>8, <1>9, GStepCases

\* No step loses an accepted envelope: it moves from the channel to a worker and
\* from there to dispatched.
LEMMA NextKept == GInv /\ [GNext]_gvars => Kept'
<1> SUFFICES ASSUME GInv, [GNext]_gvars PROVE Kept'
  OBVIOUS
<1>0. GTyped /\ Kept
  BY DEF GInv
<1>t. \A e \in accepted : e[3] \in Queues
  BY <1>0 DEF GTyped, Envelopes
<1>a. ASSUME UNCHANGED <<ch, busy, dispatched, accepted>> PROVE Kept'
  BY <1>0, <1>a DEF Kept
<1> USE DEF queues, writers, ghistory
<1>1. ASSUME \/ WireWriters \/ WireQueues \/ Signal \/ ServerError
             \/ CloseNormal \/ CloseCritical \/ CloseKafka \/ CloseFallback
             \/ Exit \/ ServerOnly
      PROVE  Kept'
  BY <1>1, <1>a DEF WireWriters, WireQueues, Signal, ServerError, CloseNormal,
                    CloseCritical, CloseBegin, CloseKafka, CloseFallback, Exit,
                    ServerOnly
<1>2. ASSUME NEW c \in Conns, Serve(c) PROVE Kept'
  BY <1>2, <1>a DEF Serve
<1>3. ASSUME NEW c \in Conns, Send(c) PROVE Kept'
  <2> DEFINE q == dest[c]
             n == InHand(c)
  <2>1. q \in Queues /\ n[3] = q /\ n \in Envelopes
    BY <1>3, InHandTyped, SendCases
  <2>2. accepted' = accepted \union {n} /\ UNCHANGED dispatched
    BY <1>3, SendCases
  <2>3. \/ ch' = [ch EXCEPT ![q] = Append(@, n)] /\ UNCHANGED busy
        \/ busy' = [busy EXCEPT ![q] = @ \union {n}] /\ UNCHANGED ch
    BY <1>3, SendCases
  <2> HIDE DEF q, n
  <2>4. CASE ch' = [ch EXCEPT ![q] = Append(@, n)] /\ UNCHANGED busy
    <3>1. /\ Len(ch'[q]) = Len(ch[q]) + 1 /\ Len(ch[q]) \in Nat
          /\ ch'[q][Len(ch[q]) + 1] = n
          /\ \A i \in 1..Len(ch[q]) : ch'[q][i] = ch[q][i]
          /\ \A r \in Queues : r # q => ch'[r] = ch[r]
      BY <1>0, <2>1, <2>4 DEF GTyped
    <3>2. ASSUME NEW r \in Queues, NEW i \in 1..Len(ch[r])
          PROVE  i \in 1..Len(ch'[r]) /\ ch'[r][i] = ch[r][i]
      BY <3>1, <3>2
    <3>3. Len(ch[q]) + 1 \in 1..Len(ch'[q])
      BY <3>1
    <3> QED
      BY <1>0, <1>t, <2>1, <2>2, <2>4, <3>1, <3>2, <3>3 DEF Kept
  <2>5. CASE busy' = [busy EXCEPT ![q] = @ \union {n}] /\ UNCHANGED ch
    BY <1>0, <1>t, <2>1, <2>2, <2>5 DEF Kept, GTyped
  <2> QED
    BY <2>3, <2>4, <2>5
<1>4. ASSUME NEW q \in Queues, Take(q) PROVE Kept'
  <2>1. /\ ch[q] \in Seq(Envelopes) /\ ch[q] # <<>>
        /\ ch' = [ch EXCEPT ![q] = Tail(@)]
        /\ busy' = [busy EXCEPT ![q] = @ \union {Head(ch[q])}]
        /\ UNCHANGED <<accepted, dispatched>>
    BY <1>0, <1>4 DEF Take, GTyped
  <2>2. /\ ch'[q] = Tail(ch[q])
        /\ busy'[q] = busy[q] \union {Head(ch[q])}
        /\ \A r \in Queues : /\ r # q => ch'[r] = ch[r]
                             /\ busy[r] \subseteq busy'[r]
    BY <1>0, <2>1 DEF GTyped
  <2>3. ASSUME NEW i \in 1..Len(ch[q])
        PROVE  \/ ch[q][i] \in busy'[q]
               \/ \E j \in 1..Len(ch'[q]) : ch'[q][j] = ch[q][i]
    <3>1. CASE i = 1
      BY <2>1, <2>2, <3>1
    <3>2. CASE i # 1
      <4>1. /\ i - 1 \in 1..Len(Tail(ch[q]))
            /\ Tail(ch[q])[i - 1] = ch[q][i]
        BY <2>1, <3>2
      <4> QED
        BY <2>2, <4>1
    <3> QED
      BY <3>1, <3>2
  <2>4. ASSUME NEW e \in accepted, e \notin dispatched
        PROVE  \/ e \in busy'[e[3]]
               \/ \E j \in 1..Len(ch'[e[3]]) : ch'[e[3]][j] = e
    <3>1. CASE e \in busy[e[3]]
      BY <1>t, <2>2, <3>1
    <3>2. CASE e \notin busy[e[3]]
      <4>1. PICK i \in 1..Len(ch[e[3]]) : ch[e[3]][i] = e
        BY <1>0, <2>4, <3>2 DEF Kept
      <4>2. CASE e[3] = q
        BY <2>3, <4>1, <4>2
      <4>3. CASE e[3] # q
        BY <1>t, <2>2, <4>1, <4>3
      <4> QED
        BY <4>2, <4>3
    <3> QED
      BY <3>1, <3>2
  <2> QED
    BY <2>1, <2>4 DEF Kept
<1>5. ASSUME NEW q \in Queues, WorkerExit(q) PROVE Kept'
  BY <1>5, <1>a DEF WorkerExit
<1>6. ASSUME NEW q \in Queues, NEW e \in busy[q], Dispatch(q, e) PROVE Kept'
  <2>1. /\ busy' = [busy EXCEPT ![q] = @ \ {e}]
        /\ dispatched' = dispatched \union {e}
        /\ UNCHANGED <<ch, accepted>>
    BY <1>6, DispatchReturns
  <2> QED
    BY <1>0, <1>t, <2>1 DEF Kept, GTyped
<1>7. CASE UNCHANGED gvars
  BY <1>7, <1>a DEF gvars
<1> QED
  BY <1>1, <1>2, <1>3, <1>4, <1>5, <1>6, <1>7, GStepCases

\* The last worker leaves its queue closed, empty and without producers, and
\* nothing enters such a queue again: a closed queue gets no producers.
LEMMA NextLastOut == GInv /\ [GNext]_gvars => LastOut'
<1> SUFFICES ASSUME GInv, [GNext]_gvars PROVE LastOut'
  OBVIOUS
<1>0. GTyped /\ LastOut /\ TypeOK
  BY DEF GInv, IInv
<1>w. /\ UNCHANGED cfg => WorkerCount' = WorkerCount
      /\ \A q \in Queues : WorkerCount[q] \in Int
  BY <1>0, WorkersInt DEF WorkerCount
<1> DEFINE Up == main \notin {"start", "queues", "failed", "panicked"}
\* A closed queue gets no new producers.
<1>p. ASSUME NEW q \in Queues, q \in closed, Producers(q) = {},
             \/ UNCHANGED <<cpc, dest>>
             \/ ServerOnly
             \/ \E c \in Conns : Serve(c) \/ Send(c)
      PROVE  Producers(q)' = {}
  <2> USE <1>0 DEF TypeOK, Producers, accept, table, serving, stopping, CGoto, Leave
  <2>1. CASE UNCHANGED <<cpc, dest>>
    BY <1>p, <2>1
  <2>2. CASE ServerOnly
    <3>1. CASE AcceptLoop
      <4>1. CASE UNCHANGED <<cpc, dest>>
        BY <1>p, <4>1
      <4>2. ASSUME NEW c \in Conns, Accept(c) PROVE Producers(q)' = {}
        BY <1>p, <4>2 DEF Accept
      <4>3. CASE DropConn
        BY <1>p, <4>3 DEF DropConn
      <4>4. CASE Spawn
        BY <1>p, <4>4 DEF Spawn
      <4> QED
        BY <3>1, <4>1, <4>2, <4>3, <4>4
           DEF AcceptLoop, Start, Listen, ListenFails, SetListener, AcceptClosed,
               CountConn, InsertConn
    <3>2. ASSUME NEW c \in Conns, Connect(c) \/ ReadFrame(c) \/ ReadBroken(c)
          PROVE  Producers(q)' = {}
      BY <1>p, <3>2 DEF Connect, ReadFrame, ReadBroken
    <3>3. CASE CloseListener
      BY <1>p, <3>3 DEF CloseListener
    <3>4. CASE ShutdownStep \/ CtxExpires
      BY <2>1, <3>4, AsideMoves DEF Aside
    <3> QED
      BY <2>2, <3>1, <3>2, <3>3, <3>4 DEF ServerOnly
  <2>3. ASSUME NEW c \in Conns, Serve(c) PROVE Producers(q)' = {}
    <3>1. CASE EnqueueBegin(c)
      BY <1>p, <3>1 DEF EnqueueBegin
    <3>2. CASE EnqueueReleased(c)
      BY <1>p, <3>2 DEF EnqueueReleased
    <3>3. CASE LoadMode(c) \/ SetDeadline(c) \/ ReadCut(c)
      BY <1>p, <3>3 DEF LoadMode, SetDeadline, ReadCut
    <3>4. CASE DeleteConn(c) \/ UncountConn(c) \/ ServeReturn(c)
      BY <1>p, <3>4 DEF DeleteConn, UncountConn, ServeReturn
    <3> QED
      BY <2>3, <3>1, <3>2, <3>3, <3>4 DEF Serve, ServeStep
  <2>4. ASSUME NEW c \in Conns, Send(c) PROVE Producers(q)' = {}
    BY <1>p, <2>4 DEF Send, EnqueueSend
  <2> QED
    BY <1>p, <2>1, <2>2, <2>3, <2>4
\* A queue whose last worker has left stays as it is.
<1>a. ASSUME UNCHANGED <<cfg, ch, idle, busy>>, closed \subseteq closed', Up' => Up,
             \A q \in Queues : q \in closed /\ Producers(q) = {} => Producers(q)' = {}
      PROVE  LastOut'
  BY <1>0, <1>w, <1>a DEF LastOut, Gone
<1> USE DEF queues, writers, ghistory
<1>1. CASE WireWriters
  BY <1>1, <1>0 DEF WireWriters, LastOut
<1>2. CASE WireQueues
  <2>1. CASE main' = "panicked"
    BY <2>1 DEF LastOut
  <2>2. CASE main' # "panicked"
    <3>1. \A q \in Queues : WorkerCount'[q] > 0 => idle'[q] # 0
      BY <1>2, <1>w, <2>2 DEF WireQueues
    <3> QED
      BY <3>1 DEF LastOut, Gone
  <2> QED
    BY <2>1, <2>2
<1>3. CASE Signal \/ ServerError \/ CloseKafka \/ CloseFallback \/ Exit
  BY <1>3, <1>a, <1>p DEF Signal, ServerError, CloseKafka, CloseFallback, Exit, vars,
                     serving, stopping
<1>4. CASE CloseNormal \/ CloseCritical
  BY <1>4, <1>a, <1>p DEF CloseNormal, CloseCritical, CloseBegin, serving
<1>5. CASE ServerOnly
  <2>1. closed \subseteq closed'
    BY <1>5 DEF ServerOnly, AcceptLoop, Start, Listen, ListenFails, SetListener,
                AcceptClosed, CountConn, DropConn, InsertConn, Spawn, Accept,
                CtxExpires, CloseListener, ShutdownStep, StoreMode,
                ApplyReadDeadlineAll, LoadStarted, AcceptDone, StopNormal,
                StopCritical, ForceCloseAll, PollZero, ShutdownReturn, Connect,
                ReadFrame, ReadBroken, stopping
  <2> QED
    BY <1>5, <1>a, <1>p, <2>1 DEF ServerOnly
<1>6. ASSUME NEW c \in Conns, Serve(c) PROVE LastOut'
  <2>1. UNCHANGED closed
    BY <1>6 DEF Serve, ServeStep, LoadMode, SetDeadline, ReadCut, EnqueueBegin,
                EnqueueReleased, DeleteConn, UncountConn, ServeReturn, stopping
  <2> QED
    BY <1>6, <1>a, <1>p, <2>1 DEF Serve
<1>7. ASSUME NEW c \in Conns, Send(c) PROVE LastOut'
  <2> DEFINE d == dest[c]
  <2>1. /\ d \in Queues /\ c \in Producers(d)
        /\ UNCHANGED <<cfg, main, closed>>
    BY <1>7, InHandTyped DEF Send, EnqueueSend, Producers, stopping
  <2>2. ASSUME NEW q \in Queues, q # d
        PROVE  idle'[q] = idle[q] /\ busy'[q] = busy[q] /\ ch'[q] = ch[q]
    BY <1>0, <1>7, <2>1, <2>2, SendCases DEF GTyped
  <2>3. Up /\ WorkerCount[d] > 0 => idle'[d] # 0 \/ busy'[d] # {}
    <3>1. CASE UNCHANGED <<idle, busy>>
      BY <1>0, <2>1, <3>1 DEF LastOut, Gone
    <3>2. CASE busy' = [busy EXCEPT ![d] = @ \union {InHand(c)}]
      BY <1>0, <2>1, <3>2 DEF GTyped
    <3> QED
      BY <1>7, <3>1, <3>2, SendCases
  <2> HIDE DEF d
  <2>4. ASSUME NEW q \in Queues, q \in closed, Producers(q) = {}
        PROVE  Producers(q)' = {}
    BY <1>7, <1>p, <2>4
  <2> QED
    BY <1>0, <1>w, <2>1, <2>2, <2>3, <2>4 DEF LastOut, Gone
<1>8. ASSUME NEW q \in Queues, Take(q) PROVE LastOut'
  <2>1. /\ busy'[q] # {}
        /\ \A r \in Queues : r # q => /\ idle'[r] = idle[r] /\ busy'[r] = busy[r]
                                      /\ ch'[r] = ch[r]
    BY <1>0, <1>8 DEF Take, GTyped
  <2>2. UNCHANGED <<cfg, main, closed, cpc, dest>>
    BY <1>8 DEF Take, vars, serving, stopping
  <2> QED
    BY <1>0, <1>w, <1>p, <2>1, <2>2 DEF LastOut, Gone
<1>9. ASSUME NEW q \in Queues, WorkerExit(q) PROVE LastOut'
  <2>1. UNCHANGED <<cfg, main, closed, cpc, dest, ch, busy>>
    BY <1>9 DEF WorkerExit, vars, serving, stopping
  <2>2. q \in closed /\ Producers(q) = {} /\ ch[q] = <<>>
    BY <1>9 DEF WorkerExit
  <2>3. \A r \in Queues : r # q => idle'[r] = idle[r]
    BY <1>0, <1>9 DEF WorkerExit, GTyped
  <2> QED
    BY <1>0, <1>w, <1>p, <2>1, <2>2, <2>3 DEF LastOut, Gone
<1>10. ASSUME NEW q \in Queues, NEW e \in busy[q], Dispatch(q, e)
       PROVE  LastOut'
  <2>1. /\ busy' = [busy EXCEPT ![q] = @ \ {e}]
        /\ idle' = [idle EXCEPT ![q] = @ + 1]
        /\ UNCHANGED <<cfg, main, ch, closed, cpc, dest>>
    BY <1>10, DispatchReturns DEF vars, serving, stopping
  <2>2. /\ idle'[q] # 0
        /\ \A r \in Queues : r # q => idle'[r] = idle[r] /\ busy'[r] = busy[r]
    BY <1>0, <2>1 DEF GTyped
  <2> QED
    BY <1>0, <1>w, <1>p, <2>1, <2>2 DEF LastOut, Gone
<1>11. CASE UNCHANGED gvars
  BY <1>11, <1>a, <1>p DEF gvars, vars, serving, stopping
<1> QED
  BY <1>1, <1>2, <1>3, <1>4, <1>5, <1>6, <1>7, <1>8, <1>9, <1>10, <1>11, GStepCases

\* Workers that are gone stay gone, so main closes the writers after the last
\* dispatch has returned.
LEMMA NextInOrder == GInv /\ [GNext]_gvars => InOrder'
<1> SUFFICES ASSUME GInv, [GNext]_gvars PROVE InOrder'
  OBVIOUS
<1>0. GTyped /\ InOrder
  BY DEF GInv
<1>c. UNCHANGED cfg => Capacity' = Capacity
  BY DEF Capacity
<1> USE DEF AfterNormal, AfterCritical, AfterServer, queues, writers, ghistory
<1>a. ASSUME UNCHANGED <<cfg, main, kafkaOpen>>,
             \A q \in Queues : Gone(q) => idle'[q] = idle[q] /\ busy'[q] = busy[q]
      PROVE  InOrder'
  BY <1>0, <1>c, <1>a DEF InOrder, WritersOutliveWorkers, Gone, Queues
<1>1. CASE WireWriters
  BY <1>0, <1>1 DEF WireWriters, InOrder, WritersOutliveWorkers
<1>2. CASE WireQueues
  <2>1. CASE main' = "panicked"
    BY <1>0, <1>2, <1>c, <2>1 DEF WireQueues, InOrder, WritersOutliveWorkers
  <2>2. CASE main' # "panicked"
    BY <1>0, <1>2, <2>2 DEF WireQueues, InOrder, WritersOutliveWorkers
  <2> QED
    BY <2>1, <2>2
<1>3. CASE Signal \/ ServerError
  BY <1>0, <1>3 DEF Signal, ServerError, Running, Alive, Ended, InOrder,
                    WritersOutliveWorkers
<1>4. CASE CloseNormal
  BY <1>0, <1>4 DEF CloseNormal, CloseBegin, InOrder, WritersOutliveWorkers
<1>5. CASE CloseCritical
  BY <1>0, <1>5 DEF CloseCritical, CloseBegin, WorkersGone, InOrder, Gone,
                    WritersOutliveWorkers
<1>6. CASE CloseKafka
  BY <1>0, <1>6 DEF CloseKafka, WorkersGone, InOrder, Gone, WritersOutliveWorkers
<1>7. CASE CloseFallback \/ Exit
  BY <1>0, <1>7 DEF CloseFallback, Exit, InOrder, Gone, WritersOutliveWorkers
<1>8. CASE ServerOnly
  BY <1>8, <1>a DEF ServerOnly
<1>9. ASSUME NEW c \in Conns, Serve(c) PROVE InOrder'
  BY <1>9, <1>a DEF Serve
<1>10. ASSUME NEW c \in Conns, Send(c) PROVE InOrder'
  <2> DEFINE d == dest[c]
  <2>1. d \in Queues /\ UNCHANGED <<cfg, main, kafkaOpen>>
    BY <1>10, InHandTyped, SendCases
  <2>2. ASSUME NEW q \in Queues, Gone(q)
        PROVE  idle'[q] = idle[q] /\ busy'[q] = busy[q]
    <3>1. CASE UNCHANGED <<idle, busy>>
      BY <3>1
    <3>2. CASE /\ idle[d] > 0
               /\ idle' = [idle EXCEPT ![d] = @ - 1]
               /\ busy' = [busy EXCEPT ![d] = @ \union {InHand(c)}]
      <4>1. q # d
        BY <1>0, <2>2, <3>2 DEF Gone, GTyped
      <4> QED
        BY <1>0, <2>1, <3>2, <4>1 DEF GTyped
    <3> QED
      BY <1>10, <3>1, <3>2, SendCases
  <2> QED
    BY <1>a, <2>1, <2>2
<1>11. ASSUME NEW q \in Queues, Take(q) \/ WorkerExit(q) PROVE InOrder'
  <2>1. UNCHANGED <<cfg, main, kafkaOpen>> /\ idle[q] > 0
    BY <1>11 DEF Take, WorkerExit
  <2>2. \A r \in Queues : r # q => idle'[r] = idle[r] /\ busy'[r] = busy[r]
    BY <1>0, <1>11 DEF Take, WorkerExit, GTyped
  <2>3. ~Gone(q)
    BY <1>0, <2>1 DEF Gone, GTyped
  <2> QED
    BY <1>a, <2>1, <2>2, <2>3
<1>12. ASSUME NEW q \in Queues, NEW e \in busy[q], Dispatch(q, e)
       PROVE  InOrder'
  <2>1. /\ busy' = [busy EXCEPT ![q] = @ \ {e}]
        /\ idle' = [idle EXCEPT ![q] = @ + 1]
        /\ UNCHANGED <<cfg, main, kafkaOpen>>
    BY <1>12, DispatchReturns
  <2>2. ~Gone(q)
    BY DEF Gone
  <2> QED
    BY <1>0, <1>a, <2>1, <2>2 DEF GTyped
<1>13. CASE UNCHANGED gvars
  BY <1>13, <1>a DEF gvars
<1> QED
  BY <1>1, <1>2, <1>3, <1>4, <1>5, <1>6, <1>7, <1>8, <1>9, <1>10, <1>11, <1>12,
     <1>13, GStepCases

\* A queue is closed by Shutdown only after the context expired, by main only
\* after Shutdown returned; an Enqueue is refused only by a closed queue, and a
\* drained server has nobody left to call it.
LEMMA NextForced == GInv /\ [GNext]_gvars => Forced'
<1> SUFFICES ASSUME GInv, [GNext]_gvars PROVE Forced'
  OBVIOUS
<1>0. Forced /\ TypeOK /\ DrainedIsQuiet
  BY InvDrained DEF GInv, IInv
<1> USE DEF AfterNormal, AfterCritical, AfterServer, queues, writers, ghistory,
            accept, table, serving, stopping
<1>a. ASSUME UNCHANGED <<spc, closed, ctxDone, drained, refused>>,
             main' \in AfterServer => main \in AfterServer
      PROVE  Forced'
  BY <1>0, <1>a DEF Forced
<1>1. ASSUME \/ WireWriters \/ WireQueues \/ Signal \/ ServerError
             \/ CloseKafka \/ CloseFallback \/ Exit
      PROVE  Forced'
  BY <1>1, <1>a DEF WireWriters, WireQueues, Signal, ServerError, CloseKafka,
                    CloseFallback, Exit, vars
<1>2. CASE CloseNormal
  BY <1>0, <1>2 DEF CloseNormal, CloseBegin, Forced
<1>3. CASE CloseCritical
  BY <1>0, <1>3 DEF CloseCritical, CloseBegin, Forced
<1>4. CASE ServerOnly
  <2>1. UNCHANGED <<main, refused>>
    BY <1>4 DEF ServerOnly
  <2>2. CASE AcceptLoop
    BY <2>1, <2>2, <1>a
       DEF AcceptLoop, Start, Listen, ListenFails, SetListener, AcceptClosed,
           CountConn, DropConn, InsertConn, Spawn, Accept
  <2>3. ASSUME NEW c \in Conns, Connect(c) \/ ReadFrame(c) \/ ReadBroken(c)
        PROVE  Forced'
    BY <2>1, <2>3, <1>a DEF Connect, ReadFrame, ReadBroken
  <2>4. CASE CtxExpires
    BY <1>0, <2>1, <2>4 DEF CtxExpires, Forced
  <2>5. CASE main = "shutdown" /\ CloseListener
    BY <1>0, <2>1, <2>5 DEF CloseListener, SGoto, Forced
  <2>6. CASE main = "shutdown" /\ ShutdownStep
    <3>1. CASE StoreMode \/ ApplyReadDeadlineAll
      BY <1>0, <2>1, <2>6, <3>1 DEF StoreMode, ApplyReadDeadlineAll, SGoto, Forced
    <3>2. CASE LoadStarted
      BY <1>0, <2>1, <2>6, <3>2 DEF LoadStarted, SGoto, Forced
    <3>3. CASE AcceptDone
      BY <1>0, <2>1, <2>6, <3>3 DEF AcceptDone, SGoto, Forced
    <3>4. CASE StopNormal \/ StopCritical
      BY <1>0, <2>1, <2>6, <3>4 DEF StopNormal, StopCritical, SGoto, Forced
    <3>5. CASE ForceCloseAll \/ PollZero
      BY <1>0, <2>1, <2>6, <3>5 DEF ForceCloseAll, PollZero, SGoto, Forced
    <3>6. CASE ShutdownReturn
      BY <1>0, <2>1, <2>6, <3>6 DEF ShutdownReturn, SGoto, Forced
    <3> QED
      BY <2>6, <3>1, <3>2, <3>3, <3>4, <3>5, <3>6 DEF ShutdownStep
  <2> QED
    BY <1>4, <2>2, <2>3, <2>4, <2>5, <2>6 DEF ServerOnly
<1>5. ASSUME NEW c \in Conns, Serve(c) PROVE Forced'
  <2>1. UNCHANGED <<main, spc, closed, ctxDone, drained>>
    BY <1>5 DEF Serve, ServeStep, LoadMode, SetDeadline, ReadCut, EnqueueBegin,
                EnqueueReleased, DeleteConn, UncountConn, ServeReturn
  <2>2. CASE refused' = refused
    BY <1>a, <2>1, <2>2
  <2>3. CASE refused' # refused
    <3>1. cpc[c] \in {"enqueue", "blocked"} /\ cpc'[c] = "delete"
      BY <1>5, <2>3 DEF Serve
    <3>2. EnqueueBegin(c) \/ EnqueueReleased(c)
      BY <1>5, <3>1 DEF Serve, ServeStep, LoadMode, SetDeadline, ReadCut,
                        DeleteConn, UncountConn, ServeReturn
    <3>3. dest[c] \in closed
      BY <1>0, <3>1, <3>2 DEF EnqueueBegin, EnqueueReleased, CGoto, TypeOK
    <3>4. ctxDone \/ (spc = "returned" /\ ~drained)
      BY <1>0, <3>1, <3>3 DEF Forced, DrainedIsQuiet
    <3> QED
      BY <1>0, <2>1, <3>4 DEF Forced
  <2> QED
    BY <2>2, <2>3
<1>6. ASSUME NEW c \in Conns, Send(c) PROVE Forced'
  BY <1>6, <1>a DEF Send, EnqueueSend
<1>7. ASSUME NEW q \in Queues, Take(q) \/ WorkerExit(q) PROVE Forced'
  BY <1>7, <1>a DEF Take, WorkerExit, vars
<1>8. ASSUME NEW q \in Queues, NEW e \in busy[q], Dispatch(q, e) PROVE Forced'
  BY <1>8, <1>a, DispatchReturns DEF vars
<1>9. CASE UNCHANGED gvars
  BY <1>9, <1>a DEF gvars, vars
<1> QED
  BY <1>1, <1>2, <1>3, <1>4, <1>5, <1>6, <1>7, <1>8, <1>9, GStepCases

-----------------------------------------------------------------------------
\* A process that has just loaded its configuration satisfies the invariant.
LEMMA InitGInv == GInit => GInv
<1> SUFFICES ASSUME GInit PROVE GInv
  OBVIOUS
<1> USE DEF GInit, AfterNormal, AfterCritical, AfterServer
<1>1. IInv
  BY InitIInv
<1>2. GTyped
  <2>1. <<>> \in Seq(Envelopes)
    OBVIOUS
  <2>2. /\ ch \in [Queues -> Seq(Envelopes)]
        /\ idle \in [Queues -> Nat]
        /\ busy \in [Queues -> SUBSET Envelopes]
    BY <2>1
  <2> QED
    BY <2>2 DEF GTyped
<1>3. Silent
  BY DEF Silent, Init
<1>4. Kept /\ LastOut
  BY DEF Kept, LastOut
<1>5. InOrder /\ Forced
  BY DEF InOrder, WritersOutliveWorkers, Forced, Init
<1> QED
  BY <1>1, <1>2, <1>3, <1>4, <1>5 DEF GInv

\* GInv holds in every state of the process.
THEOREM GInductive == GSpec => []GInv
<1>1. GInv /\ [GNext]_gvars => GInv'
  BY GNextIInv, NextGTyped, NextSilent, NextKept, NextLastOut, NextInOrder,
     NextForced DEF GInv
<1> QED
  BY <1>1, InitGInv, PTL DEF GSpec

\* Whatever the sizes of the queues, the workers and the connections, a process
\* that ends has dispatched every envelope that Enqueue accepted for a queue with
\* workers: when main has passed both queues their last workers have left them
\* closed and empty, and a process that failed or panicked had accepted none.
THEOREM NothingLost == GSpec => []NothingLeftBehind
<1>1. GInv => NothingLeftBehind
  <2> SUFFICES ASSUME GInv, main \in Ended, NEW e \in accepted,
                      ~(WorkerCount[e[3]] <= 0)
               PROVE  e \in dispatched
    BY DEF NothingLeftBehind
  <2>1. main = "exited"
    BY DEF GInv, Silent, Ended
  <2>2. e[3] \in Queues /\ WorkerCount[e[3]] > 0
    BY WorkersInt DEF GInv, GTyped, Envelopes
  <2>3. Gone(e[3])
    BY <2>1, <2>2 DEF GInv, InOrder, AfterNormal, AfterCritical, Queues
  <2>4. ch[e[3]] = <<>> /\ busy[e[3]] = {}
    BY <2>1, <2>2, <2>3 DEF GInv, LastOut, Gone
  <2> QED
    BY <2>4 DEF GInv, Kept
<1> QED
  BY <1>1, GInductive, PTL

\* No dispatch meets the Kafka writer after its Close: the process panics only
\* on a negative queue size.
THEOREM WritersLast == GSpec => []WritersOutliveWorkers
<1>1. GInv => WritersOutliveWorkers
  BY DEF GInv, InOrder
<1> QED
  BY <1>1, GInductive, PTL

\* A server that was up refuses an envelope it has read only when the shutdown
\* context ran out.
THEOREM RefusedForced == GSpec => []RefusedOnlyWhenForced
<1>1. GInv => RefusedOnlyWhenForced
  BY DEF GInv, Forced, RefusedOnlyWhenForced
<1> QED
  BY <1>1, GInductive, PTL

\* What is proved of the server alone holds of the server inside the process:
\* its table keeps to the limit, and a Shutdown that saw the accept loop end
\* returns to a server without connections.
THEOREM ServerInProcess == GSpec => [](LimitHolds /\ ReadersBounded /\ DrainedIsQuiet)
<1>1. GInv => LimitHolds /\ ReadersBounded /\ DrainedIsQuiet
  BY InvLimit, InvDrained DEF GInv, IInv, Deadlines
<1> QED
  BY <1>1, GInductive, PTL

-----------------------------------------------------------------------------
(* The queues of the process keep the contract of a queue.  GInv does not  *)
(* tell one envelope from another; Once does.                              *)

\* A frame has a number of its own, and a connection that is inside Enqueue has
\* had none of its envelopes of that number accepted.
Numbered ==
  \A e \in accepted :
    /\ e[2] <= sent[e[1]]
    /\ cpc[e[1]] \in {"enqueue", "blocked"} => e[2] < sent[e[1]]

\* What a worker has in hand was accepted for its queue and is not dispatched.
InHands ==
  \A q \in Queues : \A e \in busy[q] :
    e \in accepted /\ e \notin dispatched /\ e[3] = q

\* So was what is in a channel, where it is once, and no worker has it.
InChannel ==
  \A q \in Queues : \A i \in 1..Len(ch[q]) :
    /\ ch[q][i] \in accepted /\ ch[q][i] \notin dispatched
    /\ ch[q][i] \notin busy[q] /\ ch[q][i][3] = q
    /\ \A j \in 1..Len(ch[q]) : ch[q][j] = ch[q][i] => j = i

Once ==
  /\ Numbered
  /\ InHands
  /\ InChannel
  /\ dispatched \subseteq accepted
  /\ main \in {"start", "queues"} => closed = {}

\* The contract, for one queue of the process: what was accepted and not yet
\* dispatched is pending, and the queue is over when it is closed and Close has
\* nothing left to wait for.
EnvsOf(q) == Conns \X Nat \X {q}
Waiting(q) == {e \in accepted : e \notin dispatched /\ e[3] = q}
Handled(q) == [e \in EnvsOf(q) |-> IF e \in dispatched THEN 1 ELSE 0]
Over(q) == q \in closed /\ WorkersGone(q)

QueueOf(q) == INSTANCE QueueContract WITH
  Envs <- EnvsOf(q), pending <- Waiting(q), handled <- Handled(q), open <- ~Over(q)

\* Only reading a frame takes a connection into Enqueue, and it counts it.
LEMMA ReadMoves ==
  ASSUME GInv, [GNext]_gvars, NEW c \in Conns
  PROVE  \/ /\ sent'[c] = sent[c]
            /\ cpc'[c] \in {"enqueue", "blocked"} => cpc[c] \in {"enqueue", "blocked"}
         \/ sent'[c] = sent[c] + 1
<1>0. TypeOK
  BY DEF GInv, IInv
<1> DEFINE Stays == /\ sent'[c] = sent[c]
                    /\ cpc'[c] \in {"enqueue", "blocked"}
                         => cpc[c] \in {"enqueue", "blocked"}
<1> USE <1>0 DEF TypeOK, accept, table, serving, stopping, CGoto, Leave
<1>1. CASE UNCHANGED <<cpc, sent>>
  BY <1>1
<1>2. CASE ServerOnly
  <2>1. CASE AcceptLoop
    <3>1. ASSUME NEW d \in Conns, Accept(d) PROVE Stays
      BY <3>1 DEF Accept
    <3>2. CASE DropConn
      BY <3>2 DEF DropConn
    <3>3. CASE Spawn
      BY <3>3 DEF Spawn
    <3> QED
      BY <1>1, <2>1, <3>1, <3>2, <3>3
         DEF AcceptLoop, Start, Listen, ListenFails, SetListener, AcceptClosed,
             CountConn, InsertConn
  <2>2. ASSUME NEW d \in Conns, Connect(d) \/ ReadBroken(d) PROVE Stays
    BY <2>2 DEF Connect, ReadBroken
  <2>3. ASSUME NEW d \in Conns, ReadFrame(d) PROVE Stays \/ sent'[c] = sent[c] + 1
    BY <2>3 DEF ReadFrame
  <2>4. CASE CloseListener
    BY <2>4 DEF CloseListener
  <2>5. CASE ShutdownStep \/ CtxExpires
    BY <1>1, <2>5, AsideMoves DEF Aside
  <2> QED
    BY <1>2, <2>1, <2>2, <2>3, <2>4, <2>5 DEF ServerOnly
<1>3. ASSUME NEW d \in Conns, Serve(d) PROVE Stays
  <2>1. CASE EnqueueBegin(d)
    BY <2>1 DEF EnqueueBegin
  <2>2. CASE EnqueueReleased(d)
    BY <2>2 DEF EnqueueReleased
  <2>3. CASE LoadMode(d) \/ SetDeadline(d) \/ ReadCut(d)
    BY <2>3 DEF LoadMode, SetDeadline, ReadCut
  <2>4. CASE DeleteConn(d) \/ UncountConn(d) \/ ServeReturn(d)
    BY <2>4 DEF DeleteConn, UncountConn, ServeReturn
  <2> QED
    BY <1>3, <2>1, <2>2, <2>3, <2>4 DEF Serve, ServeStep
<1>4. ASSUME NEW d \in Conns, Send(d) PROVE Stays
  BY <1>4 DEF Send, EnqueueSend
<1>5. ASSUME \/ WireWriters \/ WireQueues \/ Signal \/ ServerError
             \/ CloseNormal \/ CloseCritical \/ CloseKafka \/ CloseFallback
             \/ Exit \/ UNCHANGED gvars
             \/ \E q \in Queues : \/ Take(q) \/ WorkerExit(q)
                                  \/ \E e \in busy[q] : Dispatch(q, e)
      PROVE  UNCHANGED <<cpc, sent>>
  BY <1>5 DEF WireWriters, WireQueues, Signal, ServerError, CloseNormal,
              CloseCritical, CloseBegin, CloseKafka, CloseFallback, Exit, gvars,
              Take, WorkerExit, Dispatch, vars
<1> QED
  BY <1>1, <1>2, <1>3, <1>4, <1>5, GStepCases

\* A closed queue stays closed, and none is closed before the queues are there.
LEMMA ClosedMoves ==
  ASSUME [GNext]_gvars
  PROVE  /\ closed \subseteq closed'
         /\ main' \in {"start", "queues"} =>
              main \in {"start", "queues"} /\ closed' = closed
<1> USE DEF accept, table, serving, stopping, queues, writers, ghistory
<1>1. CASE WireWriters \/ WireQueues \/ Signal \/ ServerError
  BY <1>1 DEF WireWriters, WireQueues, Signal, ServerError, vars
<1>2. CASE CloseNormal \/ CloseCritical \/ CloseKafka \/ CloseFallback \/ Exit
  BY <1>2 DEF CloseNormal, CloseCritical, CloseBegin, CloseKafka, CloseFallback,
              Exit, vars
<1>3. CASE ServerOnly
  <2>1. main' = main /\ main \notin {"start", "queues"}
    BY <1>3 DEF ServerOnly, Running
  <2>2. closed \subseteq closed'
    <3>1. CASE AcceptLoop
      BY <3>1 DEF AcceptLoop, Start, Listen, ListenFails, SetListener,
                  AcceptClosed, CountConn, DropConn, InsertConn, Spawn, Accept
    <3>2. CASE CtxExpires \/ CloseListener \/ ShutdownStep
      BY <3>2 DEF CtxExpires, CloseListener, ShutdownStep, StoreMode,
                  ApplyReadDeadlineAll, LoadStarted, AcceptDone, StopNormal,
                  StopCritical, ForceCloseAll, PollZero, ShutdownReturn
    <3>3. ASSUME NEW c \in Conns, Connect(c) \/ ReadFrame(c) \/ ReadBroken(c)
          PROVE  closed' = closed
      BY <3>3 DEF Connect, ReadFrame, ReadBroken
    <3> QED
      BY <1>3, <3>1, <3>2, <3>3 DEF ServerOnly
  <2> QED
    BY <2>1, <2>2
<1>4. ASSUME NEW c \in Conns, Serve(c)
      PROVE  closed' = closed /\ main' = main
  BY <1>4 DEF Serve, ServeStep, LoadMode, SetDeadline, ReadCut, EnqueueBegin,
              EnqueueReleased, DeleteConn, UncountConn, ServeReturn
<1>5. ASSUME NEW c \in Conns, Send(c)
      PROVE  closed' = closed /\ main' = main
  BY <1>5 DEF Send, EnqueueSend
<1>6. ASSUME NEW q \in Queues, \/ Take(q) \/ WorkerExit(q)
                               \/ \E e \in busy[q] : Dispatch(q, e)
      PROVE  closed' = closed /\ main' \in {main, "panicked"}
  BY <1>6 DEF Take, WorkerExit, Dispatch, vars
<1>7. CASE UNCHANGED gvars
  BY <1>7 DEF gvars, vars
<1> QED
  BY <1>1, <1>2, <1>3, <1>4, <1>5, <1>6, <1>7, GStepCases

\* What a connection is about to send has not been accepted before.
LEMMA InHandFresh ==
  ASSUME GInv, Once, NEW c \in Conns, cpc[c] = "blocked"
  PROVE  InHand(c) \notin accepted
<1> SUFFICES ASSUME InHand(c) \in accepted PROVE FALSE
  OBVIOUS
<1>1. InHand(c)[1] = c /\ InHand(c)[2] = sent[c]
  BY DEF InHand
<1>2. sent[c] < sent[c]
  BY <1>1 DEF Once, Numbered
<1>3. sent[c] \in Nat
  BY DEF GInv, IInv, TypeOK
<1> QED
  BY <1>2, <1>3

\* No step makes a second envelope of one.
LEMMA NextOnce == GInv /\ Once /\ [GNext]_gvars => Once'
<1> SUFFICES ASSUME GInv, Once, [GNext]_gvars PROVE Once'
  OBVIOUS
<1>0. GTyped /\ TypeOK /\ Silent
  BY DEF GInv, IInv
<1>1. main' \in {"start", "queues"} => closed' = {}
  BY ClosedMoves DEF Once
<1>2. ASSUME NEW e \in accepted
      PROVE  /\ e[2] <= sent'[e[1]]
             /\ cpc'[e[1]] \in {"enqueue", "blocked"} => e[2] < sent'[e[1]]
  <2>1. e[1] \in Conns /\ e[2] \in Nat
    BY <1>0 DEF GTyped, Envelopes
  <2>2. sent[e[1]] \in Nat
    BY <1>0, <2>1 DEF TypeOK
  <2>3. /\ e[2] <= sent[e[1]]
        /\ cpc[e[1]] \in {"enqueue", "blocked"} => e[2] < sent[e[1]]
    BY DEF Once, Numbered
  <2> QED
    BY <2>1, <2>2, <2>3, ReadMoves
<1>a. ASSUME UNCHANGED <<ch, busy, dispatched, accepted>> PROVE Once'
  BY <1>1, <1>2, <1>a DEF Once, Numbered, InHands, InChannel
<1>3. ASSUME \/ WireWriters \/ WireQueues \/ Signal \/ ServerError
             \/ CloseNormal \/ CloseCritical \/ CloseKafka \/ CloseFallback
             \/ Exit \/ ServerOnly \/ UNCHANGED gvars
             \/ \E c \in Conns : Serve(c)
             \/ \E q \in Queues : WorkerExit(q)
      PROVE  UNCHANGED <<ch, busy, dispatched, accepted>>
  BY <1>3 DEF WireWriters, WireQueues, Signal, ServerError, CloseNormal,
              CloseCritical, CloseBegin, CloseKafka, CloseFallback, Exit,
              ServerOnly, Serve, WorkerExit, gvars, queues, writers, ghistory
<1>4. ASSUME NEW c \in Conns, Send(c) PROVE Once'
  <2>1. PICK q : q = dest[c]
    OBVIOUS
  <2>2. PICK n : n = InHand(c)
    OBVIOUS
  <2>3. /\ q \in Queues /\ n \in Envelopes
        /\ n[1] = c /\ n[2] = sent[c] /\ n[3] = q
    BY <1>4, <2>1, <2>2, InHandTyped, SendCases DEF InHand
  <2>4. n \notin accepted
    BY <1>4, <2>2, InHandFresh, SendCases
  <2>5. accepted' = accepted \union {n} /\ UNCHANGED dispatched
    BY <1>4, <2>2, SendCases
  <2>6. Numbered'
    <3>1. sent' = sent /\ cpc'[c] = "top"
      BY <1>0, <1>4 DEF Send, EnqueueSend, Leave, CGoto, TypeOK
    <3>2. sent[c] \in Nat
      BY <1>0 DEF TypeOK
    <3>3. /\ n[2] <= sent'[n[1]]
          /\ cpc'[n[1]] \in {"enqueue", "blocked"} => n[2] < sent'[n[1]]
      BY <2>3, <3>1, <3>2
    <3> QED
      BY <1>2, <2>5, <3>3, Zenon DEF Numbered
  <2>7. dispatched' \subseteq accepted' /\ n \notin dispatched
    BY <2>4, <2>5 DEF Once
  <2>8. CASE ch' = [ch EXCEPT ![q] = Append(@, n)] /\ UNCHANGED busy
    <3>1. /\ Len(ch'[q]) = Len(ch[q]) + 1 /\ Len(ch[q]) \in Nat
          /\ ch'[q][Len(ch[q]) + 1] = n
          /\ \A i \in 1..Len(ch[q]) : ch'[q][i] = ch[q][i]
          /\ \A r \in Queues : r # q => ch'[r] = ch[r]
      BY <1>0, <2>3, <2>8 DEF GTyped
    <3>2. InHands'
      BY <2>5, <2>8 DEF Once, InHands
    <3>3. n \notin busy[q] /\ \A i \in 1..Len(ch[q]) : ch[q][i] # n
      BY <2>3, <2>4 DEF Once, InHands, InChannel
    <3>4. InChannel'
      <4> SUFFICES ASSUME NEW r \in Queues, NEW i \in 1..Len(ch'[r])
                   PROVE  /\ ch'[r][i] \in accepted' /\ ch'[r][i] \notin dispatched'
                          /\ ch'[r][i] \notin busy'[r] /\ ch'[r][i][3] = r
                          /\ \A k \in 1..Len(ch'[r]) : ch'[r][k] = ch'[r][i] => k = i
        BY DEF InChannel
      <4>1. CASE r # q
        BY <2>5, <2>8, <3>1, <4>1 DEF Once, InChannel
      <4>2. CASE r = q /\ i = Len(ch[q]) + 1
        <5>1. \A k \in 1..Len(ch'[q]) : k # Len(ch[q]) + 1 => k \in 1..Len(ch[q])
          BY <3>1
        <5> QED
          BY <2>3, <2>5, <2>7, <2>8, <3>1, <3>3, <4>2, <5>1
      <4>3. CASE r = q /\ i # Len(ch[q]) + 1
        <5>1. i \in 1..Len(ch[q]) /\ ch'[q][i] = ch[q][i]
          BY <3>1, <4>3
        <5>2. \A k \in 1..Len(ch'[q]) : k # Len(ch[q]) + 1 => k \in 1..Len(ch[q])
          BY <3>1
        <5>3. \A k \in 1..Len(ch'[q]) : ch'[q][k] = ch'[q][i] => k = i
          BY <2>3, <3>1, <3>3, <5>1, <5>2 DEF Once, InChannel
        <5> QED
          BY <2>3, <2>5, <2>8, <4>3, <5>1, <5>3 DEF Once, InChannel
      <4> QED
        BY <4>1, <4>2, <4>3
    <3> QED
      BY <1>1, <2>6, <2>7, <3>2, <3>4 DEF Once
  <2>9. CASE busy' = [busy EXCEPT ![q] = @ \union {n}] /\ UNCHANGED ch
    <3>1. /\ busy'[q] = busy[q] \union {n}
          /\ \A r \in Queues : r # q => busy'[r] = busy[r]
      BY <1>0, <2>3, <2>9 DEF GTyped
    <3>2. InHands'
      BY <2>3, <2>5, <2>7, <3>1 DEF Once, InHands
    <3>3. InChannel'
      BY <2>4, <2>5, <2>9, <3>1 DEF Once, InChannel
    <3> QED
      BY <1>1, <2>6, <2>7, <3>2, <3>3 DEF Once
  <2> QED
    BY <1>4, <2>1, <2>2, <2>8, <2>9, SendCases
<1>5. ASSUME NEW q \in Queues, Take(q) PROVE Once'
  <2>1. PICK s : s = ch[q]
    OBVIOUS
  <2>2. /\ s \in Seq(Envelopes) /\ s # <<>>
        /\ UNCHANGED <<accepted, dispatched>>
    BY <1>0, <1>5, <2>1 DEF Take, GTyped, ghistory
  <2>3. /\ ch'[q] = Tail(s) /\ busy'[q] = busy[q] \union {Head(s)}
        /\ \A r \in Queues : r # q => ch'[r] = ch[r] /\ busy'[r] = busy[r]
    BY <1>0, <1>5, <2>1 DEF Take, GTyped
  <2>4. /\ 1 \in 1..Len(s) /\ Head(s) = s[1]
        /\ Len(Tail(s)) = Len(s) - 1
        /\ \A i \in 1..Len(Tail(s)) : i + 1 \in 1..Len(s) /\ Tail(s)[i] = s[i + 1]
    BY <2>2
  <2>5. \A i \in 1..Len(s) : /\ s[i] \in accepted /\ s[i] \notin dispatched
                             /\ s[i] \notin busy[q] /\ s[i][3] = q
                             /\ \A k \in 1..Len(s) : s[k] = s[i] => k = i
    BY <2>1 DEF Once, InChannel
  <2>6. InHands'
    BY <2>2, <2>3, <2>4, <2>5 DEF Once, InHands
  <2>7. InChannel'
    <3> SUFFICES ASSUME NEW r \in Queues, NEW i \in 1..Len(ch'[r])
                 PROVE  /\ ch'[r][i] \in accepted' /\ ch'[r][i] \notin dispatched'
                        /\ ch'[r][i] \notin busy'[r] /\ ch'[r][i][3] = r
                        /\ \A k \in 1..Len(ch'[r]) : ch'[r][k] = ch'[r][i] => k = i
      BY DEF InChannel
    <3>1. CASE r # q
      BY <2>2, <2>3, <3>1 DEF Once, InChannel
    <3>2. CASE r = q
      <4>1. i \in 1..Len(Tail(s)) /\ ch'[q][i] = s[i + 1] /\ i + 1 \in 1..Len(s)
        BY <2>3, <2>4, <3>2
      <4>2. s[i + 1] # Head(s)
        <5>1. i + 1 # 1
          BY <2>2, <4>1
        <5> QED
          BY <2>4, <2>5, <4>1, <5>1
      <4>3. ASSUME NEW k \in 1..Len(ch'[q]), ch'[q][k] = ch'[q][i] PROVE k = i
        <5>1. k \in 1..Len(Tail(s)) /\ k + 1 \in 1..Len(s) /\ s[k + 1] = s[i + 1]
          BY <2>3, <2>4, <4>1, <4>3
        <5>2. k + 1 = i + 1
          BY <2>5, <4>1, <5>1
        <5>3. k \in Int /\ i \in Int
          BY <2>2, <4>1, <5>1
        <5> QED
          BY <5>2, <5>3
      <4> QED
        BY <2>2, <2>3, <2>5, <3>2, <4>1, <4>2, <4>3
    <3> QED
      BY <3>1, <3>2
  <2> QED
    BY <1>1, <1>2, <2>2, <2>6, <2>7 DEF Once, Numbered
<1>6. ASSUME NEW q \in Queues, NEW e \in busy[q], Dispatch(q, e) PROVE Once'
  <2>1. /\ busy' = [busy EXCEPT ![q] = @ \ {e}]
        /\ dispatched' = dispatched \union {e}
        /\ UNCHANGED <<ch, accepted>>
    BY <1>6, DispatchReturns
  <2>2. /\ busy'[q] = busy[q] \ {e}
        /\ \A r \in Queues : r # q => busy'[r] = busy[r]
    BY <1>0, <2>1 DEF GTyped
  <2>3. e \in accepted /\ e[3] = q
    BY DEF Once, InHands
  <2>4. InHands'
    BY <2>1, <2>2, <2>3 DEF Once, InHands
  <2>5. InChannel'
    BY <2>1, <2>2, <2>3 DEF Once, InChannel
  <2>6. dispatched' \subseteq accepted'
    BY <2>1, <2>3 DEF Once
  <2> QED
    BY <1>1, <1>2, <2>1, <2>4, <2>5, <2>6 DEF Once, Numbered
<1> QED
  BY <1>a, <1>3, <1>4, <1>5, <1>6, GStepCases

\* A queue has lost its last worker only in a step in which that worker exits,
\* and once it has none it never gets one.
LEMMA GoneMoves ==
  ASSUME GInv, [GNext]_gvars, NEW q \in Queues, WorkerCount[q] > 0
  PROVE  /\ Gone(q)' => Gone(q) \/ WorkerExit(q)
         /\ Gone(q) => Gone(q)' \/ main = "queues"
<1>0. GTyped
  BY DEF GInv
<1> USE <1>0 DEF GTyped, Gone
<1>1. ASSUME UNCHANGED <<idle, busy>>
      PROVE  Gone(q)' <=> Gone(q)
  BY <1>1
<1>2. ASSUME \/ WireWriters \/ Signal \/ ServerError
             \/ CloseNormal \/ CloseCritical \/ CloseKafka \/ CloseFallback
             \/ Exit \/ ServerOnly \/ UNCHANGED gvars
             \/ \E c \in Conns : Serve(c)
      PROVE  UNCHANGED <<idle, busy>>
  BY <1>2 DEF WireWriters, Signal, ServerError, CloseNormal, CloseCritical,
              CloseBegin, CloseKafka, CloseFallback, Exit, ServerOnly, Serve,
              gvars, queues
<1>3. ASSUME WireQueues
      PROVE  main = "queues" /\ (Gone(q)' => Gone(q))
  <2>1. /\ main = "queues" /\ UNCHANGED busy
        /\ idle' = idle \/ idle'[q] = WorkerCount[q]
    BY <1>3 DEF WireQueues
  <2>2. WorkerCount[q] # 0
    BY WorkersInt
  <2> QED
    BY <2>1, <2>2
<1>4. ASSUME NEW c \in Conns, Send(c)
      PROVE  (Gone(q)' => Gone(q)) /\ (Gone(q) => Gone(q)')
  <2>1. dest[c] \in Queues
    BY <1>4, InHandTyped, SendCases
  <2>2. PICK d \in Queues : d = dest[c]
    BY <2>1
  <2>3. PICK n : n = InHand(c)
    OBVIOUS
  <2>4. \/ UNCHANGED <<idle, busy>>
        \/ /\ idle[d] > 0
           /\ idle' = [idle EXCEPT ![d] = @ - 1]
           /\ busy' = [busy EXCEPT ![d] = @ \union {n}]
    BY <1>4, <2>2, <2>3, SendCases, Zenon
  <2>5. CASE idle[d] > 0 /\ idle' = [idle EXCEPT ![d] = @ - 1]
             /\ busy' = [busy EXCEPT ![d] = @ \union {n}]
    <3>1. /\ busy'[d] # {} /\ idle[d] # 0
          /\ d # q => idle'[q] = idle[q] /\ busy'[q] = busy[q]
      BY <2>5
    <3> QED
      BY <3>1
  <2> QED
    BY <1>1, <2>4, <2>5
<1>5. ASSUME NEW r \in Queues, Take(r)
      PROVE  (Gone(q)' => Gone(q)) /\ (Gone(q) => Gone(q)')
  <2>1. PICK n : n = Head(ch[r])
    OBVIOUS
  <2>2. /\ idle[r] > 0 /\ idle' = [idle EXCEPT ![r] = @ - 1]
        /\ busy' = [busy EXCEPT ![r] = @ \union {n}]
    BY <1>5, <2>1, Zenon DEF Take
  <2>3. /\ busy'[r] # {} /\ idle[r] # 0
        /\ r # q => idle'[q] = idle[q] /\ busy'[q] = busy[q]
    BY <2>2
  <2> QED
    BY <2>3
<1>6. ASSUME NEW r \in Queues, WorkerExit(r)
      PROVE  (Gone(q)' => Gone(q) \/ r = q) /\ (Gone(q) => Gone(q)')
  BY <1>6 DEF WorkerExit
<1>7. ASSUME NEW r \in Queues, NEW e \in busy[r], Dispatch(r, e)
      PROVE  (Gone(q)' => Gone(q)) /\ (Gone(q) => Gone(q)')
  BY <1>7, DispatchReturns
<1> QED
  BY <1>1, <1>2, <1>3, <1>4, <1>5, <1>6, <1>7, GStepCases

\* The server stands still before the process is up, and when it fails.
LEMMA MainMoves ==
  ASSUME [GNext]_gvars
  PROVE  /\ UNCHANGED cfg
         /\ main \in {"start", "queues", "failed", "panicked"} => UNCHANGED vars
         /\ main' \in {"failed", "panicked"} => UNCHANGED vars
<1>1. CASE WireWriters \/ WireQueues \/ Signal \/ ServerError
  BY <1>1 DEF WireWriters, WireQueues, Signal, ServerError
<1>2. ASSUME CloseNormal \/ CloseCritical \/ CloseKafka \/ CloseFallback \/ Exit
      PROVE  /\ UNCHANGED cfg /\ main \notin {"start", "queues", "failed", "panicked"}
             /\ main' \notin {"failed", "panicked"}
  BY <1>2 DEF CloseNormal, CloseCritical, CloseBegin, CloseKafka, CloseFallback,
              Exit
<1>3. ASSUME \/ ServerOnly
             \/ \E c \in Conns : Serve(c) \/ Send(c)
      PROVE  /\ UNCHANGED <<cfg, main>>
             /\ main \notin {"start", "queues", "failed", "panicked"}
  BY <1>3 DEF ServerOnly, Serve, Send, Running, Alive, Ended
<1>4. ASSUME NEW q \in Queues, \/ Take(q) \/ WorkerExit(q)
                               \/ \E e \in busy[q] : Dispatch(q, e)
      PROVE  UNCHANGED <<vars, cfg>>
  BY <1>4 DEF Take, WorkerExit, Dispatch
<1>5. CASE UNCHANGED gvars
  BY <1>5 DEF gvars
<1> QED
  BY <1>1, <1>2, <1>3, <1>4, <1>5, GStepCases

\* The exit of its last worker is what ends a queue, for good.
LEMMA OverMoves ==
  ASSUME GInv, GInv', Once, [GNext]_gvars, NEW q \in Queues, WorkerCount[q] > 0
  PROVE  /\ Over(q) => Over(q)'
         /\ Over(q)' => Over(q) \/ WorkerExit(q)
<1>1. /\ Over(q) <=> q \in closed /\ Producers(q) = {} /\ Gone(q)
      /\ Over(q)' <=> q \in closed' /\ Producers(q)' = {} /\ Gone(q)'
  BY DEF Over, WorkersGone, Gone
<1>2. UNCHANGED vars => closed' = closed /\ Producers(q)' = Producers(q)
  BY DEF vars, serving, stopping, Producers
<1>3. WorkerCount'[q] > 0
  BY MainMoves DEF WorkerCount
<1>4. ASSUME Over(q) PROVE Over(q)'
  <2>1. main \notin {"start", "queues"}
    BY <1>1, <1>4 DEF Once
  <2>2. q \in closed' /\ main' \notin {"start", "queues"}
    BY <1>1, <1>4, <2>1, ClosedMoves
  <2>3. Gone(q)'
    BY <1>1, <1>4, <2>1, GoneMoves
  <2>4. CASE main' \in {"failed", "panicked"}
    BY <1>1, <1>2, <1>4, <2>3, <2>4, MainMoves
  <2>5. CASE main' \notin {"failed", "panicked"}
    BY <1>1, <1>3, <2>2, <2>3, <2>5 DEF GInv, LastOut
  <2> QED
    BY <2>4, <2>5
<1>5. ASSUME Over(q)', ~WorkerExit(q) PROVE Over(q)
  <2>1. Gone(q)
    BY <1>1, <1>5, GoneMoves
  <2>2. CASE main \in {"start", "queues", "failed", "panicked"}
    BY <1>1, <1>2, <1>5, <2>1, <2>2, MainMoves
  <2>3. CASE main \notin {"start", "queues", "failed", "panicked"}
    BY <1>1, <2>1, <2>3 DEF GInv, LastOut
  <2> QED
    BY <2>2, <2>3
<1> QED
  BY <1>4, <1>5

\* Only Send accepts and only Dispatch dispatches.
LEMMA HistoryMoves ==
  ASSUME GInv, [GNext]_gvars
  PROVE  \/ UNCHANGED <<accepted, dispatched>>
         \/ \E c \in Conns : Send(c)
         \/ \E q \in Queues : \E e \in busy[q] : Dispatch(q, e)
<1>1. ASSUME \/ WireWriters \/ WireQueues \/ Signal \/ ServerError
             \/ CloseNormal \/ CloseCritical \/ CloseKafka \/ CloseFallback
             \/ Exit \/ ServerOnly \/ UNCHANGED gvars
             \/ \E c \in Conns : Serve(c)
             \/ \E q \in Queues : Take(q) \/ WorkerExit(q)
      PROVE  UNCHANGED <<accepted, dispatched>>
  BY <1>1 DEF WireWriters, WireQueues, Signal, ServerError, CloseNormal,
              CloseCritical, CloseBegin, CloseKafka, CloseFallback, Exit,
              ServerOnly, Serve, Take, WorkerExit, gvars, queues, ghistory
<1> QED
  BY <1>1, GStepCases

\* A step of the process is a step of the contract of a queue with workers, or
\* leaves it alone.
LEMMA QueueStep ==
  ASSUME GInv, GInv', Once, [GNext]_gvars, NEW q \in Queues, WorkerCount[q] > 0
  PROVE  [QueueOf(q)!CNext]_(QueueOf(q)!cvars)
<1> SUFFICES QueueOf(q)!CNext \/ UNCHANGED <<Waiting(q), Handled(q), Over(q)>>
  BY DEF QueueOf!cvars
<1>0. GTyped
  BY DEF GInv
<1>1. ASSUME NEW c \in Conns, Send(c), dest[c] = q PROVE QueueOf(q)!CNext
  <2>1. PICK e : e = InHand(c)
    OBVIOUS
  <2>2. /\ e \in EnvsOf(q) /\ e[3] = q /\ cpc[c] = "blocked"
    BY <1>1, <2>1, InHandTyped, SendCases DEF InHand, EnvsOf, Envelopes
  <2>3. e \notin accepted /\ e \notin dispatched
    BY <1>1, <2>1, <2>2, InHandFresh DEF Once
  <2>4. accepted' = accepted \union {e} /\ UNCHANGED dispatched
    BY <1>1, <2>1, SendCases
  <2>5. Waiting(q)' = Waiting(q) \union {e} /\ e \notin Waiting(q)
    BY <2>2, <2>3, <2>4 DEF Waiting
  <2>6. Handled(q)' = Handled(q) /\ Handled(q)[e] = 0
    BY <2>2, <2>3, <2>4 DEF Handled
  <2>7. ~Over(q)
    BY <1>1, <2>2 DEF Over, WorkersGone, Producers
  <2>8. ~WorkerExit(q)
    BY <1>1, <2>2 DEF WorkerExit, Producers
  <2>9. ~Over(q)'
    BY <2>7, <2>8, OverMoves
  <2>10. QueueOf(q)!Accept(e)
    BY <2>5, <2>6, <2>7, <2>9 DEF QueueOf!Accept
  <2> QED
    BY <2>2, <2>10 DEF QueueOf!CNext
<1>2. ASSUME NEW e \in busy[q], Dispatch(q, e) PROVE QueueOf(q)!CNext
  <2>1. /\ e \in accepted /\ e \notin dispatched /\ e[3] = q
        /\ e \in EnvsOf(q)
    BY <1>0 DEF Once, InHands, GTyped, Envelopes, EnvsOf
  <2>2. dispatched' = dispatched \union {e} /\ UNCHANGED accepted
    BY <1>2, DispatchReturns
  <2>3. Waiting(q)' = Waiting(q) \ {e} /\ e \in Waiting(q)
    BY <2>1, <2>2 DEF Waiting
  <2>4. Handled(q)' = [Handled(q) EXCEPT ![e] = @ + 1]
    <3>1. Handled(q)[e] = 0
      BY <2>1 DEF Handled
    <3>2. \A x \in EnvsOf(q) : Handled(q)'[x] = IF x = e THEN 1 ELSE Handled(q)[x]
      BY <2>2 DEF Handled, EnvsOf
    <3>3. Handled(q)' = [x \in EnvsOf(q) |-> Handled(q)'[x]]
      BY DEF Handled, EnvsOf
    <3>4. PICK was : was = Handled(q)
      OBVIOUS
    <3>5. was[e] = 0 /\ was = [x \in EnvsOf(q) |-> was[x]]
      BY <3>1, <3>4 DEF Handled
    <3>6. [was EXCEPT ![e] = @ + 1] = [x \in EnvsOf(q) |-> IF x = e THEN 1 ELSE was[x]]
      BY <2>1, <3>5
    <3> QED
      BY <3>2, <3>3, <3>4, <3>6
  <2>5. ~Over(q)
    BY DEF Over, WorkersGone
  <2>6. ~Over(q)'
    <3>1. idle'[q] # 0
      BY <1>0, <1>2, DispatchReturns DEF GTyped
    <3> QED
      BY <3>1 DEF Over, WorkersGone
  <2>7. QueueOf(q)!Handle(e)
    BY <2>3, <2>4, <2>5, <2>6 DEF QueueOf!Handle
  <2> QED
    BY <2>1, <2>7 DEF QueueOf!CNext
<1>3. ASSUME UNCHANGED <<Waiting(q), Handled(q)>>
      PROVE  QueueOf(q)!CNext \/ UNCHANGED Over(q)
  <2> SUFFICES ASSUME ~Over(q), Over(q)' PROVE QueueOf(q)!CNext
    BY OverMoves DEF Over
  <2>1. WorkerExit(q)
    BY OverMoves
  <2>2. ch[q] = <<>> /\ busy[q] = {}
    BY <2>1 DEF WorkerExit, Over, WorkersGone
  <2>3. Waiting(q) = {}
    <3> SUFFICES ASSUME NEW e \in Waiting(q) PROVE FALSE
      OBVIOUS
    <3>1. e \in accepted /\ e \notin dispatched /\ e[3] = q
      BY DEF Waiting
    <3>2. \E i \in 1..Len(ch[q]) : ch[q][i] = e
      BY <2>2, <3>1 DEF GInv, Kept
    <3> QED
      BY <2>2, <3>2
  <2>4. QueueOf(q)!Shut
    BY <1>3, <2>3 DEF QueueOf!Shut
  <2> QED
    BY <2>4 DEF QueueOf!CNext
<1>4. ASSUME NEW c \in Conns, Send(c), dest[c] # q
      PROVE  UNCHANGED <<Waiting(q), Handled(q)>>
  <2>1. /\ InHand(c)[3] # q
        /\ accepted' = accepted \union {InHand(c)} /\ UNCHANGED dispatched
    BY <1>4, SendCases DEF InHand
  <2> QED
    BY <2>1 DEF Waiting, Handled
<1>5. ASSUME NEW r \in Queues, r # q, NEW e \in busy[r], Dispatch(r, e)
      PROVE  UNCHANGED <<Waiting(q), Handled(q)>>
  <2>1. /\ e[3] # q
        /\ dispatched' = dispatched \union {e} /\ UNCHANGED accepted
    BY <1>5, DispatchReturns DEF Once, InHands
  <2>2. e \notin EnvsOf(q)
    BY <2>1 DEF EnvsOf
  <2> QED
    BY <2>1, <2>2 DEF Waiting, Handled
<1>6. ASSUME UNCHANGED <<accepted, dispatched>>
      PROVE  UNCHANGED <<Waiting(q), Handled(q)>>
  BY <1>6 DEF Waiting, Handled
<1> QED
  BY <1>1, <1>2, <1>3, <1>4, <1>5, <1>6, HistoryMoves

\* The queues of the process implement QueueContract, as module Queue does, with
\* the server's goroutines as producers, main and the expired context as those
\* who close, and dispatch as the worker function: an envelope that Enqueue took
\* is dispatched at most once, none is accepted once the queue is over, and the
\* queue is over only when nothing is pending.  This needs a worker: Close of a
\* queue configured with none returns and leaves what is in the channel.
THEOREM QueuesImplementContract ==
  ASSUME NEW q \in Queues
  PROVE  GSpec /\ WorkerCount[q] > 0 => QueueOf(q)!CSafeSpec
<1>1. GInit => Once /\ QueueOf(q)!CInit
  <2> SUFFICES ASSUME GInit PROVE Once /\ QueueOf(q)!CInit
    OBVIOUS
  <2>1. Once
    BY DEF GInit, Init, Once, Numbered, InHands, InChannel
  <2>2. QueueOf(q)!CInit
    BY DEF GInit, Init, QueueOf!CInit, Waiting, Handled, Over
  <2> QED
    BY <2>1, <2>2
<1>2. [GNext]_gvars /\ WorkerCount[q] > 0 => (WorkerCount[q] > 0)'
  BY MainMoves DEF WorkerCount
<1>3. GInv /\ GInv' /\ Once /\ [GNext]_gvars /\ WorkerCount[q] > 0
        => [QueueOf(q)!CNext]_(QueueOf(q)!cvars)
  BY QueueStep
<1> QED
  BY <1>1, <1>2, <1>3, NextOnce, GInductive, PTL DEF GSpec, QueueOf!CSafeSpec
=============================================================================
