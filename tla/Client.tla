------------------------------- MODULE Client -------------------------------
(***************************************************************************)
(* pkg/logtrack/client.go: the package-level singleton (Init, Close), the  *)
(* Client with its shards, each a mutex, a connection and a back-off, and  *)
(* the goroutines of an application inside Send.                           *)
(*                                                                         *)
(* A step is what a goroutine does between two points where another can    *)
(* interfere.  A caller holds the mutex of its shard from SendLock until   *)
(* it returns.  The event and the normal pool are one set of shards; which *)
(* of them a message takes (topic, hash of the trace id) is a free choice. *)
(***************************************************************************)
EXTENDS Naturals, Sequences, FiniteSets

CONSTANTS
  Callers,          \* application goroutines that call Send
  Admins,           \* application goroutines that call Init or Close
  Clients,          \* the Client values New can make
  NShards,          \* shards of a client, the event pool and then the normal pool
  Nil,              \* no client, no shard, no thread
  MaxSends,         \* bound: calls of Send per goroutine
  MaxAdmin          \* bound: calls of Init or Close per goroutine

ASSUME NilAssumption == Nil \notin Callers \union Admins \union Clients
ASSUME ThreadsAssumption == Callers \cap Admins = {}
ASSUME ShardsAssumption == NShards \in Nat \ {0} /\ Nil \notin 1..NShards
ASSUME CallBounds == MaxSends \in Nat /\ MaxAdmin \in Nat

VARIABLES
  default,          \* defaultClient
  defaultMu,        \* the Close that holds defaultMu, if any
  made,             \* clients New has returned
  closed,           \* c.closed
  conn,             \* s.conn # nil
  backoff,          \* now is before s.nextAttempt
  mu,               \* who holds s.mu
  wire,             \* the frames on the connection of a shard, whole or torn
  pc,               \* where each goroutine is
  ref,              \* the client a goroutine works on
  shard,            \* the shard a goroutine has locked or is about to
  upto,             \* the shards an Admin in Client.Close has been through
  calls,            \* calls made, for the bounds
  shut              \* history: clients whose Close has returned

shards == <<conn, backoff, mu, wire>>
threads == <<pc, ref, shard, upto, calls>>
vars == <<default, defaultMu, made, closed, shards, threads, shut>>

Threads == Callers \union Admins

Shards == 1..NShards

Init ==
  /\ default = Nil
  /\ defaultMu = Nil
  /\ made = {}
  /\ closed = [c \in Clients |-> FALSE]
  /\ conn = [c \in Clients |-> [s \in Shards |-> FALSE]]
  /\ backoff = [c \in Clients |-> [s \in Shards |-> FALSE]]
  /\ mu = [c \in Clients |-> [s \in Shards |-> Nil]]
  /\ wire = [c \in Clients |-> [s \in Shards |-> <<>>]]
  /\ pc = [t \in Threads |-> "idle"]
  /\ ref = [t \in Threads |-> Nil]
  /\ shard = [t \in Threads |-> Nil]
  /\ upto = [t \in Admins |-> 0]
  /\ calls = [t \in Threads |-> 0]
  /\ shut = {}

Goto(t, l) == pc' = [pc EXCEPT ![t] = l]

\* The deferred s.mu.Unlock() and the return of send.
SendReturn(t) ==
  /\ Goto(t, "idle")
  /\ mu' = [mu EXCEPT ![ref[t]][shard[t]] = Nil]
  /\ ref' = [ref EXCEPT ![t] = Nil]
  /\ shard' = [shard EXCEPT ![t] = Nil]

-----------------------------------------------------------------------------
(* Faulty variants of the operations below, for the mutation runs *)

\* Dial without looking at c.closed again.
DialUnchecked(t) ==
  /\ pc[t] = "recheck"
  /\ Goto(t, "dial")
  /\ UNCHANGED <<default, defaultMu, made, closed, shards, ref, shard, upto,
                 calls, shut>>

\* Keep the connection after a failed write.
KeepBrokenConn(t) ==
  /\ pc[t] = "write"
  /\ wire' = [wire EXCEPT ![ref[t]][shard[t]] = Append(@, "torn")]
  /\ SendReturn(t)
  /\ UNCHANGED <<default, defaultMu, made, closed, conn, backoff, upto, calls,
                 shut>>

\* Replace the default client and forget the one it had.
SwapAndForget(t, c) ==
  /\ pc[t] = "idle" /\ calls[t] < MaxAdmin
  /\ c \notin made
  /\ defaultMu = Nil
  /\ made' = made \union {c}
  /\ default' = c
  /\ calls' = [calls EXCEPT ![t] = @ + 1]
  /\ UNCHANGED <<defaultMu, closed, shards, pc, ref, shard, upto, shut>>

\* The loop over the shards goes one too far.
CloseOneTooMany(t) ==
  /\ pc[t] = "shards"
  /\ upto[t] <= NShards
  /\ upto[t] < NShards => mu[ref[t]][upto[t] + 1] = Nil
  /\ upto' = [upto EXCEPT ![t] = @ + 1]
  /\ conn' = [conn EXCEPT ![ref[t]] = [s \in Shards |-> s # upto[t] + 1 /\ @[s]]]
  /\ UNCHANGED <<default, defaultMu, made, closed, backoff, mu, wire, pc, ref,
                 shard, calls, shut>>

\* Dial again, without a limit, under s.mu.
RetryDial(t) ==
  /\ pc[t] = "dial"
  /\ Goto(t, "recheck")
  /\ UNCHANGED <<default, defaultMu, made, closed, shards, ref, shard, upto,
                 calls, shut>>

-----------------------------------------------------------------------------
(* Send *)

\* client(), under the read lock of defaultMu.
SendClient(t) ==
  /\ pc[t] = "idle" /\ calls[t] < MaxSends
  /\ defaultMu = Nil
  /\ default # Nil
  /\ calls' = [calls EXCEPT ![t] = @ + 1]
  /\ ref' = [ref EXCEPT ![t] = default]
  /\ Goto(t, "check")
  /\ UNCHANGED <<default, defaultMu, made, closed, shards, shard, upto, shut>>

\* A nil client ends the call.
SendNoClient(t) ==
  /\ pc[t] = "idle" /\ calls[t] < MaxSends
  /\ defaultMu = Nil
  /\ default = Nil
  /\ calls' = [calls EXCEPT ![t] = @ + 1]
  /\ UNCHANGED <<default, defaultMu, made, closed, shards, pc, ref, shard, upto,
                 shut>>

\* The first look at c.closed, and the choice of a shard.
SendCheck(t) ==
  /\ pc[t] = "check"
  /\ ~closed[ref[t]]
  /\ Goto(t, "lock")
  /\ \E s \in Shards : shard' = [shard EXCEPT ![t] = s]
  /\ UNCHANGED <<default, defaultMu, made, closed, shards, ref, upto, calls,
                 shut>>

\* A closed client ends the call.
SendToClosed(t) ==
  /\ pc[t] = "check"
  /\ closed[ref[t]]
  /\ Goto(t, "idle")
  /\ ref' = [ref EXCEPT ![t] = Nil]
  /\ UNCHANGED <<default, defaultMu, made, closed, shards, shard, upto, calls,
                 shut>>

\* s.mu.Lock()
SendLock(t) ==
  /\ pc[t] = "lock"
  /\ mu[ref[t]][shard[t]] = Nil
  /\ mu' = [mu EXCEPT ![ref[t]][shard[t]] = t]
  /\ Goto(t, "locked")
  /\ UNCHANGED <<default, defaultMu, made, closed, conn, backoff, wire, ref,
                 shard, upto, calls, shut>>

\* During the back-off, or when the data cannot be serialized, the message is
\* dropped.
SendSkip(t) ==
  /\ pc[t] = "locked"
  /\ SendReturn(t)
  /\ UNCHANGED <<default, defaultMu, made, closed, conn, backoff, wire, upto,
                 calls, shut>>

\* The frame is ready: write it on the connection, or look at c.closed again
\* before dialing one.
SendReady(t) ==
  /\ pc[t] = "locked"
  /\ ~backoff[ref[t]][shard[t]]
  /\ Goto(t, IF conn[ref[t]][shard[t]] THEN "write" ELSE "recheck")
  /\ UNCHANGED <<default, defaultMu, made, closed, shards, ref, shard, upto,
                 calls, shut>>

SendRecheck(t) ==
  /\ pc[t] = "recheck"
  /\ ~closed[ref[t]]
  /\ Goto(t, "dial")
  /\ UNCHANGED <<default, defaultMu, made, closed, shards, ref, shard, upto,
                 calls, shut>>

\* The client was closed while this call waited for the shard.
SendTooLate(t) ==
  /\ pc[t] = "recheck"
  /\ closed[ref[t]]
  /\ SendReturn(t)
  /\ UNCHANGED <<default, defaultMu, made, closed, conn, backoff, wire, upto,
                 calls, shut>>

Dial(t) ==
  /\ pc[t] = "dial"
  /\ conn' = [conn EXCEPT ![ref[t]][shard[t]] = TRUE]
  /\ wire' = [wire EXCEPT ![ref[t]][shard[t]] = <<>>]
  /\ backoff' = [backoff EXCEPT ![ref[t]][shard[t]] = FALSE]
  /\ Goto(t, "write")
  /\ UNCHANGED <<default, defaultMu, made, closed, mu, ref, shard, upto, calls,
                 shut>>

DialFails(t) ==
  /\ pc[t] = "dial"
  /\ backoff' = [backoff EXCEPT ![ref[t]][shard[t]] = TRUE]
  /\ SendReturn(t)
  /\ UNCHANGED <<default, defaultMu, made, closed, conn, wire, upto, calls,
                 shut>>

WriteFrame(t) ==
  /\ pc[t] = "write"
  /\ wire' = [wire EXCEPT ![ref[t]][shard[t]] = Append(@, "whole")]
  /\ SendReturn(t)
  /\ UNCHANGED <<default, defaultMu, made, closed, conn, backoff, upto, calls,
                 shut>>

\* The write fails, as a rule after part of the frame: the connection is
\* closed and the back-off starts.
WriteFails(t) ==
  /\ pc[t] = "write"
  /\ wire' = [wire EXCEPT ![ref[t]][shard[t]] = Append(@, "torn")]
  /\ conn' = [conn EXCEPT ![ref[t]][shard[t]] = FALSE]
  /\ backoff' = [backoff EXCEPT ![ref[t]][shard[t]] = TRUE]
  /\ SendReturn(t)
  /\ UNCHANGED <<default, defaultMu, made, closed, upto, calls, shut>>

\* Time passes s.nextAttempt.
BackoffEnds(c, s) ==
  /\ backoff[c][s]
  /\ backoff' = [backoff EXCEPT ![c][s] = FALSE]
  /\ UNCHANGED <<default, defaultMu, made, closed, conn, mu, wire, threads,
                 shut>>

-----------------------------------------------------------------------------
(* Init and Close of the package, and Client.Close under both *)

\* New and the swap of defaultClient under defaultMu; the client it replaces
\* is closed after that.
InitSwap(t, c) ==
  /\ pc[t] = "idle" /\ calls[t] < MaxAdmin
  /\ c \notin made
  /\ defaultMu = Nil
  /\ default # Nil
  /\ made' = made \union {c}
  /\ default' = c
  /\ calls' = [calls EXCEPT ![t] = @ + 1]
  /\ ref' = [ref EXCEPT ![t] = default]
  /\ Goto(t, "close")
  /\ UNCHANGED <<defaultMu, closed, shards, shard, upto, shut>>

\* The same where there is no client to replace.
InitFirst(t, c) ==
  /\ pc[t] = "idle" /\ calls[t] < MaxAdmin
  /\ c \notin made
  /\ defaultMu = Nil
  /\ default = Nil
  /\ made' = made \union {c}
  /\ default' = c
  /\ calls' = [calls EXCEPT ![t] = @ + 1]
  /\ UNCHANGED <<defaultMu, closed, shards, pc, ref, shard, upto, shut>>

\* Close takes defaultMu and keeps it until the client is closed.
CloseDefault(t) ==
  /\ pc[t] = "idle" /\ calls[t] < MaxAdmin
  /\ defaultMu = Nil
  /\ default # Nil
  /\ calls' = [calls EXCEPT ![t] = @ + 1]
  /\ defaultMu' = t
  /\ ref' = [ref EXCEPT ![t] = default]
  /\ Goto(t, "close")
  /\ UNCHANGED <<default, made, closed, shards, shard, upto, shut>>

\* Close without a client returns at once.
CloseNothing(t) ==
  /\ pc[t] = "idle" /\ calls[t] < MaxAdmin
  /\ defaultMu = Nil
  /\ default = Nil
  /\ calls' = [calls EXCEPT ![t] = @ + 1]
  /\ UNCHANGED <<default, defaultMu, made, closed, shards, pc, ref, shard, upto,
                 shut>>

\* c.closed = true under closeMu
SetClosed(t) ==
  /\ pc[t] = "close"
  /\ closed' = [closed EXCEPT ![ref[t]] = TRUE]
  /\ upto' = [upto EXCEPT ![t] = 0]
  /\ Goto(t, "shards")
  /\ UNCHANGED <<default, defaultMu, made, shards, ref, shard, calls, shut>>

\* One round of the loop over the shards, a critical section of s.mu.
CloseShard(t) ==
  /\ pc[t] = "shards"
  /\ upto[t] < NShards
  /\ mu[ref[t]][upto[t] + 1] = Nil
  /\ conn' = [conn EXCEPT ![ref[t]][upto[t] + 1] = FALSE]
  /\ upto' = [upto EXCEPT ![t] = @ + 1]
  /\ UNCHANGED <<default, defaultMu, made, closed, backoff, mu, wire, pc, ref,
                 shard, calls, shut>>

\* Client.Close returns; Close also clears defaultClient and unlocks.
CloseReturn(t) ==
  /\ pc[t] = "shards"
  /\ upto[t] = NShards
  /\ shut' = shut \union {ref[t]}
  /\ \/ defaultMu = t /\ default' = Nil /\ defaultMu' = Nil
     \/ defaultMu # t /\ UNCHANGED <<default, defaultMu>>
  /\ ref' = [ref EXCEPT ![t] = Nil]
  /\ Goto(t, "idle")
  /\ UNCHANGED <<made, closed, shards, shard, upto, calls>>

\* Every goroutine has made its calls.
Quiet ==
  /\ \A t \in Threads : pc[t] = "idle"
  /\ \A t \in Callers : calls[t] = MaxSends
  /\ \A t \in Admins : calls[t] = MaxAdmin
  /\ UNCHANGED vars

-----------------------------------------------------------------------------
SendStep(t) == \/ SendCheck(t) \/ SendToClosed(t) \/ SendLock(t)
               \/ SendSkip(t) \/ SendReady(t)
               \/ SendRecheck(t) \/ SendTooLate(t) \/ Dial(t) \/ DialFails(t)
               \/ WriteFrame(t) \/ WriteFails(t)

AdminStep(t) == SetClosed(t) \/ CloseShard(t) \/ CloseReturn(t)

Next ==
  \/ \E t \in Callers : SendClient(t) \/ SendNoClient(t) \/ SendStep(t)
  \/ \E t \in Admins : \/ CloseDefault(t) \/ CloseNothing(t) \/ AdminStep(t)
                       \/ \E c \in Clients : InitSwap(t, c) \/ InitFirst(t, c)
  \/ \E c \in Clients, s \in Shards : BackoffEnds(c, s)
  \/ Quiet

Spec == Init /\ [][Next]_vars

\* Goroutines run when they can; dialing and writing have timeouts.  The
\* fairness is strong because a mutex comes and goes while a goroutine waits
\* for it: sync.Mutex hands it to every goroutine that keeps waiting.
Fairness ==
  /\ \A t \in Callers : SF_vars(SendStep(t))
  /\ \A t \in Admins : SF_vars(AdminStep(t))

FairSpec == Spec /\ Fairness

-----------------------------------------------------------------------------
(* Properties *)

\* Every variable stays in its type.
TypeOK ==
  /\ default \in Clients \union {Nil}
  /\ defaultMu \in Admins \union {Nil}
  /\ made \in SUBSET Clients
  /\ closed \in [Clients -> BOOLEAN]
  /\ conn \in [Clients -> [Shards -> BOOLEAN]]
  /\ backoff \in [Clients -> [Shards -> BOOLEAN]]
  /\ mu \in [Clients -> [Shards -> Callers \union {Nil}]]
  /\ wire \in [Clients -> [Shards -> Seq({"whole", "torn"})]]
  /\ pc \in [Threads -> {"idle", "check", "lock", "locked", "recheck", "dial",
                         "write", "close", "shards"}]
  /\ ref \in [Threads -> Clients \union {Nil}]
  /\ shard \in [Threads -> Shards \union {Nil}]
  /\ upto \in [Admins -> 0..NShards]
  /\ calls \in [Threads -> Nat]
  /\ shut \in SUBSET Clients

\* After Client.Close has returned, none of the client's shards ever has a
\* connection again, although a Send that looked at c.closed before may still
\* be on its way to dial.
ClosedStaysClosed == \A c \in shut : \A s \in Shards : ~conn[c][s]

\* Whatever Init and Close calls overlap, once they have returned only the
\* default client is open: no client is left behind with connections.
NoClientLeaks ==
  (\A t \in Admins : pc[t] = "idle") =>
    \A c \in made \ {default} : closed[c] /\ \A s \in Shards : ~conn[c][s]

\* On a connection no frame follows a torn one: the gateway, which reads
\* frames by their length prefix, never takes the middle of one for the start
\* of the next.
TornIsLast ==
  \A c \in Clients, s \in Shards :
    \A i \in 1..Len(wire[c][s]) : wire[c][s][i] = "torn" => i = Len(wire[c][s])

\* Every Send, Init and Close returns: Close holds defaultMu while it waits
\* for shards whose holders never wait for defaultMu.
CallsReturn == \A t \in Threads : pc[t] # "idle" ~> pc[t] = "idle"
=============================================================================
