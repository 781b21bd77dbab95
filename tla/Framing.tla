------------------------------ MODULE Framing -------------------------------
(***************************************************************************)
(* The bytes between pkg/logtrack/client.go (encodeFrame and the write in  *)
(* send) and internal/server/conn.go (readFrame): one shard of a client,   *)
(* the connections it dials one after the other, and the serve goroutine   *)
(* the gateway has for each.                                               *)
(*                                                                         *)
(* A send is one step: the shard's mutex is held for all of it (module     *)
(* Client).  A byte has Base values where the code's has 256; a length     *)
(* prefix is four of them and wraps as a uint32 does.                      *)
(***************************************************************************)
EXTENDS Naturals, Sequences, SequencesExt

CONSTANTS
  Base,             \* the values of a byte
  MaxMessageSize,   \* cfg.MaxMessageSize
  Sizes,            \* the lengths of the envelopes sent, in bytes of JSON
  MaxSends,         \* bound: calls of send
  MaxDials          \* bound: connections

PrefixLen == 4
Modulus == Base * Base * Base * Base

ASSUME BaseAssumption == Base \in Nat \ {0, 1}
ASSUME SizesAssumption == Sizes \subseteq Nat \ {0}
ASSUME LimitAssumption == MaxMessageSize \in Nat /\ MaxMessageSize < Modulus
ASSUME FramingBounds == MaxSends \in Nat /\ MaxDials \in Nat

Conns == 1..MaxDials

VARIABLES
  size,             \* the lengths of the envelopes sent so far
  conn,             \* s.conn: the last connection dialed, or 0
  dials,            \* connections dialed
  wire,             \* per connection: bytes written and not yet read
  eof,              \* per connection: the client has closed it
  reader,           \* per connection: what readFrame waits for, or its end
  need,             \* per connection: the length readFrame has read
  begun,            \* history, per connection: envelopes written, the last
                    \* one perhaps in part
  whole,            \* history, per connection: how many of them in full
  got               \* history, per connection: envelopes decoded

client == <<size, conn, dials, eof, begun, whole>>
server == <<reader, need, got>>
vars == <<client, wire, server>>

Init ==
  /\ size = <<>>
  /\ conn = 0
  /\ dials = 0
  /\ wire = [k \in Conns |-> <<>>]
  /\ eof = [k \in Conns |-> FALSE]
  /\ reader = [k \in Conns |-> "prefix"]
  /\ need = [k \in Conns |-> 0]
  /\ begun = [k \in Conns |-> <<>>]
  /\ whole = [k \in Conns |-> 0]
  /\ got = [k \in Conns |-> <<>>]

Over == {"hungUp", "eof", "cut"}

-----------------------------------------------------------------------------
(* Faulty variants of the definitions below, one plausible mistake each.   *)
(* No specification uses them: they are what the properties at the end of  *)
(* the module must tell from the code.                                     *)

\* A frame of exactly the maximal size is refused.
RefuseAtLimit(n) == n = 0 \/ n >= MaxMessageSize

\* readFrame reads through a buffer of its own: what the buffer holds beyond
\* the frame is gone when it returns.
ReadBuffered(k) ==
  /\ reader[k] = "body"
  /\ Len(wire[k]) >= need[k]
  /\ reader' = [reader EXCEPT ![k] = "prefix"]
  /\ got' = [got EXCEPT ![k] = Append(@, wire[k][1].of)]
  /\ wire' = [wire EXCEPT ![k] = <<>>]
  /\ UNCHANGED <<client, need>>

-----------------------------------------------------------------------------
(* The frame *)

\* binary.BigEndian.PutUint32 and Uint32
Shift(n) == n \div Base
PutUint32(n) ==
  <<Shift(Shift(Shift(n))) % Base, Shift(Shift(n)) % Base, Shift(n) % Base,
    n % Base>>
Uint32(b) ==
  ((b[1].val * Base + b[2].val) * Base + b[3].val) * Base + b[4].val

\* encodeFrame of the i-th envelope, n bytes long.  A byte knows where it is
\* from; the value of a byte of JSON only matters to a reader that takes it
\* for a length.
encodeFrame(i, n) ==
  [j \in 1..(PrefixLen + n) |->
     [of |-> i, at |-> j, val |-> IF j <= PrefixLen THEN PutUint32(n)[j] ELSE 1]]

\* json.Unmarshal takes an envelope's JSON, all of it and nothing else.
Unmarshals(body) ==
  \E i \in 1..Len(size) :
    body = SubSeq(encodeFrame(i, size[i]), PrefixLen + 1, PrefixLen + size[i])

\* The lengths readFrame returns an error for
BadLength(n) == n = 0 \/ n > MaxMessageSize

-----------------------------------------------------------------------------
(* The client *)

Dial ==
  /\ conn = 0 /\ dials < MaxDials
  /\ dials' = dials + 1
  /\ conn' = dials'
  /\ UNCHANGED <<size, eof, begun, whole, wire, server>>

\* s.conn.Write returns nil: the bytes are on their way, or the gateway has
\* closed the connection and nobody will read them.
WriteFrame(n) ==
  /\ conn # 0 /\ Len(size) < MaxSends
  /\ size' = Append(size, n)
  /\ begun' = [begun EXCEPT ![conn] = Append(@, Len(size'))]
  /\ whole' = [whole EXCEPT ![conn] = @ + 1]
  /\ wire' = IF reader[conn] \in Over THEN wire
             ELSE [wire EXCEPT ![conn] = @ \o encodeFrame(Len(size'), n)]
  /\ UNCHANGED <<conn, dials, eof, server>>

\* s.conn.Write fails after m bytes: the client closes the connection.
WriteFails(n, m) ==
  /\ conn # 0 /\ Len(size) < MaxSends
  /\ m < PrefixLen + n
  /\ size' = Append(size, n)
  /\ begun' = [begun EXCEPT ![conn] = Append(@, Len(size'))]
  /\ wire' = IF reader[conn] \in Over THEN wire
             ELSE [wire EXCEPT ![conn] =
                     @ \o SubSeq(encodeFrame(Len(size'), n), 1, m)]
  /\ eof' = [eof EXCEPT ![conn] = TRUE]
  /\ conn' = 0
  /\ UNCHANGED <<dials, whole, server>>

\* Client.Close
Close ==
  /\ conn # 0
  /\ eof' = [eof EXCEPT ![conn] = TRUE]
  /\ conn' = 0
  /\ UNCHANGED <<size, dials, begun, whole, wire, server>>

-----------------------------------------------------------------------------
(* The gateway *)

\* serve returns and closes the connection; what is left on it is lost.
End(k, how) ==
  /\ reader' = [reader EXCEPT ![k] = how]
  /\ wire' = [wire EXCEPT ![k] = <<>>]
  /\ UNCHANGED <<need, got>>

ReadPrefix(k) ==
  LET n == Uint32(SubSeq(wire[k], 1, PrefixLen)) IN
  /\ reader[k] = "prefix"
  /\ Len(wire[k]) >= PrefixLen
  /\ IF BadLength(n)
       THEN End(k, "hungUp")
       ELSE /\ reader' = [reader EXCEPT ![k] = "body"]
            /\ need' = [need EXCEPT ![k] = n]
            /\ wire' = [wire EXCEPT ![k] =
                          SubSeq(@, PrefixLen + 1, Len(@))]
            /\ UNCHANGED got
  /\ UNCHANGED client

ReadBody(k) ==
  LET body == SubSeq(wire[k], 1, need[k]) IN
  /\ reader[k] = "body"
  /\ Len(wire[k]) >= need[k]
  /\ IF Unmarshals(body)
       THEN /\ reader' = [reader EXCEPT ![k] = "prefix"]
            /\ got' = [got EXCEPT ![k] = Append(@, body[1].of)]
            /\ wire' = [wire EXCEPT ![k] = SubSeq(@, need[k] + 1, Len(@))]
            /\ UNCHANGED need
       ELSE End(k, "hungUp")
  /\ UNCHANGED client

\* io.ReadFull meets the end of the stream.
ReadEOF(k) ==
  /\ eof[k]
  /\ \/ reader[k] = "prefix" /\ Len(wire[k]) < PrefixLen
     \/ reader[k] = "body" /\ Len(wire[k]) < need[k]
  /\ End(k, "eof")
  /\ UNCHANGED client

\* The connection is reset, passes its read deadline or is closed by Shutdown.
ReadCut(k) ==
  /\ k <= dials /\ reader[k] \notin Over
  /\ End(k, "cut")
  /\ UNCHANGED client

-----------------------------------------------------------------------------
Reader(k) == ReadPrefix(k) \/ ReadBody(k) \/ ReadEOF(k)

\* Every connection was used and is at its end.
Quiet == conn = 0 /\ dials = MaxDials /\ UNCHANGED vars

Next ==
  \/ Dial \/ Close
  \/ \E n \in Sizes : \/ WriteFrame(n)
                      \/ \E m \in 0..(PrefixLen + n - 1) : WriteFails(n, m)
  \/ \E k \in Conns : Reader(k) \/ ReadCut(k)
  \/ Quiet

Spec == Init /\ [][Next]_vars

\* A serve goroutine reads what has come.
FairSpec == Spec /\ \A k \in Conns : WF_vars(Reader(k))

-----------------------------------------------------------------------------
(* Properties *)

\* What the gateway decodes from a connection is what the client wrote to it
\* in full, in order and without a gap, whatever was torn or lost.
FramesIntact ==
  \A k \in Conns : IsPrefix(got[k], SubSeq(begun[k], 1, whole[k]))

\* The gateway hangs up on a client only at an envelope that is larger than
\* MaxMessageSize, and it always does: one of 2^32 bytes and more, whose prefix
\* wraps around to a small or a zero length, does not slip through.
HangsUpAtLimit ==
  \A k \in Conns :
    /\ \A i \in 1..Len(got[k]) : size[got[k][i]] <= MaxMessageSize
    /\ reader[k] = "hungUp" =>
         size[begun[k][Len(got[k]) + 1]] > MaxMessageSize

\* Every envelope written in full is decoded, or its connection is given up:
\* the reader never waits for bytes that will not come while whole frames are
\* there.
WrittenArrives ==
  \A k \in Conns, i \in 1..MaxSends :
    whole[k] >= i ~> Len(got[k]) >= i \/ reader[k] \in Over
=============================================================================
