--------------------------- MODULE FramingProofs ----------------------------
(***************************************************************************)
(* Proofs about module Framing: FramesIntact and HangsUpAtLimit for every  *)
(* number of connections and sends, all lengths, every tear and cut, every *)
(* limit below 2^32 and every number of values of a byte.                  *)
(*                                                                         *)
(* The invariant describes the bytes on a connection by where they stand   *)
(* in their frames (Contiguous), where the reader and the client are in    *)
(* them (Start, Current), and what a torn frame leaves (Torn).             *)
(***************************************************************************)
EXTENDS Framing, TLAPS

USE DEF PrefixLen

-----------------------------------------------------------------------------
(* The length prefix *)

\* Division by the number of values of a byte.
LEMMA Division ==
  ASSUME NEW b \in Nat \ {0, 1}, NEW n \in Nat
  PROVE  n \div b \in Nat /\ n % b \in Nat /\ n % b < b /\ (n \div b) * b + (n % b) = n
<1>1. n \div b \in Int /\ n % b \in Int /\ n % b >= 0 /\ n % b < b
      /\ b * (n \div b) + (n % b) = n
  OBVIOUS
<1>2. n \div b >= 0
  BY <1>1
<1>. QED
  BY <1>1, <1>2

\* A number of c * b is shifted to one below c.
LEMMA Quotient ==
  ASSUME NEW b \in Nat \ {0, 1}, NEW n \in Nat, NEW c \in Nat, n < c * b
  PROVE  n \div b < c
<1>. PICK q \in Nat : q = n \div b
  BY Division
<1>1. q * b <= n
  BY Division
<1>2. CASE q >= c
  <2>1. PICK e \in Nat : q = c + e
    <3>. q - c \in Nat
      BY <1>2
    <3>. QED
      OBVIOUS
  <2>2. q * b = c * b + e * b
    BY <2>1
  <2>3. e * b >= 0 /\ e * b \in Int /\ q * b \in Int /\ c * b \in Int
    OBVIOUS
  <2>. QED
    BY <2>2, <2>3, <1>1
<1>. QED
  BY <1>2

\* PutUint32 writes four bytes.
LEMMA Digits ==
  ASSUME NEW n \in Nat
  PROVE  \A j \in 1..4 : PutUint32(n)[j] \in Nat
<1>. USE BaseAssumption
<1>1. Shift(n) \in Nat /\ n % Base \in Nat
  BY Division DEF Shift
<1>2. Shift(Shift(n)) \in Nat /\ Shift(n) % Base \in Nat
  BY <1>1, Division DEF Shift
<1>3. Shift(Shift(Shift(n))) \in Nat /\ Shift(Shift(n)) % Base \in Nat
  BY <1>2, Division DEF Shift
<1>4. Shift(Shift(Shift(n))) % Base \in Nat
  BY <1>3, Division
<1>. QED
  BY <1>1, <1>2, <1>3, <1>4 DEF PutUint32

\* Uint32 reads back what PutUint32 wrote, for every length a uint32 holds.
LEMMA RoundTrip ==
  ASSUME NEW n \in Nat, n < Modulus, NEW b,
         \A j \in 1..4 : b[j].val = PutUint32(n)[j]
  PROVE  Uint32(b) = n
<1>. USE BaseAssumption
<1>. PICK B \in Nat \ {0, 1} : B = Base
  OBVIOUS
<1>1. PICK q1 \in Nat : q1 = Shift(n) /\ q1 * B + (n % B) = n
  BY Division DEF Shift
<1>2. PICK q2 \in Nat : q2 = Shift(q1) /\ q2 * B + (q1 % B) = q1
  BY Division DEF Shift
<1>3. PICK q3 \in Nat : q3 = Shift(q2) /\ q3 * B + (q2 % B) = q2
  BY Division DEF Shift
<1>4. q1 < B * B * B
  <2>1. B * B * B \in Nat /\ n < (B * B * B) * B
    BY DEF Modulus
  <2>. HIDE DEF Modulus
  <2>. PICK c \in Nat : c = B * B * B
    BY <2>1
  <2>. QED
    BY <1>1, <2>1, Quotient DEF Shift
<1>5. q2 < B * B
  <2>. PICK c \in Nat : c = B * B
    OBVIOUS
  <2>1. q1 < c * B
    BY <1>4
  <2>. QED
    BY <1>2, <2>1, Quotient DEF Shift
<1>6. q3 < B
  BY <1>3, <1>5, Quotient DEF Shift
<1>7. q3 % B = q3
  <2>1. q3 % B \in Nat /\ q3 % B < B /\ (q3 \div B) * B + (q3 % B) = q3 /\ q3 \div B \in Nat
    BY Division
  <2>2. q3 < 1 * B
    BY <1>6
  <2>3. q3 \div B < 1
    BY <2>2, Quotient
  <2>4. q3 \div B = 0
    BY <2>1, <2>3
  <2>. QED
    BY <2>1, <2>4
<1>8. /\ b[1].val = q3 /\ b[2].val = q2 % B
      /\ b[3].val = q1 % B /\ b[4].val = n % B
  <2>1. PutUint32(n) = <<q3, q2 % B, q1 % B, n % B>>
    BY <1>1, <1>2, <1>3, <1>7, Zenon DEF PutUint32
  <2>2. /\ b[1].val = PutUint32(n)[1] /\ b[2].val = PutUint32(n)[2]
        /\ b[3].val = PutUint32(n)[3] /\ b[4].val = PutUint32(n)[4]
    OBVIOUS
  <2>3. PICK d1, d2, d3, d4 : d1 = q3 /\ d2 = q2 % B /\ d3 = q1 % B /\ d4 = n % B
    OBVIOUS
  <2>4. PutUint32(n) = <<d1, d2, d3, d4>>
    BY <2>1, <2>3
  <2>. QED
    BY <2>2, <2>3, <2>4
<1>9. Uint32(b) = ((q3 * B + (q2 % B)) * B + (q1 % B)) * B + (n % B)
  BY <1>8 DEF Uint32
<1>. QED
  BY <1>1, <1>2, <1>3, <1>9

\* Whatever four bytes hold is a length.
LEMMA ReadsNat ==
  ASSUME NEW b, \A j \in 1..4 : b[j].val \in Nat
  PROVE  Uint32(b) \in Nat
<1>. PICK a1 \in Nat, a2 \in Nat, a3 \in Nat, a4 \in Nat :
       a1 = b[1].val /\ a2 = b[2].val /\ a3 = b[3].val /\ a4 = b[4].val
  OBVIOUS
<1>. PICK B \in Nat : B = Base
  BY BaseAssumption
<1>1. a1 * B + a2 \in Nat
  OBVIOUS
<1>2. (a1 * B + a2) * B + a3 \in Nat
  BY <1>1
<1>3. ((a1 * B + a2) * B + a3) * B + a4 \in Nat
  BY <1>2
<1>. QED
  BY <1>3 DEF Uint32

-----------------------------------------------------------------------------
(* Sequences *)

\* Append puts one element after the ones there are.
LEMMA AppendIs ==
  ASSUME NEW S, NEW s \in Seq(S), NEW x \in S
  PROVE  /\ Append(s, x) \in Seq(S) /\ Len(Append(s, x)) = Len(s) + 1
         /\ \A i \in 1..Len(s) : Append(s, x)[i] = s[i]
         /\ Append(s, x)[Len(s) + 1] = x
  OBVIOUS

\* Concatenation keeps both parts in order.
LEMMA CatIs ==
  ASSUME NEW S, NEW s \in Seq(S), NEW t \in Seq(S)
  PROVE  /\ s \o t \in Seq(S) /\ Len(s \o t) = Len(s) + Len(t)
         /\ \A i \in 1..Len(s) : (s \o t)[i] = s[i]
         /\ \A i \in 1..Len(t) : (s \o t)[Len(s) + i] = t[i]
  OBVIOUS

\* What is left of s when its first m elements are read
LEMMA DropIs ==
  ASSUME NEW S, NEW s \in Seq(S), NEW m \in 0..Len(s)
  PROVE  /\ SubSeq(s, m + 1, Len(s)) \in Seq(S)
         /\ Len(SubSeq(s, m + 1, Len(s))) = Len(s) - m
         /\ \A i \in 1..(Len(s) - m) : SubSeq(s, m + 1, Len(s))[i] = s[i + m]
  OBVIOUS

\* The first m elements of a sequence
LEMMA TakeIs ==
  ASSUME NEW S, NEW s \in Seq(S), NEW m \in 0..Len(s)
  PROVE  /\ SubSeq(s, 1, m) \in Seq(S)
         /\ Len(SubSeq(s, 1, m)) = m
         /\ \A i \in 1..m : SubSeq(s, 1, m)[i] = s[i]
  OBVIOUS

\* Sequences of one length with the same elements are equal.
LEMMA SameSeq ==
  ASSUME NEW S, NEW s \in Seq(S), NEW t \in Seq(S), Len(s) = Len(t),
         \A i \in 1..Len(s) : s[i] = t[i]
  PROVE  s = t
  OBVIOUS

-----------------------------------------------------------------------------
(* The inductive invariant *)

Byte == [of : Nat, at : Nat, val : Nat]
Length == Nat \ {0}
Stages == {"prefix", "body"} \cup Over

Typed ==
  /\ size \in Seq(Length)
  /\ dials \in 0..MaxDials /\ conn \in 0..dials
  /\ wire \in [Conns -> Seq(Byte)]
  /\ eof \in [Conns -> BOOLEAN]
  /\ reader \in [Conns -> Stages]
  /\ need \in [Conns -> Nat]
  /\ begun \in [Conns -> Seq(Nat)]
  /\ whole \in [Conns -> Nat]
  /\ got \in [Conns -> Seq(Nat)]

\* The envelopes begun on a connection were sent one after the other.
Successive(b, sz) ==
  \A i \in 1..Len(b) : b[i] \in 1..Len(sz) /\ b[i] = b[1] + (i - 1)

\* x is the byte of a frame that it says it is.
ByteOf(x, sz) ==
  /\ x.of \in 1..Len(sz)
  /\ x.at \in 1..(PrefixLen + sz[x.of])
  /\ x = encodeFrame(x.of, sz[x.of])[x.at]

\* On the wire are bytes of frames begun on the connection.
Bytes(w, b, sz) ==
  \A p \in 1..Len(w) : ByteOf(w[p], sz) /\ \E i \in 1..Len(b) : b[i] = w[p].of

\* After a byte come the rest of its frame and then the next frame.
Contiguous(w, sz) ==
  \A p, q \in 1..Len(w) :
    p <= q =>
      /\ w[p].at + (q - p) <= PrefixLen + sz[w[p].of] =>
           w[q].of = w[p].of /\ w[q].at = w[p].at + (q - p)
      /\ w[p].at + (q - p) = PrefixLen + sz[w[p].of] + 1 =>
           w[q].of = w[p].of + 1 /\ w[q].at = 1

\* The reader is at the prefix, or past the prefix, of the frame after the ones
\* it has decoded.
Start(w, b, r, g) ==
  Len(w) > 0 =>
    /\ Len(g) < Len(b)
    /\ w[1].of = b[Len(g) + 1]
    /\ r = "prefix" => w[1].at = 1
    /\ r = "body" => w[1].at = PrefixLen + 1

\* Of the frames begun only the last may be torn, and then its end is not on
\* the wire.
Torn(w, b, wh, sz) ==
  /\ wh <= Len(b) /\ Len(b) <= wh + 1
  /\ wh < Len(b) =>
       \A p \in 1..Len(w) :
         w[p].of = b[Len(b)] => w[p].at < PrefixLen + sz[w[p].of]

Decoded(b, wh, g, sz) ==
  /\ Len(g) <= wh
  /\ \A i \in 1..Len(g) : g[i] = b[i] /\ sz[b[i]] <= MaxMessageSize

\* The length the reader has read is the length of the frame it is in, unless
\* that is over the limit; it hung up in a frame that is.
Reading(b, r, nd, g, sz) ==
  /\ r = "body" =>
       /\ Len(g) < Len(b)
       /\ nd \in 1..MaxMessageSize
       /\ sz[b[Len(g) + 1]] <= MaxMessageSize => nd = sz[b[Len(g) + 1]]
  /\ r = "hungUp" => Len(g) < Len(b) /\ sz[b[Len(g) + 1]] > MaxMessageSize

Stream(w, b, wh, r, nd, g, sz) ==
  /\ Successive(b, sz) /\ Bytes(w, b, sz) /\ Contiguous(w, sz)
  /\ Start(w, b, r, g) /\ Torn(w, b, wh, sz)
  /\ Decoded(b, wh, g, sz) /\ Reading(b, r, nd, g, sz)
  /\ r \in Over => Len(w) = 0

\* The connection the client writes to ends with the last frame of all, in
\* full, or has been read to its end.
Current(w, b, wh, r, g, sz) ==
  /\ wh = Len(b)
  /\ Len(b) > 0 => b[Len(b)] = Len(sz)
  /\ r \notin Over =>
       /\ Len(w) = 0 => r = "prefix" /\ Len(g) = Len(b)
       /\ Len(w) > 0 => /\ w[Len(w)].of = Len(sz)
                        /\ w[Len(w)].at = PrefixLen + sz[Len(sz)]

Fresh(w, b, wh, r, g) ==
  /\ Len(w) = 0 /\ Len(b) = 0 /\ wh = 0 /\ Len(g) = 0 /\ r = "prefix"

FramingInv ==
  /\ Typed
  /\ \A k \in Conns :
       Stream(wire[k], begun[k], whole[k], reader[k], need[k], got[k], size)
  /\ conn # 0 =>
       Current(wire[conn], begun[conn], whole[conn], reader[conn], got[conn], size)
  /\ \A k \in Conns :
       k > dials =>
         Fresh(wire[k], begun[k], whole[k], reader[k], got[k]) /\ ~eof[k]

-----------------------------------------------------------------------------
(* What a write does to a connection *)

\* The bytes of a frame know their place in it.
LEMMA FrameIs ==
  ASSUME NEW i \in Nat, NEW n \in Length
  PROVE  /\ encodeFrame(i, n) \in Seq(Byte)
         /\ Len(encodeFrame(i, n)) = PrefixLen + n
         /\ \A j \in 1..(PrefixLen + n) :
              /\ encodeFrame(i, n)[j].of = i /\ encodeFrame(i, n)[j].at = j
              /\ j <= PrefixLen => encodeFrame(i, n)[j].val = PutUint32(n)[j]
<1>. PICK c \in Nat : c = PrefixLen + n
  BY DEF Length
<1>. DEFINE e(j) == [of |-> i, at |-> j,
                     val |-> IF j <= PrefixLen THEN PutUint32(n)[j] ELSE 1]
<1>1. encodeFrame(i, n) = [j \in 1..c |-> e(j)]
  BY DEF encodeFrame
<1>2. \A j \in 1..c : e(j) \in Byte
  <2>1. \A j \in 1..PrefixLen : PutUint32(n)[j] \in Nat
    BY Digits DEF Length
  <2>. QED
    BY <2>1 DEF Byte
<1>3. \A j \in 1..c : /\ e(j).of = i /\ e(j).at = j
                      /\ j <= PrefixLen => e(j).val = PutUint32(n)[j]
  OBVIOUS
<1>. HIDE DEF e
<1>. QED
  BY <1>1, <1>2, <1>3

\* The first four bytes of a frame are the length of its body.
LEMMA PrefixOf ==
  ASSUME NEW i \in Nat, NEW n \in Length, NEW j \in 1..4
  PROVE  encodeFrame(i, n)[j].val = PutUint32(n)[j]
<1>. j \in 1..(PrefixLen + n) /\ j <= PrefixLen
  BY DEF Length
<1>. QED
  BY FrameIs

\* z is s and x after it; v is w and f after it; f is a part of a frame.
Extends(z, s, x) ==
  Len(z) = Len(s) + 1 /\ z[Len(s) + 1] = x /\ \A i \in 1..Len(s) : z[i] = s[i]

Joins(v, w, f) ==
  /\ Len(v) = Len(w) + Len(f)
  /\ \A i \in 1..Len(w) : v[i] = w[i]
  /\ \A i \in 1..Len(f) : v[Len(w) + i] = f[i]

PartOf(f, i, n) ==
  /\ Len(f) <= PrefixLen + n
  /\ \A j \in 1..Len(f) : f[j] = encodeFrame(i, n)[j]

\* What is already on a connection keeps its meaning when another envelope is
\* sent.
LEMMA SendKeeps ==
  ASSUME NEW w \in Seq(Byte), NEW b \in Seq(Nat), NEW wh \in Nat, NEW r \in Stages,
         NEW nd \in Nat, NEW g \in Seq(Nat), NEW sz \in Seq(Length),
         NEW z \in Seq(Length), NEW n \in Length,
         Extends(z, sz, n), Stream(w, b, wh, r, nd, g, sz)
  PROVE  Stream(w, b, wh, r, nd, g, z)
<1>1. Len(z) = Len(sz) + 1 /\ \A i \in 1..Len(sz) : z[i] = sz[i]
  BY DEF Extends
<1>2. Successive(b, z) /\ \A i \in 1..Len(b) : z[b[i]] = sz[b[i]]
  <2>1. \A i \in 1..Len(b) : b[i] \in 1..Len(sz) /\ b[i] = b[1] + (i - 1)
    BY DEF Stream, Successive
  <2>2. \A x \in 1..Len(sz) : x \in 1..Len(z) /\ z[x] = sz[x]
    BY <1>1
  <2>. QED
    BY <2>1, <2>2, Zenon DEF Successive
<1>3. \A p \in 1..Len(w) : w[p].of \in 1..Len(sz) /\ z[w[p].of] = sz[w[p].of]
  BY <1>1 DEF Stream, Bytes, ByteOf
<1>4. Bytes(w, b, z)
  <2>. SUFFICES ASSUME NEW p \in 1..Len(w)  PROVE ByteOf(w[p], z)
    BY DEF Stream, Bytes
  <2>1. ByteOf(w[p], sz) /\ z[w[p].of] = sz[w[p].of]
    BY <1>3 DEF Stream, Bytes
  <2>2. w[p].of \in 1..Len(z)
    BY <1>1, <1>3
  <2>. QED
    BY <2>1, <2>2, Zenon DEF ByteOf
<1>5. Contiguous(w, z)
  BY <1>3 DEF Stream, Contiguous
<1>6. Torn(w, b, wh, z)
  BY <1>3 DEF Stream, Torn
<1>7. Decoded(b, wh, g, z)
  <2>1. \A i \in 1..Len(g) : i \in 1..Len(b)
    BY DEF Stream, Decoded, Torn
  <2>. QED
    BY <1>2, <2>1 DEF Stream, Decoded
<1>8. Reading(b, r, nd, g, z)
  <2>1. Len(g) < Len(b) => Len(g) + 1 \in 1..Len(b)
    OBVIOUS
  <2>2. Len(g) < Len(b) => z[b[Len(g) + 1]] = sz[b[Len(g) + 1]]
    BY <1>2, <2>1, Zenon
  <2>. QED
    BY <2>2, Zenon DEF Stream, Reading
<1>. QED
  BY <1>2, <1>4, <1>5, <1>6, <1>7, <1>8 DEF Stream

\* The next envelope succeeds the last one begun.
LEMMA SuccessiveGrows ==
  ASSUME NEW b \in Seq(Nat), NEW c \in Seq(Nat), NEW sz \in Seq(Length),
         NEW z \in Seq(Length), NEW n \in Length,
         Extends(z, sz, n), Extends(c, b, Len(sz) + 1), Successive(b, sz),
         Len(b) > 0 => b[Len(b)] = Len(sz)
  PROVE  Successive(c, z)
<1>. PICK lb \in Nat, N \in Nat : lb = Len(b) /\ N = Len(sz)
  OBVIOUS
<1>1. Len(c) = lb + 1 /\ c[lb + 1] = N + 1 /\ \A i \in 1..lb : c[i] = b[i]
  BY DEF Extends
<1>2. \A i \in 1..lb : b[i] \in 1..N /\ b[i] = b[1] + (i - 1)
  BY DEF Successive
<1>3. lb > 0 => N + 1 = b[1] + lb
  <2>. SUFFICES ASSUME lb > 0  PROVE N + 1 = b[1] + lb
    OBVIOUS
  <2>1. lb \in 1..lb /\ 1 \in 1..lb
    OBVIOUS
  <2>2. b[lb] = N /\ b[lb] = b[1] + (lb - 1) /\ b[1] \in Nat
    BY <2>1, <1>2
  <2>. QED
    BY <2>2
<1>4. \A i \in 1..(lb + 1) : i \in 1..lb \/ i = lb + 1
  OBVIOUS
<1>5. Len(z) = N + 1
  BY DEF Extends
<1>6. ASSUME NEW i \in 1..(lb + 1)
      PROVE  c[i] \in 1..(N + 1) /\ c[i] = c[1] + (i - 1)
  <2>1. CASE lb = 0
    BY <2>1, <1>1
  <2>2. CASE lb > 0 /\ i \in 1..lb
    <3>. 1 \in 1..lb
      BY <2>2
    <3>. QED
      BY <2>2, <1>1, <1>2
  <2>3. CASE lb > 0 /\ i = lb + 1
    <3>. 1 \in 1..lb
      BY <2>3
    <3>. QED
      BY <2>3, <1>1, <1>2, <1>3
  <2>. QED
    BY <2>1, <2>2, <2>3, <1>4
<1>. QED
  BY <1>1, <1>5, <1>6 DEF Successive

\* The bytes of the new frame, by their place on the wire.
LEMMA NewBytes ==
  ASSUME NEW w \in Seq(Byte), NEW v \in Seq(Byte), NEW f \in Seq(Byte),
         NEW n \in Length, NEW N \in Nat, Joins(v, w, f), PartOf(f, N, n),
         NEW p \in 1..Len(v), p \notin 1..Len(w)
  PROVE  v[p].of = N /\ v[p].at = p - Len(w)
<1>. PICK lw \in Nat, lf \in Nat : lw = Len(w) /\ lf = Len(f)
  OBVIOUS
<1>1. p - lw \in 1..lf /\ p = lw + (p - lw)
  BY DEF Joins
<1>2. PICK j \in 1..lf : p = lw + j /\ j = p - lw
  BY <1>1
<1>3. v[p] = f[j] /\ f[j] = encodeFrame(N, n)[j] /\ j \in 1..(PrefixLen + n)
  BY <1>2 DEF Joins, PartOf, Length
<1>4. encodeFrame(N, n)[j].of = N /\ encodeFrame(N, n)[j].at = j
  BY <1>3, FrameIs
<1>. QED
  BY <1>2, <1>3, <1>4

\* The new bytes are bytes of the new frame.
LEMMA BytesGrow ==
  ASSUME NEW w \in Seq(Byte), NEW v \in Seq(Byte), NEW f \in Seq(Byte),
         NEW b \in Seq(Nat), NEW c \in Seq(Nat), NEW n \in Length,
         NEW z \in Seq(Length), NEW N \in Nat, N = Len(z), N > 0, z[N] = n,
         Extends(c, b, N), Joins(v, w, f), PartOf(f, N, n), Bytes(w, b, z)
  PROVE  Bytes(v, c, z)
<1>. PICK lw \in Nat, lf \in Nat, lb \in Nat : lw = Len(w) /\ lf = Len(f) /\ lb = Len(b)
  OBVIOUS
<1>1. Len(c) = lb + 1 /\ c[lb + 1] = N /\ \A i \in 1..lb : c[i] = b[i]
  BY DEF Extends
<1>. SUFFICES ASSUME NEW p \in 1..(lw + lf)
              PROVE  ByteOf(v[p], z) /\ \E i \in 1..(lb + 1) : c[i] = v[p].of
  BY <1>1 DEF Bytes, Joins
<1>2. CASE p \in 1..lw
  <2>1. v[p] = w[p]
    BY <1>2 DEF Joins
  <2>2. ByteOf(w[p], z)
    BY <1>2 DEF Bytes
  <2>3. PICK i \in 1..lb : b[i] = w[p].of
    BY <1>2 DEF Bytes
  <2>4. i \in 1..(lb + 1) /\ c[i] = b[i]
    BY <1>1
  <2>. QED
    BY <2>1, <2>2, <2>3, <2>4, Zenon
<1>3. CASE p \notin 1..lw
  <2>1. PICK j \in 1..lf : p = lw + j
    <3>. p - lw \in 1..lf /\ p = lw + (p - lw)
      BY <1>3
    <3>. QED
      OBVIOUS
  <2>2. v[p] = f[j] /\ f[j] = encodeFrame(N, n)[j] /\ j \in 1..(PrefixLen + n)
    BY <2>1 DEF Joins, PartOf, Length
  <2>3. p \in 1..Len(v) /\ p \notin 1..Len(w) /\ j = p - Len(w)
    BY <1>3, <2>1 DEF Joins
  <2>4. v[p].of = N /\ v[p].at = j
    BY <2>3, NewBytes
  <2>5. N \in 1..Len(z) /\ lb + 1 \in 1..(lb + 1)
    OBVIOUS
  <2>6. ByteOf(v[p], z)
    BY <2>2, <2>4, <2>5, Zenon DEF ByteOf
  <2>. QED
    BY <2>4, <2>5, <2>6, <1>1, Zenon
<1>. QED
  BY <1>2, <1>3

\* The last byte on the wire is the last one of frame i.
EndsWith(w, i, sz) ==
  Len(w) > 0 => w[Len(w)].of = i /\ w[Len(w)].at = PrefixLen + sz[i]

\* The new frame follows the end of the last one.
LEMMA ContiguousGrows ==
  ASSUME NEW w \in Seq(Byte), NEW v \in Seq(Byte), NEW f \in Seq(Byte),
         NEW b, NEW n \in Length, NEW sz \in Seq(Length), NEW z \in Seq(Length),
         Extends(z, sz, n), NEW N \in Nat, N = Len(sz),
         Joins(v, w, f), PartOf(f, N + 1, n), Bytes(w, b, z), Contiguous(w, z),
         EndsWith(w, N, z)
  PROVE  Contiguous(v, z)
<1>. PICK lw \in Nat, lv \in Nat : lw = Len(w) /\ lv = Len(v)
  OBVIOUS
<1>1. lw <= lv /\ \A p \in 1..lw : p \in 1..lv /\ v[p] = w[p]
  BY DEF Joins
<1>2. \A p \in 1..lw : w[p].of \in Nat /\ w[p].at \in Nat /\ z[w[p].of] \in Nat
  <2>1. \A p \in 1..lw : w[p] \in Byte /\ w[p].of \in 1..Len(z)
    BY DEF Bytes, ByteOf
  <2>2. \A x \in 1..Len(z) : z[x] \in Nat
    BY DEF Length
  <2>. QED
    BY <2>1, <2>2 DEF Byte
<1>3. \A p \in 1..lv : p \notin 1..lw => v[p].of = N + 1 /\ v[p].at = p - lw
  BY NewBytes
<1>. SUFFICES ASSUME NEW p \in 1..lv, NEW q \in 1..lv, p <= q
              PROVE  /\ v[p].at + (q - p) <= PrefixLen + z[v[p].of] =>
                          v[q].of = v[p].of /\ v[q].at = v[p].at + (q - p)
                     /\ v[p].at + (q - p) = PrefixLen + z[v[p].of] + 1 =>
                          v[q].of = v[p].of + 1 /\ v[q].at = 1
  BY DEF Contiguous
<1>4. CASE q \in 1..lw
  <2>. p \in 1..lw
    BY <1>4
  <2>1. v[p] = w[p] /\ v[q] = w[q]
    BY <1>1, <1>4
  <2>. QED
    BY <1>4, <2>1 DEF Contiguous
<1>5. CASE p \notin 1..lw
  <2>. q \notin 1..lw
    BY <1>5
  <2>1. v[p].of = N + 1 /\ v[p].at = p - lw /\ v[q].of = N + 1 /\ v[q].at = q - lw
    BY <1>3, <1>5, Zenon
  <2>2. q - lw <= PrefixLen + n
    BY <1>5 DEF Joins, PartOf, Length
  <2>3. PICK x, y, l : x = v[p].of /\ y = v[p].at /\ l = PrefixLen + z[v[p].of]
    OBVIOUS
  <2>4. z[v[p].of] = n
    BY <2>1 DEF Extends
  <2>5. x = N + 1 /\ y = p - lw /\ l = PrefixLen + n
    BY <2>1, <2>3, <2>4, Zenon
  <2>6. PrefixLen + n \in Nat
    BY DEF Length
  <2>7. /\ y + (q - p) <= l => v[q].of = x /\ v[q].at = y + (q - p)
        /\ y + (q - p) # l + 1
    BY <1>5, <2>1, <2>2, <2>5, <2>6
  <2>. QED
    BY <2>3, <2>7
<1>6. CASE p \in 1..lw /\ q \notin 1..lw
  <2>1. v[q].of = N + 1 /\ v[q].at = q - lw /\ v[p] = w[p]
    BY <1>1, <1>3, <1>6
  <2>2. lw \in 1..lw /\ p <= lw
    BY <1>6
  <2>3. w[p].at + (lw - p) <= PrefixLen + z[w[p].of] =>
          w[lw].of = w[p].of /\ w[lw].at = w[p].at + (lw - p)
    BY <1>6, <2>2 DEF Contiguous
  <2>4. w[lw].of = N /\ w[lw].at = PrefixLen + z[N]
    BY <2>2 DEF EndsWith
  <2>5. PICK a \in Nat, o \in Nat, l \in Nat :
          a = w[p].at /\ o = w[p].of /\ l = PrefixLen + z[w[p].of]
    <3>1. w[p].of \in Nat /\ w[p].at \in Nat /\ z[w[p].of] \in Nat
      BY <1>2, <1>6
    <3>2. \A x \in Nat : PrefixLen + x \in Nat
      OBVIOUS
    <3>. QED
      BY <3>1, <3>2, Zenon
  <2>6. a + (lw - p) <= l => N = o /\ l = a + (lw - p)
    BY <2>3, <2>4, <2>5
  <2>7. /\ a + (q - p) <= l => v[q].of = o /\ v[q].at = a + (q - p)
        /\ a + (q - p) = l + 1 => v[q].of = o + 1 /\ v[q].at = 1
    <3>1. PICK d \in Int, e \in Int :
            d = a + (q - p) /\ e = a + (lw - p) /\ q - lw = d - e /\ d > e
      <4>1. q > lw
        BY <1>6
      <4>2. a + (q - p) \in Int /\ a + (lw - p) \in Int
        OBVIOUS
      <4>3. /\ q - lw = (a + (q - p)) - (a + (lw - p))
            /\ a + (q - p) > a + (lw - p)
        BY <4>1
      <4>. QED
        BY <4>2, <4>3, Zenon
    <3>2. e <= l => N = o /\ l = e
      BY <2>6, <3>1
    <3>3. d > l
      BY <3>1, <3>2
    <3>4. d = l + 1 => N = o /\ d - e = 1
      <4>. d > e
        BY <3>1
      <4>. QED
        BY <3>2
    <3>5. d = l + 1 => N + 1 = o + 1 /\ q - lw = 1
      BY <3>1, <3>4, Zenon
    <3>. QED
      BY <2>1, <3>1, <3>3, <3>5
  <2>. QED
    BY <2>1, <2>5, <2>7
<1>. QED
  BY <1>4, <1>5, <1>6

\* What the reader has decoded and is reading does not change with a frame begun.
LEMMA ReadingKept ==
  ASSUME NEW b \in Seq(Nat), NEW c \in Seq(Nat), NEW N \in Nat, Extends(c, b, N),
         NEW wh \in Nat, NEW r \in Stages, NEW nd \in Nat, NEW g \in Seq(Nat),
         NEW z, Decoded(b, wh, g, z), wh = Len(b), Reading(b, r, nd, g, z)
  PROVE  Decoded(c, wh, g, z) /\ Decoded(c, wh + 1, g, z) /\ Reading(c, r, nd, g, z)
<1>. Len(b) \in Nat /\ Len(g) \in Nat
  OBVIOUS
<1>. PICK lb \in Nat, lg \in Nat : lb = Len(b) /\ lg = Len(g)
  BY Zenon
<1>1. Len(c) = lb + 1 /\ \A i \in 1..lb : c[i] = b[i]
  BY DEF Extends
<1>2. lg <= lb /\ \A i \in 1..lg : i \in 1..lb /\ c[i] = b[i]
  <2>1. lg <= lb
    BY DEF Decoded
  <2>2. \A i \in 1..lg : i \in 1..lb
    BY <2>1
  <2>. QED
    BY <2>1, <2>2, <1>1, Zenon
<1>3. lg < lb => lg < lb + 1 /\ c[lg + 1] = b[lg + 1]
  BY <1>1
<1>4. Decoded(c, wh, g, z) /\ Decoded(c, wh + 1, g, z)
  BY <1>2 DEF Decoded
<1>5. Reading(c, r, nd, g, z)
  BY <1>1, <1>3, Zenon DEF Reading
<1>. QED
  BY <1>4, <1>5

\* The place after the last one taken is a place.
LEMMA Within ==
  \A x, y \in Nat : x < y => x + 1 \in 1..y /\ x < y + 1
  OBVIOUS

\* The client writes the next frame, or the first part of it, to a connection
\* that is read: nothing of it goes missing.
LEMMA Written ==
  ASSUME NEW w \in Seq(Byte), NEW v \in Seq(Byte), NEW f \in Seq(Byte),
         NEW b \in Seq(Nat), NEW c \in Seq(Nat), NEW sz \in Seq(Length),
         NEW z \in Seq(Length), NEW n \in Length, NEW wh \in Nat,
         NEW r \in Stages \ Over, NEW nd \in Nat, NEW g \in Seq(Nat),
         Stream(w, b, wh, r, nd, g, sz), Current(w, b, wh, r, g, sz),
         Extends(z, sz, n), Extends(c, b, Len(sz) + 1),
         Joins(v, w, f), PartOf(f, Len(sz) + 1, n)
  PROVE  /\ Len(f) < PrefixLen + n => Stream(v, c, wh, r, nd, g, z)
         /\ Len(f) = PrefixLen + n => Stream(v, c, wh + 1, r, nd, g, z)
                                      /\ Current(v, c, wh + 1, r, g, z)
<1>. /\ Len(sz) \in Nat /\ Len(w) \in Nat /\ Len(v) \in Nat /\ Len(f) \in Nat
     /\ Len(b) \in Nat /\ Len(g) \in Nat /\ PrefixLen + n \in Nat /\ Len(sz) + 1 \in Nat
  BY DEF Length
<1>. PICK N \in Nat, lw \in Nat, lv \in Nat, lf \in Nat, lb \in Nat, lg \in Nat, L \in Nat :
       /\ N = Len(sz) /\ lw = Len(w) /\ lv = Len(v) /\ lf = Len(f)
       /\ lb = Len(b) /\ lg = Len(g) /\ L = PrefixLen + n
  BY Zenon
<1>1. /\ Len(z) = N + 1 /\ z[N + 1] = n /\ \A i \in 1..N : z[i] = sz[i]
  BY DEF Extends
<1>2. Len(c) = lb + 1 /\ c[lb + 1] = N + 1 /\ \A i \in 1..lb : c[i] = b[i]
  BY DEF Extends
<1>3. lv = lw + lf /\ lf <= L /\ \A p \in 1..lw : v[p] = w[p]
  BY DEF Joins, PartOf
<1>4. Stream(w, b, wh, r, nd, g, z)
  BY SendKeeps
<1>5. \A p \in 1..lv : p \notin 1..lw => v[p].of = N + 1 /\ v[p].at = p - lw
  <2>. PICK M \in Nat : M = Len(sz) + 1
    BY Zenon
  <2>1. PartOf(f, M, n)
    OBVIOUS
  <2>2. \A p \in 1..lv : p \notin 1..lw => v[p].of = M /\ v[p].at = p - lw
    BY <2>1, NewBytes
  <2>. QED
    BY <2>2
<1>6. wh = lb /\ (lb > 0 => b[lb] = N)
  BY DEF Current
<1>7. Successive(c, z)
  BY <1>6, SuccessiveGrows DEF Stream
<1>8. Bytes(v, c, z)
  <2>1. Bytes(w, b, z) /\ N + 1 = Len(z) /\ N + 1 > 0 /\ z[N + 1] = n /\ N + 1 \in Nat
    BY <1>1, <1>4 DEF Stream
  <2>. QED
    BY <2>1, BytesGrow
<1>9. lw > 0 => w[lw].of = N /\ w[lw].at = PrefixLen + z[N] /\ N \in 1..N
  <2>. SUFFICES ASSUME lw > 0
                PROVE  w[lw].of = N /\ w[lw].at = PrefixLen + z[N] /\ N \in 1..N
    OBVIOUS
  <2>1. w[lw].of = N /\ w[lw].at = PrefixLen + sz[N]
    BY DEF Current
  <2>2. w[lw].of \in 1..N
    BY lw \in 1..lw DEF Stream, Bytes, ByteOf
  <2>. QED
    BY <2>1, <2>2, <1>1
<1>10. Contiguous(v, z)
  <2>1. Bytes(w, b, z) /\ Contiguous(w, z)
    BY <1>4 DEF Stream
  <2>2. EndsWith(w, N, z)
    BY <1>9, Zenon DEF EndsWith
  <2>. QED
    BY <2>1, <2>2, ContiguousGrows
<1>11. Start(v, c, r, g)
  <2>1. CASE lw > 0
    <3>. 1 \in 1..lw
      BY <2>1
    <3>1. v[1] = w[1]
      BY <1>3
    <3>2. /\ lg < lb /\ w[1].of = b[lg + 1]
          /\ r = "prefix" => w[1].at = 1
          /\ r = "body" => w[1].at = PrefixLen + 1
      BY <2>1, Zenon DEF Stream, Start
    <3>3. lg + 1 \in 1..lb /\ lg < Len(c)
      <4>. lg < lb /\ Len(c) = lb + 1
        BY <3>2, <1>2, Zenon
      <4>. QED
        BY Within, Zenon
    <3>4. c[lg + 1] = b[lg + 1]
      BY <3>3, <1>2
    <3>. QED
      BY <3>1, <3>2, <3>3, <3>4, Zenon DEF Start
  <2>2. CASE lw = 0 /\ lf > 0
    <3>1. 1 \in 1..lv /\ 1 \notin 1..lw
      BY <2>2, <1>3
    <3>2. v[1].of = N + 1 /\ v[1].at = 1
      BY <2>2, <3>1, <1>5
    <3>3. r = "prefix" /\ lg = lb
      BY <2>2 DEF Current
    <3>. QED
      BY <3>2, <3>3, <1>2 DEF Start
  <2>3. CASE lw = 0 /\ lf = 0
    BY <2>3, <1>3 DEF Start
  <2>. QED
    BY <2>1, <2>2, <2>3
<1>12. Torn(v, c, wh + 1, z)
  BY <1>2, <1>6 DEF Torn
<1>13. lf < L => Torn(v, c, wh, z)
  <2>1. ASSUME lf < L, NEW p \in 1..lv, v[p].of = N + 1
        PROVE  v[p].at < PrefixLen + z[v[p].of]
    <3>1. p \notin 1..lw
      <4>. SUFFICES ASSUME p \in 1..lw  PROVE FALSE
        OBVIOUS
      <4>1. v[p] = w[p] /\ w[p].of \in 1..N
        BY <1>3 DEF Stream, Bytes, ByteOf
      <4>. QED
        BY <4>1, <2>1
    <3>2. v[p].at = p - lw /\ PrefixLen + z[v[p].of] = L
      BY <2>1, <3>1, <1>1, <1>5
    <3>. QED
      BY <2>1, <3>1, <3>2, <1>3
  <2>. QED
    BY <2>1, <1>2, <1>6 DEF Torn
<1>14. Decoded(c, wh, g, z) /\ Decoded(c, wh + 1, g, z) /\ Reading(c, r, nd, g, z)
  <2>. N + 1 \in Nat
    OBVIOUS
  <2>. QED
    BY <1>4, <1>6, ReadingKept DEF Stream
<1>15. lf = L => Current(v, c, wh + 1, r, g, z)
  <2>. SUFFICES ASSUME lf = L  PROVE Current(v, c, wh + 1, r, g, z)
    OBVIOUS
  <2>1. lv > 0 /\ lv \in 1..lv /\ lv \notin 1..lw /\ lv - lw = L
    <3>1. PICK x \in Nat, y \in Nat, l \in Nat : x = lw /\ y = lv /\ l = L
      OBVIOUS
    <3>2. y = x + l /\ l > 0
      BY <3>1, <1>3 DEF Length
    <3>3. y > 0 /\ y \in 1..y /\ y \notin 1..x /\ y - x = l
      BY <3>2
    <3>. QED
      BY <3>1, <3>3, Zenon
  <2>2. v[lv].of = N + 1 /\ v[lv].at = L
    BY <2>1, <1>5
  <2>3. L = PrefixLen + z[N + 1]
    BY <1>1
  <2>. QED
    BY <2>1, <2>2, <2>3, <1>1, <1>2, <1>6 DEF Current
<1>. QED
  BY <1>7, <1>8, <1>10, <1>11, <1>12, <1>13, <1>14, <1>15 DEF Stream

\* The client writes to a connection the gateway has left: the bytes are lost,
\* and no frame is decoded any more.
LEMMA Unread ==
  ASSUME NEW w \in Seq(Byte), NEW b \in Seq(Nat), NEW c \in Seq(Nat),
         NEW sz \in Seq(Length), NEW z \in Seq(Length), NEW n \in Length,
         NEW wh \in Nat, NEW r \in Over, NEW nd \in Nat, NEW g \in Seq(Nat),
         Stream(w, b, wh, r, nd, g, sz), Current(w, b, wh, r, g, sz),
         Extends(z, sz, n), Extends(c, b, Len(sz) + 1)
  PROVE  /\ Stream(w, c, wh, r, nd, g, z)
         /\ Stream(w, c, wh + 1, r, nd, g, z)
         /\ Current(w, c, wh + 1, r, g, z)
<1>. PICK N \in Nat, lb \in Nat : N = Len(sz) /\ lb = Len(b)
  OBVIOUS
<1>. r \in Stages
  BY DEF Stages
<1>1. Stream(w, b, wh, r, nd, g, z)
  BY SendKeeps
<1>2. Len(w) = 0 /\ wh = lb /\ (lb > 0 => b[lb] = N)
  BY DEF Stream, Current
<1>3. Len(z) = N + 1 /\ Len(c) = lb + 1 /\ c[lb + 1] = N + 1
  BY DEF Extends
<1>4. Successive(c, z)
  BY <1>2, SuccessiveGrows DEF Stream
<1>5. Bytes(w, c, z) /\ Contiguous(w, z) /\ Start(w, c, r, g)
      /\ Torn(w, c, wh, z) /\ Torn(w, c, wh + 1, z)
  BY <1>2, <1>3 DEF Bytes, Contiguous, Start, Torn
<1>6. Decoded(c, wh, g, z) /\ Decoded(c, wh + 1, g, z) /\ Reading(c, r, nd, g, z)
  <2>. N + 1 \in Nat
    OBVIOUS
  <2>. QED
    BY <1>1, <1>2, ReadingKept DEF Stream
<1>7. Current(w, c, wh + 1, r, g, z)
  BY <1>2, <1>3 DEF Current
<1>. QED
  BY <1>2, <1>4, <1>5, <1>6, <1>7 DEF Stream

-----------------------------------------------------------------------------
(* What a read does to a connection *)

\* v is w without its first m elements.
Drops(v, w, m) ==
  Len(w) = Len(v) + m /\ \A i \in 1..Len(v) : v[i] = w[i + m]

\* What is left on the wire has its order.
LEMMA DropKeeps ==
  ASSUME NEW w \in Seq(Byte), NEW v \in Seq(Byte), NEW m \in Nat, Drops(v, w, m),
         NEW b \in Seq(Nat), NEW wh \in Nat, NEW sz \in Seq(Length),
         Bytes(w, b, sz), Contiguous(w, sz), Torn(w, b, wh, sz)
  PROVE  Bytes(v, b, sz) /\ Contiguous(v, sz) /\ Torn(v, b, wh, sz)
<1>. PICK lw \in Nat, lv \in Nat : lw = Len(w) /\ lv = Len(v)
  OBVIOUS
<1>1. lw = lv + m /\ \A i \in 1..lv : i + m \in 1..lw /\ v[i] = w[i + m]
  BY DEF Drops
<1>2. Bytes(v, b, sz)
  BY <1>1, Zenon DEF Bytes
<1>3. Contiguous(v, sz)
  <2>. SUFFICES ASSUME NEW p \in 1..lv, NEW q \in 1..lv, p <= q
                PROVE  /\ v[p].at + (q - p) <= PrefixLen + sz[v[p].of] =>
                            v[q].of = v[p].of /\ v[q].at = v[p].at + (q - p)
                       /\ v[p].at + (q - p) = PrefixLen + sz[v[p].of] + 1 =>
                            v[q].of = v[p].of + 1 /\ v[q].at = 1
    BY DEF Contiguous
  <2>1. PICK i \in 1..lw, j \in 1..lw : i = p + m /\ j = q + m
    BY <1>1
  <2>2. i <= j /\ j - i = q - p /\ v[p] = w[i] /\ v[q] = w[j]
    BY <2>1, <1>1
  <2>3. /\ w[i].at + (j - i) <= PrefixLen + sz[w[i].of] =>
             w[j].of = w[i].of /\ w[j].at = w[i].at + (j - i)
        /\ w[i].at + (j - i) = PrefixLen + sz[w[i].of] + 1 =>
             w[j].of = w[i].of + 1 /\ w[j].at = 1
    BY <2>2 DEF Contiguous
  <2>. QED
    BY <2>2, <2>3, Zenon
<1>4. Torn(v, b, wh, sz)
  BY <1>1, Zenon DEF Torn
<1>. QED
  BY <1>2, <1>3, <1>4

\* The wire begins with byte a of frame i: the rest of the frame comes next, and
\* then the first byte of the next frame.
Opens(w, sz, i, a) ==
  /\ i \in 1..Len(sz)
  /\ \A q \in 1..Len(w) :
       /\ q <= PrefixLen + sz[i] - a + 1 =>
            /\ w[q].of = i /\ w[q].at = a + q - 1
            /\ w[q] = encodeFrame(i, sz[i])[a + q - 1]
       /\ q = PrefixLen + sz[i] - a + 2 => w[q].of = i + 1 /\ w[q].at = 1

\* So it does with whatever byte it begins.
LEMMA FirstFrame ==
  ASSUME NEW w \in Seq(Byte), NEW b, NEW sz \in Seq(Length),
         Bytes(w, b, sz), Contiguous(w, sz), Len(w) > 0
  PROVE  Opens(w, sz, w[1].of, w[1].at)
<1>1. 1 \in 1..Len(w) /\ \A q \in 1..Len(w) : 1 <= q
  OBVIOUS
<1>2. w[1].of \in 1..Len(sz) /\ w[1] \in Byte
  BY <1>1 DEF Bytes, ByteOf
<1>3. PICK i \in Nat, a \in Nat, l \in Nat : i = w[1].of /\ a = w[1].at /\ l = sz[i]
  <2>1. sz[w[1].of] \in Nat
    BY <1>2 DEF Length
  <2>. QED
    BY <1>2, <2>1 DEF Byte
<1>. SUFFICES ASSUME NEW q \in 1..Len(w)
              PROVE  /\ q <= PrefixLen + l - a + 1 =>
                          /\ w[q].of = i /\ w[q].at = a + q - 1
                          /\ w[q] = encodeFrame(i, l)[a + q - 1]
                     /\ q = PrefixLen + l - a + 2 => w[q].of = i + 1 /\ w[q].at = 1
  BY <1>2, <1>3, Zenon DEF Opens
<1>4. /\ a + (q - 1) <= PrefixLen + l => w[q].of = i /\ w[q].at = a + (q - 1)
      /\ a + (q - 1) = PrefixLen + l + 1 => w[q].of = i + 1 /\ w[q].at = 1
  BY <1>1, <1>3, Zenon DEF Contiguous
<1>5. w[q] = encodeFrame(w[q].of, sz[w[q].of])[w[q].at]
  BY DEF Bytes, ByteOf
<1>6. /\ q <= PrefixLen + l - a + 1 => a + (q - 1) <= PrefixLen + l
      /\ q = PrefixLen + l - a + 2 => a + (q - 1) = PrefixLen + l + 1
      /\ a + (q - 1) = a + q - 1
  OBVIOUS
<1>. QED
  BY <1>3, <1>4, <1>5, <1>6, Zenon

\* The reader reads the prefix: it finds the length of the frame, or one that
\* shows that the frame is over the limit, or one within the limit of a frame
\* far over it.
LEMMA PrefixRead ==
  ASSUME NEW w \in Seq(Byte), NEW b \in Seq(Nat), NEW wh \in Nat, NEW nd \in Nat,
         NEW g \in Seq(Nat), NEW sz \in Seq(Length), PrefixLen <= Len(w),
         Stream(w, b, wh, "prefix", nd, g, sz),
         NEW n, n = Uint32(SubSeq(w, 1, PrefixLen))
  PROVE  /\ n \in Nat /\ Len(g) < Len(b)
         /\ BadLength(n) => sz[b[Len(g) + 1]] > MaxMessageSize
         /\ ~BadLength(n) =>
              /\ n \in 1..MaxMessageSize
              /\ sz[b[Len(g) + 1]] <= MaxMessageSize => n = sz[b[Len(g) + 1]]
<1>1. PICK i : i = w[1].of /\ i = b[Len(g) + 1] /\ w[1].at = 1 /\ Len(g) < Len(b)
  BY DEF Stream, Start
<1>2. Opens(w, sz, i, 1)
  <2>1. Len(w) > 0 /\ Bytes(w, b, sz) /\ Contiguous(w, sz)
    BY DEF Stream
  <2>. QED
    BY <2>1, <1>1, FirstFrame
<1>3. i \in 1..Len(sz)
  BY <1>2 DEF Opens
<1>4. PICK m \in Length : m = sz[i]
  BY <1>3
<1>5. \A j \in 1..4 : w[j].val = PutUint32(m)[j]
  <2>. SUFFICES ASSUME NEW j \in 1..4  PROVE w[j].val = PutUint32(m)[j]
    OBVIOUS
  <2>1. /\ j \in 1..Len(w) /\ 1 + j - 1 = j /\ j \in 1..(PrefixLen + m) /\ j <= PrefixLen
        /\ j <= PrefixLen + m - 1 + 1
    BY DEF Length
  <2>2. w[j] = encodeFrame(i, m)[j]
    BY <1>2, <1>4, <2>1 DEF Opens
  <2>3. i \in Nat
    BY <1>3
  <2>4. encodeFrame(i, m)[j].val = PutUint32(m)[j]
    BY <2>3, PrefixOf, Zenon
  <2>. QED
    BY <2>2, <2>4
<1>. PICK x : x = SubSeq(w, 1, PrefixLen)
  OBVIOUS
<1>6. \A j \in 1..4 : x[j] = w[j]
  BY TakeIs, PrefixLen \in 0..Len(w)
<1>7. \A j \in 1..4 : x[j].val = PutUint32(m)[j]
  BY <1>5, <1>6
<1>8. m \in Nat /\ m > 0
  BY DEF Length
<1>9. n = Uint32(x) /\ n \in Nat
  BY <1>7, <1>8, Digits, ReadsNat
<1>10. m < Modulus => n = m
  BY <1>7, <1>8, <1>9, RoundTrip
<1>11. Modulus \in Nat /\ MaxMessageSize \in Nat /\ MaxMessageSize < Modulus
  BY LimitAssumption, BaseAssumption DEF Modulus
<1>12. BadLength(n) => m > MaxMessageSize
  BY <1>8, <1>9, <1>10, <1>11 DEF BadLength
<1>13. ~BadLength(n) => n \in 1..MaxMessageSize /\ (m <= MaxMessageSize => n = m)
  BY <1>8, <1>9, <1>10, <1>11 DEF BadLength
<1>. QED
  BY <1>1, <1>4, <1>9, <1>12, <1>13


\* Envelope i of length m is the one after those decoded; n may be read as its
\* length.
Facing(b, g, sz, i, m) == Len(g) < Len(b) /\ i = b[Len(g) + 1] /\ m = sz[i]
ReadAs(n, m) == n \in 1..MaxMessageSize /\ (m <= MaxMessageSize => n = m)

\* The reader goes on to the body of the frame.
LEMMA ToBody ==
  ASSUME NEW w \in Seq(Byte), NEW v \in Seq(Byte), NEW b \in Seq(Nat),
         NEW wh \in Nat, NEW nd \in Nat, NEW g \in Seq(Nat),
         NEW sz \in Seq(Length), Stream(w, b, wh, "prefix", nd, g, sz),
         Drops(v, w, PrefixLen), NEW n, NEW i, NEW m,
         Facing(b, g, sz, i, m), ReadAs(n, m)
  PROVE  /\ Stream(v, b, wh, "body", n, g, sz)
         /\ Current(w, b, wh, "prefix", g, sz) => Current(v, b, wh, "body", g, sz)
<1>. PICK lw \in Nat, lv \in Nat : lw = Len(w) /\ lv = Len(v)
  OBVIOUS
<1>1. lw = lv + 4 /\ \A j \in 1..lv : v[j] = w[j + 4]
  BY DEF Drops
<1>2. Bytes(v, b, sz) /\ Contiguous(v, sz) /\ Torn(v, b, wh, sz)
  BY PrefixLen \in Nat, DropKeeps DEF Stream
<1>3. w[1].of = i /\ w[1].at = 1 /\ Len(w) > 0
  <2>. Len(w) > 0
    BY <1>1
  <2>. QED
    BY Zenon DEF Stream, Start, Facing
<1>4. Opens(w, sz, i, 1)
  BY <1>3, FirstFrame DEF Stream
<1>5. i \in 1..Len(sz) /\ m \in Nat /\ m > 0
  BY <1>4 DEF Opens, Facing, Length
<1>6. \A q \in 1..lw : q <= 4 + m => w[q].of = i /\ w[q].at = q
  <2>1. \A q \in 1..lw : (q <= 4 + m => q <= 4 + m - 1 + 1) /\ 1 + q - 1 = q
    BY <1>5
  <2>2. \A q \in 1..lw : q <= 4 + m - 1 + 1 => w[q].of = i /\ w[q].at = 1 + q - 1
    BY <1>4, Zenon DEF Opens, Facing
  <2>. QED
    BY <2>1, <2>2
<1>7. Start(v, b, "body", g)
  <2>. SUFFICES ASSUME lv > 0
                PROVE  v[1].of = i /\ v[1].at = PrefixLen + 1
    BY DEF Start, Facing
  <2>1. v[1] = w[5]
    BY <1>1
  <2>2. 5 \in 1..lw /\ 5 <= 4 + m
    BY <1>1, <1>5
  <2>3. w[5].of = i /\ w[5].at = 5 /\ 4 + 1 = 5
    BY <2>2, <1>6
  <2>. QED
    BY <2>1, <2>3
<1>8. Decoded(b, wh, g, sz) /\ Reading(b, "body", n, g, sz) /\ "body" \notin Over
  BY DEF Stream, Reading, Over, Facing, ReadAs
<1>9. ASSUME Current(w, b, wh, "prefix", g, sz)
      PROVE  Current(v, b, wh, "body", g, sz)
  <2>1. /\ wh = Len(b) /\ (Len(b) > 0 => b[Len(b)] = Len(sz))
        /\ w[lw].of = Len(sz) /\ w[lw].at = PrefixLen + sz[Len(sz)]
    BY <1>3, <1>9 DEF Current, Over
  <2>2. lw # 4
    <3>. SUFFICES ASSUME lw = 4  PROVE FALSE
      OBVIOUS
    <3>1. w[lw].of = i /\ w[lw].at = 4
      BY <1>5, <1>6
    <3>2. w[lw].at = PrefixLen + m
      BY <3>1, <2>1 DEF Facing
    <3>. QED
      BY <3>1, <3>2, <1>5
  <2>3. lv > 0 /\ v[lv] = w[lw]
    BY <2>2, <1>1
  <2>. QED
    BY <2>1, <2>3, <1>8 DEF Current
<1>. QED
  BY <1>2, <1>7, <1>8, <1>9 DEF Stream

\* The body of a frame is what follows its prefix.
Payload(i, n) == SubSeq(encodeFrame(i, n), PrefixLen + 1, PrefixLen + n)

\* Its bytes are those after the prefix.
LEMMA PayloadIs ==
  ASSUME NEW i \in Nat, NEW n \in Length
  PROVE  /\ Payload(i, n) \in Seq(Byte) /\ Len(Payload(i, n)) = n
         /\ \A q \in 1..n : /\ Payload(i, n)[q] = encodeFrame(i, n)[q + PrefixLen]
                            /\ Payload(i, n)[q].of = i
<1>. PICK e : e = encodeFrame(i, n)
  OBVIOUS
<1>1. /\ e \in Seq(Byte) /\ Len(e) = PrefixLen + n
      /\ \A j \in 1..(PrefixLen + n) : e[j].of = i
  BY FrameIs
<1>2. n \in Nat /\ PrefixLen \in 0..Len(e) /\ Len(e) - PrefixLen = n
  BY <1>1 DEF Length
<1>. PICK s : s = Payload(i, n) /\ s = SubSeq(e, PrefixLen + 1, Len(e))
  BY <1>1 DEF Payload
<1>3. /\ s \in Seq(Byte) /\ Len(s) = Len(e) - PrefixLen
      /\ \A q \in 1..(Len(e) - PrefixLen) : s[q] = e[q + PrefixLen]
  BY <1>1, <1>2, DropIs
<1>4. \A q \in 1..n : q + PrefixLen \in 1..(PrefixLen + n)
  BY <1>2
<1>. QED
  BY <1>1, <1>2, <1>3, <1>4

\* A body that json.Unmarshal takes is all of the frame's body; one that it does
\* not take is of a frame over the limit.
LEMMA BodyRead ==
  ASSUME NEW w \in Seq(Byte), NEW b \in Seq(Nat), NEW wh \in Nat, NEW nd \in Nat,
         NEW g \in Seq(Nat), nd <= Len(w), size \in Seq(Length),
         Stream(w, b, wh, "body", nd, g, size), NEW i, NEW m,
         Facing(b, g, size, i, m)
  PROVE  /\ Unmarshals(SubSeq(w, 1, nd)) => SubSeq(w, 1, nd)[1].of = i /\ nd = m
         /\ ~Unmarshals(SubSeq(w, 1, nd)) => m > MaxMessageSize
<1>0. PICK body : body = SubSeq(w, 1, nd)
  OBVIOUS
<1>1. ReadAs(nd, m) /\ MaxMessageSize \in Nat /\ nd \in Nat /\ nd > 0
  BY LimitAssumption DEF Stream, Reading, Facing, ReadAs
<1>2. nd \in 0..Len(w) /\ Len(w) > 0
  BY <1>1
<1>3. w[1].of = i /\ w[1].at = 5
  BY <1>2, 4 + 1 = 5 DEF Stream, Start, Facing
<1>4. Opens(w, size, i, 5)
  BY <1>2, <1>3, FirstFrame DEF Stream
<1>5. i \in 1..Len(size) /\ i \in Nat /\ m = size[i] /\ m \in Length
  BY <1>4 DEF Opens, Facing
<1>6. body \in Seq(Byte) /\ Len(body) = nd /\ \A q \in 1..nd : body[q] = w[q]
  BY <1>0, <1>2, TakeIs
<1>7. ASSUME Unmarshals(body)
      PROVE  body[1].of = i /\ nd = m
  <2>1. PICK x \in 1..Len(size) : body = Payload(x, size[x])
    BY <1>7 DEF Unmarshals, Payload
  <2>2. PICK y \in Length : y = size[x]
    OBVIOUS
  <2>3. x \in Nat /\ body = Payload(x, y)
    BY <2>1, <2>2
  <2>4. Len(body) = y /\ \A q \in 1..y : body[q].of = x
    <3>1. Len(Payload(x, y)) = y /\ \A q \in 1..y : Payload(x, y)[q].of = x
      BY <2>3, PayloadIs
    <3>. QED
      BY <2>3, <3>1, Zenon
  <2>5. 1 \in 1..y /\ 1 \in 1..nd
    BY <1>1 DEF Length
  <2>6. body[1].of = x /\ body[1] = w[1] /\ y = nd
    BY <2>4, <2>5, <1>6
  <2>. QED
    BY <2>2, <2>6, <1>3, <1>5
<1>8. ASSUME nd = m
      PROVE  Unmarshals(body)
  <2>1. PICK s : s = Payload(i, m)
    OBVIOUS
  <2>2. /\ s \in Seq(Byte) /\ Len(s) = m
        /\ \A q \in 1..m : s[q] = encodeFrame(i, m)[q + PrefixLen]
    <3>1. i \in Nat /\ m \in Length
      BY <1>5
    <3>2. /\ Payload(i, m) \in Seq(Byte) /\ Len(Payload(i, m)) = m
          /\ \A q \in 1..m : Payload(i, m)[q] = encodeFrame(i, m)[q + PrefixLen]
      BY <3>1, PayloadIs
    <3>. QED
      BY <2>1, <3>2, Zenon
  <2>3. \A q \in 1..nd : /\ q \in 1..Len(w) /\ 5 + q - 1 = q + 4
                         /\ q <= 4 + nd - 5 + 1
    BY <1>1
  <2>4. \A q \in 1..nd : w[q] = encodeFrame(i, m)[q + 4]
    BY <2>3, <1>4, <1>5, <1>8 DEF Opens
  <2>5. \A q \in 1..nd : body[q] = s[q]
    BY <2>2, <2>4, <1>6, <1>8
  <2>6. body = s
    BY <2>2, <2>5, <1>6, <1>8, SameSeq
  <2>. QED
    BY <2>1, <2>6, <1>5 DEF Unmarshals, Payload
<1>9. m \in Nat
  BY <1>5 DEF Length
<1>. QED
  BY <1>0, <1>1, <1>7, <1>8, <1>9 DEF ReadAs

\* The reader has decoded the frame and goes on to the next one.
LEMMA ToPrefix ==
  ASSUME NEW w \in Seq(Byte), NEW v \in Seq(Byte), NEW b \in Seq(Nat),
         NEW wh \in Nat, NEW nd \in Nat, NEW g \in Seq(Nat), NEW h \in Seq(Nat),
         NEW sz \in Seq(Length), Stream(w, b, wh, "body", nd, g, sz),
         Drops(v, w, nd), NEW i \in Nat, Facing(b, g, sz, i, nd), Extends(h, g, i)
  PROVE  /\ Stream(v, b, wh, "prefix", nd, h, sz)
         /\ Current(w, b, wh, "body", g, sz) => Current(v, b, wh, "prefix", h, sz)
<1>. PICK lw \in Nat, lv \in Nat, lb \in Nat, lg \in Nat :
       lw = Len(w) /\ lv = Len(v) /\ lb = Len(b) /\ lg = Len(g)
  OBVIOUS
<1>1. lw = lv + nd /\ \A j \in 1..lv : v[j] = w[j + nd]
  BY DEF Drops
<1>2. Len(h) = lg + 1 /\ h[lg + 1] = i /\ \A j \in 1..lg : h[j] = g[j]
  BY DEF Extends
<1>3. Bytes(v, b, sz) /\ Contiguous(v, sz) /\ Torn(v, b, wh, sz)
  BY DropKeeps DEF Stream
<1>4. /\ lg < lb /\ nd >= 1 /\ nd <= MaxMessageSize
      /\ lg <= wh /\ wh <= lb /\ lb <= wh + 1 /\ MaxMessageSize \in Nat
  BY LimitAssumption DEF Stream, Reading, Decoded, Torn
<1>5. Len(w) > 0 /\ nd \in 1..lw
  BY <1>1, <1>4
<1>6. w[1].of = i /\ w[1].at = 5
  BY <1>5, 4 + 1 = 5 DEF Stream, Start, Facing
<1>7. Opens(w, sz, i, 5)
  BY <1>5, <1>6, FirstFrame DEF Stream
<1>8. \A q \in 1..lw : /\ q <= nd => w[q].of = i /\ w[q].at = 4 + q
                       /\ q = nd + 1 => w[q].of = i + 1 /\ w[q].at = 1
  <2>1. \A q \in 1..lw : /\ q <= nd => q <= 4 + nd - 5 + 1
                         /\ q = nd + 1 => q = 4 + nd - 5 + 2
                         /\ 5 + q - 1 = 4 + q
    OBVIOUS
  <2>2. \A q \in 1..lw :
          /\ q <= 4 + nd - 5 + 1 => w[q].of = i /\ w[q].at = 5 + q - 1
          /\ q = 4 + nd - 5 + 2 => w[q].of = i + 1 /\ w[q].at = 1
    BY <1>7, Zenon DEF Opens, Facing
  <2>. QED
    BY <2>1, <2>2
<1>9. \A j \in 1..lb : b[j] \in Nat /\ b[j] = b[1] + (j - 1)
  BY DEF Stream, Successive
<1>10. b[1] \in Nat /\ i = b[1] + lg
  <2>1. lg + 1 \in 1..lb /\ 1 \in 1..lb
    BY <1>4
  <2>2. b[1] \in Nat /\ b[lg + 1] = b[1] + lg
    BY <2>1, <1>9
  <2>. QED
    BY <2>2 DEF Facing
\* The frame was written in full: its last byte was on the wire.
<1>11. lg + 1 <= wh
  <2>. SUFFICES ASSUME wh < lg + 1  PROVE FALSE
    BY <1>4
  <2>1. wh < lb /\ lb = lg + 1
    BY <1>4
  <2>2. b[lb] = i
    BY <2>1 DEF Facing
  <2>3. w[nd].of = i /\ w[nd].at = 4 + nd
    BY <1>5, <1>8
  <2>4. w[nd].at < PrefixLen + nd
    BY <2>1, <2>2, <2>3, <1>5 DEF Stream, Torn, Facing
  <2>. QED
    BY <2>3, <2>4
<1>12. Start(v, b, "prefix", h)
  <2>. SUFFICES ASSUME lv > 0
                PROVE  lg + 1 < lb /\ v[1].of = b[lg + 2] /\ v[1].at = 1
    BY <1>2 DEF Start
  <2>1. nd + 1 \in 1..lw /\ 1 \in 1..lv /\ 1 + nd = nd + 1
    BY <1>1, <1>4
  <2>2. v[1] = w[nd + 1]
    BY <2>1, <1>1
  <2>3. w[nd + 1].of = i + 1 /\ w[nd + 1].at = 1
    BY <2>1, <1>8
  <2>4. PICK j \in 1..lb : b[j] = i + 1
    BY <2>1, <2>3 DEF Stream, Bytes
  <2>5. j = lg + 2
    <3>. j \in Nat
      OBVIOUS
    <3>1. PICK c \in Nat, x \in Nat, y \in Nat : c = b[1] /\ x = lg /\ y = j
      BY <1>10
    <3>2. c + (y - 1) = (c + x) + 1
      BY <2>4, <3>1, <1>9, <1>10
    <3>3. y = x + 2
      BY <3>2
    <3>. QED
      BY <3>1, <3>3
  <2>. QED
    BY <2>2, <2>3, <2>4, <2>5
<1>13. Decoded(b, wh, h, sz)
  <2>1. \A j \in 1..lg : g[j] = b[j] /\ sz[b[j]] <= MaxMessageSize
    BY DEF Stream, Decoded
  <2>2. \A j \in 1..(lg + 1) : j \in 1..lg \/ j = lg + 1
    OBVIOUS
  <2>3. i = b[lg + 1] /\ sz[i] <= MaxMessageSize
    BY <1>4 DEF Facing
  <2>4. \A j \in 1..(lg + 1) : h[j] = b[j] /\ sz[b[j]] <= MaxMessageSize
    BY <2>1, <2>2, <2>3, <1>2
  <2>. QED
    BY <2>4, <1>2, <1>11 DEF Decoded
<1>14. Reading(b, "prefix", nd, h, sz) /\ "prefix" \notin Over /\ "body" \notin Over
  BY DEF Reading, Over
<1>15. ASSUME Current(w, b, wh, "body", g, sz)
       PROVE  Current(v, b, wh, "prefix", h, sz)
  <2>1. /\ wh = lb /\ (lb > 0 => b[lb] = Len(sz))
        /\ w[lw].of = Len(sz) /\ w[lw].at = PrefixLen + sz[Len(sz)]
    BY <1>5, <1>14, <1>15 DEF Current
  <2>2. CASE lv = 0
    <3>1. lw = nd /\ lw \in 1..lw
      BY <2>2, <1>1, <1>5
    <3>2. w[lw].of = i
      BY <3>1, <1>8
    <3>3. lb \in 1..lb /\ b[lb] = i
      BY <3>2, <2>1, <1>4
    <3>4. lb = lg + 1
      <4>1. PICK c \in Nat, x \in Nat, y \in Nat : c = b[1] /\ x = lg /\ y = lb
        BY <1>10
      <4>2. c + (y - 1) = c + x
        BY <3>3, <4>1, <1>9, <1>10
      <4>3. y = x + 1
        BY <4>2
      <4>. QED
        BY <4>1, <4>3
    <3>. QED
      BY <2>1, <2>2, <3>4, <1>2 DEF Current
  <2>3. CASE lv > 0
    <3>1. v[lv] = w[lw]
      BY <2>3, <1>1
    <3>. QED
      BY <2>1, <2>3, <3>1 DEF Current
  <2>. QED
    BY <2>2, <2>3
<1>. QED
  BY <1>3, <1>12, <1>13, <1>14, <1>15 DEF Stream

\* The reader gives the connection up.
LEMMA Left ==
  ASSUME NEW w \in Seq(Byte), NEW b \in Seq(Nat), NEW wh \in Nat, NEW r \in Stages,
         NEW nd \in Nat, NEW g \in Seq(Nat), NEW sz \in Seq(Length),
         NEW how \in Over, Stream(w, b, wh, r, nd, g, sz),
         how = "hungUp" => Len(g) < Len(b) /\ sz[b[Len(g) + 1]] > MaxMessageSize
  PROVE  /\ Stream(<<>>, b, wh, how, nd, g, sz)
         /\ Current(w, b, wh, r, g, sz) => Current(<<>>, b, wh, how, g, sz)
<1>. <<>> \in Seq(Byte) /\ Len(<<>>) = 0
  OBVIOUS
<1>. PICK e \in Seq(Byte) : e = <<>> /\ Len(e) = 0
  BY Zenon
<1>1. Bytes(e, b, sz) /\ Contiguous(e, sz) /\ Start(e, b, how, g) /\ Torn(e, b, wh, sz)
  BY DEF Stream, Bytes, Contiguous, Start, Torn
<1>2. Reading(b, how, nd, g, sz)
  BY DEF Reading, Over
<1>3. Current(w, b, wh, r, g, sz) => Current(e, b, wh, how, g, sz)
  BY DEF Current
<1>. QED
  BY <1>1, <1>2, <1>3 DEF Stream

-----------------------------------------------------------------------------
(* The steps *)

\* Nothing is dialed, sent or read.
LEMMA InitStarts == Init => FramingInv
<1>. SUFFICES ASSUME Init  PROVE FramingInv
  OBVIOUS
<1>1. Typed
  BY FramingBounds DEF Init, Typed, Stages
<1>2. <<>> \in Seq(Byte) /\ <<>> \in Seq(Nat) /\ <<>> \in Seq(Length)
      /\ Len(<<>>) = 0 /\ "prefix" \notin Over
  BY DEF Over
<1>3. Stream(<<>>, <<>>, 0, "prefix", 0, <<>>, <<>>) /\ Fresh(<<>>, <<>>, 0, "prefix", <<>>)
  BY <1>2 DEF Stream, Fresh, Successive, Bytes, Contiguous, Start, Torn, Decoded, Reading
<1>. QED
  BY <1>1, <1>3 DEF Init, FramingInv

\* The connection dialed is fresh.
LEMMA DialKeeps == FramingInv /\ Dial => FramingInv'
<1>. SUFFICES ASSUME FramingInv, Dial  PROVE FramingInv'
  OBVIOUS
<1>1. /\ conn = 0 /\ dials < MaxDials /\ dials' = dials + 1 /\ conn' = dials + 1
      /\ UNCHANGED <<size, wire, eof, begun, whole, reader, need, got>>
  BY DEF Dial, server
<1>2. dials \in Nat /\ MaxDials \in Nat /\ dials + 1 \in Conns /\ dials + 1 > dials
  BY <1>1, FramingBounds DEF FramingInv, Typed, Conns
<1>3. Typed'
  BY <1>1, <1>2 DEF FramingInv, Typed
<1>4. PICK k \in Conns : k = dials + 1
  BY <1>2
<1>5. Fresh(wire[k], begun[k], whole[k], reader[k], got[k])
  BY <1>2, <1>4 DEF FramingInv
<1>6. Current(wire[k], begun[k], whole[k], reader[k], got[k], size)
  BY <1>5 DEF Fresh, Current
<1>7. \A j \in Conns : j > dials + 1 => j > dials
  BY <1>2 DEF Conns
<1>. QED
  BY <1>1, <1>3, <1>4, <1>6, <1>7 DEF FramingInv

\* The client closes a connection it has dialed.
LEMMA HangUpIs ==
  ASSUME FramingInv, conn # 0, eof' = [eof EXCEPT ![conn] = TRUE]
  PROVE  /\ eof' \in [Conns -> BOOLEAN]
         /\ \A k \in Conns : k > dials => k # conn /\ eof'[k] = eof[k]
<1>1. eof \in [Conns -> BOOLEAN] /\ conn \in 0..dials /\ dials \in 0..MaxDials
  BY DEF FramingInv, Typed
<1>2. \A k \in Conns : k > dials => k # conn
  BY <1>1, FramingBounds DEF Conns
<1>. QED
  BY <1>1, <1>2

\* Close leaves what was written to be read.
LEMMA CloseKeeps == FramingInv /\ Close => FramingInv'
<1>. SUFFICES ASSUME FramingInv, Close  PROVE FramingInv'
  OBVIOUS
<1>1. /\ conn' = 0 /\ conn # 0 /\ eof' = [eof EXCEPT ![conn] = TRUE]
      /\ UNCHANGED <<size, dials, wire, begun, whole, reader, need, got>>
  BY DEF Close, server
<1>2. /\ eof' \in [Conns -> BOOLEAN]
      /\ \A k \in Conns : k > dials => k # conn /\ eof'[k] = eof[k]
  BY <1>1, HangUpIs
<1>3. Typed'
  <2>. dials \in Nat /\ 0 \in 0..dials
    BY FramingBounds DEF FramingInv, Typed
  <2>. QED
    BY <1>1, <1>2 DEF FramingInv, Typed
<1>. QED
  BY <1>1, <1>2, <1>3 DEF FramingInv

\* A send on the connection conn: it begins a frame there, and leaves the
\* others alone.
LEMMA SendIs ==
  ASSUME FramingInv, conn # 0, NEW n \in Sizes,
         size' = Append(size, n),
         begun' = [begun EXCEPT ![conn] = Append(@, Len(size'))]
  PROVE  /\ conn \in Conns /\ ~(conn > dials) /\ n \in Length
         /\ size' \in Seq(Length) /\ Extends(size', size, n)
         /\ begun' \in [Conns -> Seq(Nat)]
         /\ Extends(begun'[conn], begun[conn], Len(size) + 1)
         /\ \A k \in Conns : k # conn => begun'[k] = begun[k]
<1>1. conn \in Conns /\ ~(conn > dials)
  BY FramingBounds DEF FramingInv, Typed, Conns
<1>2. n \in Length
  BY SizesAssumption DEF Length
<1>3. size' \in Seq(Length) /\ Extends(size', size, n)
  BY <1>2, AppendIs DEF FramingInv, Typed, Extends
<1>4. PICK N \in Nat : N = Len(size') /\ N = Len(size) + 1
  BY <1>3 DEF FramingInv, Typed, Extends
<1>5. begun \in [Conns -> Seq(Nat)] /\ begun[conn] \in Seq(Nat)
  BY <1>1 DEF FramingInv, Typed
<1>6. begun' = [begun EXCEPT ![conn] = Append(begun[conn], N)]
  BY <1>4
<1>7. Append(begun[conn], N) \in Seq(Nat) /\ Extends(Append(begun[conn], N), begun[conn], N)
  BY <1>5, AppendIs DEF Extends
<1>. QED
  BY <1>1, <1>2, <1>3, <1>4, <1>5, <1>6, <1>7

\* What write does to the wire
LEMMA CatJoins ==
  ASSUME NEW w \in Seq(Byte), NEW f \in Seq(Byte)
  PROVE  w \o f \in Seq(Byte) /\ Joins(w \o f, w, f)
  BY CatIs DEF Joins

\* send writes a frame in full.
LEMMA WriteFrameKeeps ==
  ASSUME FramingInv, NEW n \in Sizes, WriteFrame(n)
  PROVE  FramingInv'
<1>1. /\ conn # 0 /\ size' = Append(size, n)
      /\ begun' = [begun EXCEPT ![conn] = Append(@, Len(size'))]
      /\ whole' = [whole EXCEPT ![conn] = @ + 1]
      /\ UNCHANGED <<conn, dials, eof, reader, need, got>>
  BY DEF WriteFrame, server
<1>2. /\ conn \in Conns /\ ~(conn > dials) /\ n \in Length
      /\ size' \in Seq(Length) /\ Extends(size', size, n)
      /\ begun' \in [Conns -> Seq(Nat)]
      /\ Extends(begun'[conn], begun[conn], Len(size) + 1)
      /\ \A k \in Conns : k # conn => begun'[k] = begun[k]
  BY <1>1, SendIs
<1>3. whole' \in [Conns -> Nat] /\ whole'[conn] = whole[conn] + 1
      /\ \A k \in Conns : k # conn => whole'[k] = whole[k]
  BY <1>1, <1>2 DEF FramingInv, Typed
<1>0. PICK f : f = encodeFrame(Len(size) + 1, n)
  OBVIOUS
<1>4. f \in Seq(Byte) /\ Len(f) = PrefixLen + n /\ PartOf(f, Len(size) + 1, n)
  <2>1. Len(size) + 1 \in Nat /\ PrefixLen + n \in Nat
    BY <1>2 DEF FramingInv, Typed, Length
  <2>2. /\ f \in Seq(Byte) /\ Len(f) = PrefixLen + n
        /\ \A j \in 1..Len(f) : f[j] = encodeFrame(Len(size) + 1, n)[j]
    BY <1>0, <1>2, <2>1, FrameIs
  <2>3. Len(f) <= PrefixLen + n
    BY <2>1, <2>2
  <2>. QED
    BY <2>2, <2>3, Zenon DEF PartOf
<1>5. \A k \in Conns :
        /\ wire[k] \in Seq(Byte) /\ begun[k] \in Seq(Nat) /\ whole[k] \in Nat
        /\ reader[k] \in Stages /\ need[k] \in Nat /\ got[k] \in Seq(Nat)
        /\ Stream(wire[k], begun[k], whole[k], reader[k], need[k], got[k], size)
  BY DEF FramingInv, Typed
<1>6. Len(size') = Len(size) + 1 /\ size \in Seq(Length)
  BY <1>2 DEF Extends, FramingInv, Typed
<1>7. /\ wire' \in [Conns -> Seq(Byte)] /\ \A k \in Conns : k # conn => wire'[k] = wire[k]
      /\ reader[conn] \in Over => wire'[conn] = wire[conn]
      /\ reader[conn] \notin Over => Joins(wire'[conn], wire[conn], f)
  <2>1. wire \in [Conns -> Seq(Byte)]
    BY DEF FramingInv, Typed
  <2>2. CASE reader[conn] \in Over
    BY <2>1, <2>2 DEF WriteFrame
  <2>3. CASE reader[conn] \notin Over
    <3>1. wire' = [wire EXCEPT ![conn] = wire[conn] \o f]
      BY <2>3, <1>0, <1>6 DEF WriteFrame
    <3>2. wire[conn] \o f \in Seq(Byte) /\ Joins(wire[conn] \o f, wire[conn], f)
      BY <1>2, <1>4, <1>5, CatJoins
    <3>. QED
      BY <2>1, <2>3, <3>1, <3>2, <1>2
  <2>. QED
    BY <2>2, <2>3
<1>8. Current(wire[conn], begun[conn], whole[conn], reader[conn], got[conn], size)
  BY <1>1 DEF FramingInv
<1>9. /\ Stream(wire'[conn], begun'[conn], whole'[conn], reader[conn], need[conn], got[conn], size')
      /\ Current(wire'[conn], begun'[conn], whole'[conn], reader[conn], got[conn], size')
  <2>. wire'[conn] \in Seq(Byte) /\ begun'[conn] \in Seq(Nat)
    BY <1>2, <1>7
  <2>0. PICK w, v, b, c, r, nd, g, z :
          /\ w = wire[conn] /\ v = wire'[conn] /\ b = begun[conn] /\ c = begun'[conn]
          /\ r = reader[conn] /\ nd = need[conn] /\ g = got[conn] /\ z = size'
    OBVIOUS
  <2>3. PICK wh \in Nat : wh = whole[conn]
    BY <1>2, <1>5
  <2>4. /\ w \in Seq(Byte) /\ v \in Seq(Byte) /\ b \in Seq(Nat) /\ c \in Seq(Nat)
        /\ r \in Stages /\ nd \in Nat /\ g \in Seq(Nat) /\ z \in Seq(Length)
        /\ Stream(w, b, wh, r, nd, g, size) /\ Current(w, b, wh, r, g, size)
        /\ Extends(z, size, n) /\ Extends(c, b, Len(size) + 1)
    BY <2>0, <2>3, <1>2, <1>5, <1>8
  <2>5. whole'[conn] = wh + 1
    BY <2>3, <1>3
  <2>1. CASE r \in Over
    <3>1. v = w
      BY <2>0, <2>1, <1>7
    <3>2. Stream(w, c, wh + 1, r, nd, g, z) /\ Current(w, c, wh + 1, r, g, z)
      BY <2>1, <2>4, <1>2, <1>6, Unread
    <3>. QED
      BY <2>0, <2>5, <3>1, <3>2
  <2>2. CASE r \notin Over
    <3>1. Joins(v, w, f) /\ r \in Stages \ Over
      BY <2>0, <2>2, <2>4, <1>7
    <3>2. Stream(v, c, wh + 1, r, nd, g, z) /\ Current(v, c, wh + 1, r, g, z)
      BY <3>1, <2>4, <1>2, <1>4, <1>6, Written
    <3>. QED
      BY <2>0, <2>5, <3>2
  <2>. QED
    BY <2>1, <2>2
<1>10. ASSUME NEW k \in Conns, k # conn
       PROVE  Stream(wire'[k], begun'[k], whole'[k], reader[k], need[k], got[k], size')
  BY <1>2, <1>3, <1>5, <1>6, <1>7, <1>10, SendKeeps
<1>11. Typed'
  BY <1>1, <1>2, <1>3, <1>7 DEF FramingInv, Typed
<1>12. \A k \in Conns : k > dials => k # conn
  BY <1>2
<1>. QED
  BY <1>1, <1>2, <1>3, <1>7, <1>9, <1>10, <1>11, <1>12 DEF FramingInv

\* send writes a part of a frame and hangs up.
LEMMA WriteFailsKeeps ==
  ASSUME FramingInv, NEW n \in Sizes, NEW m \in 0..(PrefixLen + n - 1), WriteFails(n, m)
  PROVE  FramingInv'
<1>1. /\ conn # 0 /\ size' = Append(size, n)
      /\ begun' = [begun EXCEPT ![conn] = Append(@, Len(size'))]
      /\ conn' = 0 /\ m < PrefixLen + n /\ eof' = [eof EXCEPT ![conn] = TRUE]
      /\ UNCHANGED <<dials, whole, reader, need, got>>
  BY DEF WriteFails, server
<1>2. /\ conn \in Conns /\ ~(conn > dials) /\ n \in Length
      /\ size' \in Seq(Length) /\ Extends(size', size, n)
      /\ begun' \in [Conns -> Seq(Nat)]
      /\ Extends(begun'[conn], begun[conn], Len(size) + 1)
      /\ \A k \in Conns : k # conn => begun'[k] = begun[k]
  BY <1>1, SendIs
<1>0. PICK f : f = SubSeq(encodeFrame(Len(size) + 1, n), 1, m)
  OBVIOUS
<1>3. f \in Seq(Byte) /\ Len(f) < PrefixLen + n /\ PartOf(f, Len(size) + 1, n)
  <2>1. Len(size) + 1 \in Nat /\ PrefixLen + n \in Nat
    BY <1>2 DEF FramingInv, Typed, Length
  <2>2. PICK e : e = encodeFrame(Len(size) + 1, n) /\ e \in Seq(Byte) /\ Len(e) = PrefixLen + n
    BY <1>2, <2>1, FrameIs
  <2>3. m \in 0..Len(e)
    <3>1. PICK l \in Nat : l = PrefixLen + n
      BY <2>1
    <3>2. m \in 0..l
      BY <3>1, <1>2 DEF Length
    <3>. QED
      BY <2>2, <3>1, <3>2
  <2>4. f \in Seq(Byte) /\ Len(f) = m /\ \A j \in 1..m : f[j] = e[j]
    BY <1>0, <2>2, <2>3, TakeIs
  <2>. QED
    BY <2>1, <2>2, <2>4, <1>1 DEF PartOf
<1>4. \A k \in Conns :
        /\ wire[k] \in Seq(Byte) /\ begun[k] \in Seq(Nat) /\ whole[k] \in Nat
        /\ reader[k] \in Stages /\ need[k] \in Nat /\ got[k] \in Seq(Nat)
        /\ Stream(wire[k], begun[k], whole[k], reader[k], need[k], got[k], size)
  BY DEF FramingInv, Typed
<1>5. Len(size') = Len(size) + 1 /\ size \in Seq(Length)
  BY <1>2 DEF Extends, FramingInv, Typed
<1>6. /\ wire' \in [Conns -> Seq(Byte)] /\ \A k \in Conns : k # conn => wire'[k] = wire[k]
      /\ reader[conn] \in Over => wire'[conn] = wire[conn]
      /\ reader[conn] \notin Over => Joins(wire'[conn], wire[conn], f)
  <2>1. wire \in [Conns -> Seq(Byte)]
    BY DEF FramingInv, Typed
  <2>2. CASE reader[conn] \in Over
    BY <2>1, <2>2 DEF WriteFails
  <2>3. CASE reader[conn] \notin Over
    <3>1. wire' = [wire EXCEPT ![conn] = wire[conn] \o f]
      BY <2>3, <1>0, <1>5 DEF WriteFails
    <3>2. wire[conn] \o f \in Seq(Byte) /\ Joins(wire[conn] \o f, wire[conn], f)
      BY <1>2, <1>3, <1>4, CatJoins
    <3>. QED
      BY <2>1, <2>3, <3>1, <3>2, <1>2
  <2>. QED
    BY <2>2, <2>3
<1>7. Current(wire[conn], begun[conn], whole[conn], reader[conn], got[conn], size)
  BY <1>1 DEF FramingInv
<1>8. Stream(wire'[conn], begun'[conn], whole[conn], reader[conn], need[conn], got[conn], size')
  <2>. wire'[conn] \in Seq(Byte) /\ begun'[conn] \in Seq(Nat)
    BY <1>2, <1>6
  <2>1. CASE reader[conn] \in Over
    BY <2>1, <1>2, <1>4, <1>5, <1>6, <1>7, Unread
  <2>2. CASE reader[conn] \notin Over
    BY <2>2, <1>2, <1>3, <1>4, <1>5, <1>6, <1>7, Written
  <2>. QED
    BY <2>1, <2>2
<1>9. ASSUME NEW k \in Conns, k # conn
      PROVE  Stream(wire'[k], begun'[k], whole[k], reader[k], need[k], got[k], size')
  BY <1>2, <1>4, <1>5, <1>6, <1>9, SendKeeps
<1>10. Typed'
  <2>. dials \in Nat /\ 0 \in 0..dials
    BY FramingBounds DEF FramingInv, Typed
  <2>. eof' \in [Conns -> BOOLEAN]
    BY <1>1, HangUpIs
  <2>. QED
    BY <1>1, <1>2, <1>6 DEF FramingInv, Typed
<1>11. \A k \in Conns : k > dials => k # conn /\ eof'[k] = eof[k]
  BY <1>1, HangUpIs
<1>. QED
  BY <1>1, <1>2, <1>6, <1>8, <1>9, <1>10, <1>11 DEF FramingInv

\* A step of the reader of connection k: the rest is left alone.
LEMMA ReaderKeeps ==
  ASSUME FramingInv, NEW k \in Conns, ~(k > dials),
         UNCHANGED <<size, conn, dials, eof, begun, whole>>,
         wire' \in [Conns -> Seq(Byte)], reader' \in [Conns -> Stages],
         need' \in [Conns -> Nat], got' \in [Conns -> Seq(Nat)],
         \A j \in Conns : j # k => /\ wire'[j] = wire[j] /\ reader'[j] = reader[j]
                                   /\ need'[j] = need[j] /\ got'[j] = got[j],
         Stream(wire'[k], begun[k], whole[k], reader'[k], need'[k], got'[k], size),
         Current(wire[k], begun[k], whole[k], reader[k], got[k], size) =>
           Current(wire'[k], begun[k], whole[k], reader'[k], got'[k], size)
  PROVE  FramingInv'
<1>1. Typed'
  BY DEF FramingInv, Typed
<1>2. \A j \in Conns :
        Stream(wire'[j], begun[j], whole[j], reader'[j], need'[j], got'[j], size)
  BY DEF FramingInv
<1>3. conn # 0 => conn \in Conns
  BY FramingBounds DEF FramingInv, Typed, Conns
<1>4. conn # 0 => Current(wire'[conn], begun[conn], whole[conn], reader'[conn], got'[conn], size)
  BY <1>3 DEF FramingInv
<1>5. \A j \in Conns :
        j > dials => Fresh(wire'[j], begun[j], whole[j], reader'[j], got'[j]) /\ ~eof[j]
  BY DEF FramingInv
<1>. QED
  BY <1>1, <1>2, <1>4, <1>5 DEF FramingInv

\* The connection of reader k as the invariant has it; a reader that has bytes
\* to read is on a connection that was dialed.
LEMMA ConnectionIs ==
  ASSUME FramingInv, NEW k \in Conns
  PROVE  /\ wire[k] \in Seq(Byte) /\ begun[k] \in Seq(Nat) /\ whole[k] \in Nat
         /\ reader[k] \in Stages /\ need[k] \in Nat /\ got[k] \in Seq(Nat)
         /\ size \in Seq(Length) /\ wire \in [Conns -> Seq(Byte)]
         /\ reader \in [Conns -> Stages] /\ need \in [Conns -> Nat]
         /\ got \in [Conns -> Seq(Nat)]
         /\ Stream(wire[k], begun[k], whole[k], reader[k], need[k], got[k], size)
         /\ k > dials => Len(wire[k]) = 0 /\ reader[k] = "prefix" /\ ~eof[k]
  BY DEF FramingInv, Typed, Fresh

\* The reader leaves.
LEMMA EndKeeps ==
  ASSUME FramingInv, NEW k \in Conns, ~(k > dials), NEW how \in Over, End(k, how),
         UNCHANGED client,
         how = "hungUp" => /\ Len(got[k]) < Len(begun[k])
                           /\ size[begun[k][Len(got[k]) + 1]] > MaxMessageSize
  PROVE  FramingInv'
<1>1. /\ reader' = [reader EXCEPT ![k] = how] /\ wire' = [wire EXCEPT ![k] = <<>>]
      /\ UNCHANGED <<size, conn, dials, eof, begun, whole, need, got>>
  BY DEF End, client
<1>2. <<>> \in Seq(Byte) /\ how \in Stages
  BY DEF Stages
<1>3. /\ wire' \in [Conns -> Seq(Byte)] /\ reader' \in [Conns -> Stages]
      /\ need' \in [Conns -> Nat] /\ got' \in [Conns -> Seq(Nat)]
      /\ wire'[k] = <<>> /\ reader'[k] = how /\ need'[k] = need[k] /\ got'[k] = got[k]
      /\ \A j \in Conns : j # k => /\ wire'[j] = wire[j] /\ reader'[j] = reader[j]
                                   /\ need'[j] = need[j] /\ got'[j] = got[j]
  BY <1>1, <1>2, ConnectionIs
<1>4. /\ Stream(<<>>, begun[k], whole[k], how, need[k], got[k], size)
      /\ Current(wire[k], begun[k], whole[k], reader[k], got[k], size) =>
           Current(<<>>, begun[k], whole[k], how, got[k], size)
  BY ConnectionIs, Left
<1>. QED
  BY <1>1, <1>3, <1>4, ReaderKeeps

\* What reading does to the wire
LEMMA DropDrops ==
  ASSUME NEW w \in Seq(Byte), NEW m \in 0..Len(w)
  PROVE  /\ SubSeq(w, m + 1, Len(w)) \in Seq(Byte)
         /\ Drops(SubSeq(w, m + 1, Len(w)), w, m)
<1>1. PICK v : v = SubSeq(w, m + 1, Len(w))
  OBVIOUS
<1>2. v \in Seq(Byte) /\ Len(v) = Len(w) - m /\ \A i \in 1..(Len(w) - m) : v[i] = w[i + m]
  BY <1>1, DropIs
<1>3. Len(w) = Len(v) + m
  BY <1>2
<1>. QED
  BY <1>1, <1>2, <1>3 DEF Drops

\* What decoding a frame adds
LEMMA AppendExtends ==
  ASSUME NEW g \in Seq(Nat), NEW i \in Nat
  PROVE  Append(g, i) \in Seq(Nat) /\ Extends(Append(g, i), g, i)
  BY AppendIs DEF Extends

\* readFrame reads a length.
LEMMA ReadPrefixKeeps ==
  ASSUME FramingInv, NEW k \in Conns, ReadPrefix(k)
  PROVE  FramingInv'
<1>0. PICK n : n = Uint32(SubSeq(wire[k], 1, PrefixLen))
  OBVIOUS
<1>1. /\ reader[k] = "prefix" /\ PrefixLen <= Len(wire[k]) /\ UNCHANGED client
      /\ \/ BadLength(n) /\ End(k, "hungUp")
         \/ /\ ~BadLength(n)
            /\ reader' = [reader EXCEPT ![k] = "body"]
            /\ need' = [need EXCEPT ![k] = n]
            /\ wire' = [wire EXCEPT ![k] = SubSeq(wire[k], PrefixLen + 1, Len(wire[k]))]
            /\ got' = got
  <2>1. Len(wire[k]) \in Nat
    BY ConnectionIs
  <2>. QED
    BY <1>0, <2>1 DEF ReadPrefix
<1>2. ~(k > dials)
  BY <1>1, ConnectionIs
<1>3. PICK i, m : i = begun[k][Len(got[k]) + 1] /\ m = size[i]
  OBVIOUS
<1>4. /\ n \in Nat /\ Len(got[k]) < Len(begun[k])
      /\ BadLength(n) => m > MaxMessageSize
      /\ ~BadLength(n) => ReadAs(n, m)
  <2>1. /\ wire[k] \in Seq(Byte) /\ begun[k] \in Seq(Nat) /\ whole[k] \in Nat
        /\ need[k] \in Nat /\ got[k] \in Seq(Nat) /\ size \in Seq(Length)
        /\ Stream(wire[k], begun[k], whole[k], "prefix", need[k], got[k], size)
    BY <1>1, ConnectionIs
  <2>2. /\ n \in Nat /\ Len(got[k]) < Len(begun[k])
        /\ BadLength(n) => size[begun[k][Len(got[k]) + 1]] > MaxMessageSize
        /\ ~BadLength(n) =>
             /\ n \in 1..MaxMessageSize
             /\ size[begun[k][Len(got[k]) + 1]] <= MaxMessageSize =>
                  n = size[begun[k][Len(got[k]) + 1]]
    <3>1. PICK w, b, wh, nd, g, sz :
            /\ w = wire[k] /\ b = begun[k] /\ wh = whole[k]
            /\ nd = need[k] /\ g = got[k] /\ sz = size
      OBVIOUS
    <3>2. /\ w \in Seq(Byte) /\ b \in Seq(Nat) /\ wh \in Nat
          /\ nd \in Nat /\ g \in Seq(Nat) /\ sz \in Seq(Length)
          /\ Stream(w, b, wh, "prefix", nd, g, sz)
      BY <2>1, <3>1
    <3>3. PrefixLen <= Len(w) /\ n = Uint32(SubSeq(w, 1, PrefixLen))
      BY <1>0, <1>1, <3>1
    <3>4. /\ n \in Nat /\ Len(g) < Len(b)
          /\ BadLength(n) => sz[b[Len(g) + 1]] > MaxMessageSize
          /\ ~BadLength(n) =>
               /\ n \in 1..MaxMessageSize
               /\ sz[b[Len(g) + 1]] <= MaxMessageSize => n = sz[b[Len(g) + 1]]
      BY <3>2, <3>3, PrefixRead
    <3>. QED
      BY <3>1, <3>4, Zenon
  <2>3. m = size[begun[k][Len(got[k]) + 1]]
    BY <1>3
  <2>. QED
    BY <2>2, <2>3, Zenon DEF ReadAs
<1>5. CASE BadLength(n)
  <2>. "hungUp" \in Over
    BY DEF Over
  <2>. QED
    BY <1>1, <1>2, <1>3, <1>4, <1>5, EndKeeps
<1>6. CASE ~BadLength(n)
  <2>1. /\ reader' = [reader EXCEPT ![k] = "body"] /\ need' = [need EXCEPT ![k] = n]
        /\ wire' = [wire EXCEPT ![k] = SubSeq(wire[k], PrefixLen + 1, Len(wire[k]))]
        /\ UNCHANGED <<size, conn, dials, eof, begun, whole, got>>
    BY <1>1, <1>6 DEF client
  <2>2. PICK v \in Seq(Byte) :
          /\ v = SubSeq(wire[k], PrefixLen + 1, Len(wire[k]))
          /\ Drops(v, wire[k], PrefixLen)
    <3>1. wire[k] \in Seq(Byte) /\ PrefixLen \in 0..Len(wire[k])
      BY <1>1, ConnectionIs
    <3>. QED
      BY <3>1, DropDrops
  <2>3. /\ wire' \in [Conns -> Seq(Byte)] /\ reader' \in [Conns -> Stages]
        /\ need' \in [Conns -> Nat] /\ got' \in [Conns -> Seq(Nat)]
        /\ wire'[k] = v /\ reader'[k] = "body" /\ need'[k] = n /\ got'[k] = got[k]
        /\ \A j \in Conns : j # k => /\ wire'[j] = wire[j] /\ reader'[j] = reader[j]
                                     /\ need'[j] = need[j] /\ got'[j] = got[j]
    BY <2>1, <2>2, <1>4, ConnectionIs DEF Stages
  <2>4. /\ Stream(v, begun[k], whole[k], "body", n, got[k], size)
        /\ Current(wire[k], begun[k], whole[k], "prefix", got[k], size) =>
             Current(v, begun[k], whole[k], "body", got[k], size)
    <3>1. Facing(begun[k], got[k], size, i, m) /\ ReadAs(n, m)
      BY <1>3, <1>4, <1>6 DEF Facing
    <3>2. Stream(wire[k], begun[k], whole[k], "prefix", need[k], got[k], size)
      BY <1>1, ConnectionIs
    <3>. QED
      BY <2>2, <3>1, <3>2, ConnectionIs, ToBody
  <2>5. /\ Stream(wire'[k], begun[k], whole[k], reader'[k], need'[k], got'[k], size)
        /\ Current(wire[k], begun[k], whole[k], reader[k], got[k], size) =>
             Current(wire'[k], begun[k], whole[k], reader'[k], got'[k], size)
    BY <1>1, <2>3, <2>4, Zenon
  <2>. QED
    BY <1>2, <2>1, <2>3, <2>5, ReaderKeeps
<1>. QED
  BY <1>5, <1>6

\* readFrame reads a body.
LEMMA ReadBodyKeeps ==
  ASSUME FramingInv, NEW k \in Conns, ReadBody(k)
  PROVE  FramingInv'
<1>0. PICK body : body = SubSeq(wire[k], 1, need[k])
  OBVIOUS
<1>1. /\ reader[k] = "body" /\ need[k] <= Len(wire[k]) /\ UNCHANGED client
      /\ \/ ~Unmarshals(body) /\ End(k, "hungUp")
         \/ /\ Unmarshals(body)
            /\ reader' = [reader EXCEPT ![k] = "prefix"]
            /\ got' = [got EXCEPT ![k] = Append(got[k], body[1].of)]
            /\ wire' = [wire EXCEPT ![k] = SubSeq(wire[k], need[k] + 1, Len(wire[k]))]
            /\ need' = need
  <2>1. Len(wire[k]) \in Nat /\ need[k] \in Nat
    BY ConnectionIs
  <2>. QED
    BY <1>0, <2>1 DEF ReadBody
<1>2. ~(k > dials)
  BY <1>1, ConnectionIs
<1>3. PICK i, m : i = begun[k][Len(got[k]) + 1] /\ m = size[i]
  OBVIOUS
<1>4. Stream(wire[k], begun[k], whole[k], "body", need[k], got[k], size)
  BY <1>1, ConnectionIs
<1>5. Len(got[k]) < Len(begun[k]) /\ Facing(begun[k], got[k], size, i, m)
  BY <1>3, <1>4 DEF Stream, Reading, Facing
<1>6. /\ Unmarshals(body) => body[1].of = i /\ need[k] = m
      /\ ~Unmarshals(body) => m > MaxMessageSize
  <2>1. /\ wire[k] \in Seq(Byte) /\ begun[k] \in Seq(Nat) /\ whole[k] \in Nat
        /\ need[k] \in Nat /\ got[k] \in Seq(Nat) /\ size \in Seq(Length)
    BY ConnectionIs
  <2>2. PICK w, b, wh, nd, g :
          w = wire[k] /\ b = begun[k] /\ wh = whole[k] /\ nd = need[k] /\ g = got[k]
    OBVIOUS
  <2>3. /\ w \in Seq(Byte) /\ b \in Seq(Nat) /\ wh \in Nat /\ nd \in Nat /\ g \in Seq(Nat)
        /\ Stream(w, b, wh, "body", nd, g, size) /\ Facing(b, g, size, i, m)
    BY <2>1, <2>2, <1>4, <1>5
  <2>4. nd <= Len(w) /\ body = SubSeq(w, 1, nd)
    BY <2>2, <1>0, <1>1
  <2>5. /\ Unmarshals(SubSeq(w, 1, nd)) => SubSeq(w, 1, nd)[1].of = i /\ nd = m
        /\ ~Unmarshals(SubSeq(w, 1, nd)) => m > MaxMessageSize
    BY <2>1, <2>3, <2>4, BodyRead
  <2>. QED
    BY <2>2, <2>4, <2>5, Zenon
<1>7. CASE ~Unmarshals(body)
  <2>. "hungUp" \in Over
    BY DEF Over
  <2>. QED
    BY <1>1, <1>2, <1>3, <1>5, <1>6, <1>7, EndKeeps
<1>8. CASE Unmarshals(body)
  <2>1. i \in Nat
    <3>1. Len(got[k]) + 1 \in 1..Len(begun[k])
      BY <1>5, ConnectionIs
    <3>. QED
      BY <3>1, <1>3, ConnectionIs
  <2>2. /\ reader' = [reader EXCEPT ![k] = "prefix"]
        /\ got' = [got EXCEPT ![k] = Append(got[k], i)]
        /\ wire' = [wire EXCEPT ![k] = SubSeq(wire[k], need[k] + 1, Len(wire[k]))]
        /\ UNCHANGED <<size, conn, dials, eof, begun, whole, need>>
    BY <1>1, <1>6, <1>8 DEF client
  <2>3. PICK v \in Seq(Byte) :
          /\ v = SubSeq(wire[k], need[k] + 1, Len(wire[k]))
          /\ Drops(v, wire[k], need[k])
    <3>1. wire[k] \in Seq(Byte) /\ need[k] \in 0..Len(wire[k])
      BY <1>1, ConnectionIs
    <3>. QED
      BY <3>1, DropDrops
  <2>4. PICK h \in Seq(Nat) : h = Append(got[k], i) /\ Extends(h, got[k], i)
    <3>1. got[k] \in Seq(Nat)
      BY ConnectionIs
    <3>. QED
      BY <2>1, <3>1, AppendExtends
  <2>5. /\ wire' \in [Conns -> Seq(Byte)] /\ reader' \in [Conns -> Stages]
        /\ need' \in [Conns -> Nat] /\ got' \in [Conns -> Seq(Nat)]
        /\ wire'[k] = v /\ reader'[k] = "prefix" /\ need'[k] = need[k] /\ got'[k] = h
        /\ \A j \in Conns : j # k => /\ wire'[j] = wire[j] /\ reader'[j] = reader[j]
                                     /\ need'[j] = need[j] /\ got'[j] = got[j]
    BY <2>2, <2>3, <2>4, ConnectionIs DEF Stages
  <2>6. /\ Stream(v, begun[k], whole[k], "prefix", need[k], h, size)
        /\ Current(wire[k], begun[k], whole[k], "body", got[k], size) =>
             Current(v, begun[k], whole[k], "prefix", h, size)
    <3>1. Facing(begun[k], got[k], size, i, need[k])
      BY <1>5, <1>6, <1>8
    <3>. QED
      BY <2>1, <2>3, <2>4, <3>1, <1>4, ConnectionIs, ToPrefix
  <2>7. /\ Stream(wire'[k], begun[k], whole[k], reader'[k], need'[k], got'[k], size)
        /\ Current(wire[k], begun[k], whole[k], reader[k], got[k], size) =>
             Current(wire'[k], begun[k], whole[k], reader'[k], got'[k], size)
    BY <1>1, <2>5, <2>6, Zenon
  <2>. QED
    BY <1>2, <2>2, <2>5, <2>7, ReaderKeeps
<1>. QED
  BY <1>7, <1>8

\* At the end of the stream and when the connection is cut the reader leaves
\* without a verdict on the frame it was in.
LEMMA ReadEndKeeps ==
  ASSUME FramingInv, NEW k \in Conns, ReadEOF(k) \/ ReadCut(k)
  PROVE  FramingInv'
<1>1. PICK how \in {"eof", "cut"} : End(k, how)
  BY DEF ReadEOF, ReadCut
<1>2. UNCHANGED client /\ ~(k > dials)
  <2>1. CASE ReadEOF(k)
    BY <2>1, ConnectionIs DEF ReadEOF
  <2>2. CASE ReadCut(k)
    BY <2>2, FramingBounds DEF ReadCut, Conns, FramingInv, Typed
  <2>. QED
    BY <2>1, <2>2
<1>3. how \in Over /\ how # "hungUp"
  BY DEF Over
<1>. QED
  BY <1>1, <1>2, <1>3, EndKeeps

\* Every step keeps the invariant.
LEMMA StepKeeps == FramingInv /\ [Next]_vars => FramingInv'
<1>. SUFFICES ASSUME FramingInv, [Next]_vars  PROVE FramingInv'
  OBVIOUS
<1>1. CASE Dial
  BY <1>1, DialKeeps
<1>2. CASE Close
  BY <1>2, CloseKeeps
<1>3. ASSUME NEW n \in Sizes, WriteFrame(n)  PROVE FramingInv'
  BY <1>3, WriteFrameKeeps
<1>4. ASSUME NEW n \in Sizes, NEW m \in 0..(PrefixLen + n - 1), WriteFails(n, m)
      PROVE  FramingInv'
  BY <1>4, WriteFailsKeeps
<1>5. ASSUME NEW k \in Conns, ReadPrefix(k)  PROVE FramingInv'
  BY <1>5, ReadPrefixKeeps
<1>6. ASSUME NEW k \in Conns, ReadBody(k)  PROVE FramingInv'
  BY <1>6, ReadBodyKeeps
<1>7. ASSUME NEW k \in Conns, ReadEOF(k) \/ ReadCut(k)  PROVE FramingInv'
  BY <1>7, ReadEndKeeps
<1>8. CASE UNCHANGED vars
  BY <1>8 DEF vars, client, server, FramingInv, Typed
<1>. QED
  BY <1>1, <1>2, <1>3, <1>4, <1>5, <1>6, <1>7, <1>8 DEF Next, Reader, Quiet

-----------------------------------------------------------------------------
(* The theorems *)

\* The invariant holds throughout, whatever the client sends and wherever its
\* writes are torn or its connections cut.
THEOREM FramingInvariant == Spec => []FramingInv
  BY InitStarts, StepKeeps, PTL DEF Spec

\* What readFrame decodes from a connection is what send wrote to it in full, in
\* order and without a gap.
THEOREM FramesIntactHolds == Spec => []FramesIntact
<1>1. FramingInv => FramesIntact
  <2>. SUFFICES ASSUME FramingInv, NEW k \in Conns
                PROVE  IsPrefix(got[k], SubSeq(begun[k], 1, whole[k]))
    BY DEF FramesIntact
  <2>1. PICK b \in Seq(Nat), g \in Seq(Nat), h \in Nat :
          b = begun[k] /\ g = got[k] /\ h = whole[k]
    BY ConnectionIs
  <2>2. Len(g) <= h /\ h <= Len(b) /\ \A i \in 1..Len(g) : g[i] = b[i]
    BY <2>1, ConnectionIs DEF Stream, Decoded, Torn
  <2>3. h \in 0..Len(b)
    BY <2>2
  <2>4. PICK c : /\ c = SubSeq(b, 1, h) /\ c \in Seq(Nat) /\ Len(c) = h
                 /\ \A i \in 1..h : c[i] = b[i]
    BY <2>3, TakeIs
  <2>5. Len(g) \in 0..Len(c) /\ Len(g) \in 0..Len(g)
    BY <2>2, <2>4
  <2>6. /\ SubSeq(g, 1, Len(g)) \in Seq(Nat) /\ Len(SubSeq(g, 1, Len(g))) = Len(g)
        /\ \A i \in 1..Len(g) : SubSeq(g, 1, Len(g))[i] = g[i]
    BY <2>5, TakeIs
  <2>7. /\ SubSeq(c, 1, Len(g)) \in Seq(Nat) /\ Len(SubSeq(c, 1, Len(g))) = Len(g)
        /\ \A i \in 1..Len(g) : SubSeq(c, 1, Len(g))[i] = c[i]
    BY <2>4, <2>5, TakeIs
  <2>8. \A i \in 1..Len(g) : SubSeq(g, 1, Len(g))[i] = SubSeq(c, 1, Len(g))[i]
    BY <2>2, <2>4, <2>6, <2>7
  <2>9. SubSeq(g, 1, Len(g)) = SubSeq(c, 1, Len(g))
    BY <2>6, <2>7, <2>8, SameSeq
  <2>. QED
    BY <2>1, <2>2, <2>4, <2>9 DEF IsPrefix
<1>. QED
  BY <1>1, FramingInvariant, PTL

\* The gateway hangs up at an envelope over MaxMessageSize, and only there: a
\* length that wraps around in its prefix does not slip through.
THEOREM HangsUpAtLimitHolds == Spec => []HangsUpAtLimit
<1>1. FramingInv => HangsUpAtLimit
  <2>. SUFFICES ASSUME FramingInv, NEW k \in Conns
                PROVE  /\ \A i \in 1..Len(got[k]) : size[got[k][i]] <= MaxMessageSize
                       /\ reader[k] = "hungUp" =>
                            size[begun[k][Len(got[k]) + 1]] > MaxMessageSize
    BY DEF HangsUpAtLimit
  <2>1. Stream(wire[k], begun[k], whole[k], reader[k], need[k], got[k], size)
    BY ConnectionIs
  <2>. QED
    BY <2>1, Zenon DEF Stream, Decoded, Reading
<1>. QED
  BY <1>1, FramingInvariant, PTL
=============================================================================
