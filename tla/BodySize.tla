------------------------------ MODULE BodySize ------------------------------
(***************************************************************************)
(* pkg/logtrack/http.go: how large the SDK thinks an HTTP body is once it  *)
(* is JSON, without making the JSON, and when it drops the body.           *)
(*                                                                         *)
(* A body is a tree of Go values, records with a kind: "nil" (an invalid   *)
(* value, a nil pointer, interface, slice or map), "ptr" with an elem,     *)
(* "text" for a number or a boolean, with the length strconv gives it and  *)
(* the length json does, "string" with chars, "bytes" and "byteArray" (a   *)
(* slice and an array of bytes), "list" with elems, "map" and "struct"     *)
(* with entries of a name, a tag and a val (the key or Go name that is     *)
(* measured and the one json writes), and "other" for what has no JSON.    *)
(* A char stands for its class: "a" for what JSON copies, "quote" for the  *)
(* quote and the backslash, "nl" for the control characters JSON has a     *)
(* short escape for, "ctl" for the others, and "html" for <, > and &.      *)
(***************************************************************************)
EXTENDS Integers, Sequences, SequencesExt

\* The sum of Weight over a sequence
SumOf(Weight(_), s) == FoldLeft(LAMBDA n, x : n + Weight(x), 0, s)

-----------------------------------------------------------------------------
(* Faulty variants of the definitions below, one plausible mistake each *)

\* The budget is spent when nothing is left, not when too little was.
ExceedsAtZero(r) == r <= 0

-----------------------------------------------------------------------------
(* The estimate *)

jsonStringLen(s) ==
  2 + SumOf(LAMBDA c : CASE c = "quote" -> 2
                         [] c \in {"nl", "ctl"} -> 6
                         [] OTHER -> 1, s)

\* base64.StdEncoding.EncodedLen
EncodedLen(n) == 4 * ((n + 2) \div 3)

\* The budget after consumeSize, and whether it is overdrawn: every caller
\* returns at once when it is.
consumeSize(r, n) == IF r < 0 THEN r ELSE r - n
Exceeded(r) == r < 0

\* The walk of the value tree.  A container is its brackets and its items,
\* with a comma before all but the first.
RECURSIVE consumeJSONSize(_, _)
consumeJSONSize(v, r) ==
  LET Items(Item(_, _), s) ==
        consumeSize(
          FoldLeft(LAMBDA acc, i :
                     Item(s[i], IF i = 1 THEN acc ELSE consumeSize(acc, 1)),
                   consumeSize(r, 1), [i \in 1..Len(s) |-> i]), 1)
      Entry(e, acc) ==
        consumeJSONSize(e.val,
                        consumeSize(consumeSize(acc, jsonStringLen(e.name)), 1))
  IN CASE v.kind = "nil" -> consumeSize(r, 4)
       [] v.kind = "ptr" -> consumeJSONSize(v.elem, r)
       [] v.kind = "string" -> consumeSize(r, jsonStringLen(v.chars))
       [] v.kind = "text" -> consumeSize(r, v.len)
       [] v.kind \in {"bytes", "byteArray"} ->
            consumeSize(r, EncodedLen(v.len) + 2)
       [] v.kind = "list" -> Items(consumeJSONSize, v.elems)
       [] v.kind \in {"map", "struct"} -> Items(Entry, v.entries)
       [] OTHER -> r

\* The declared size is trusted when there is one.
bodyExceedsLimit(body, declared, limit) ==
  \/ declared > limit
  \/ declared <= 0 /\ Exceeded(consumeJSONSize(body, limit))

\* truncateInbound and truncateOutbound, for one of the two bodies
Truncate(body, declared, limit) ==
  IF body.kind # "nil" /\ bodyExceedsLimit(body, declared, limit)
    THEN [kind |-> "nil"] ELSE body

-----------------------------------------------------------------------------
(* What encoding/json makes of a value: the reference *)

StringLen(s) ==
  2 + SumOf(LAMBDA c : CASE c \in {"quote", "nl"} -> 2
                         [] c \in {"ctl", "html"} -> 6
                         [] OTHER -> 1, s)

\* The values are those that encoding/json goes through by kind.  One that marshals
\* itself (json.RawMessage, json.Number, time.Time) is none of them.
RECURSIVE JSONLen(_)
JSONLen(v) ==
  LET Listed(Weight(_), s) ==
        2 + SumOf(Weight, s) + (IF s = <<>> THEN 0 ELSE Len(s) - 1)
  IN CASE v.kind = "nil" -> 4
       [] v.kind = "ptr" -> JSONLen(v.elem)
       [] v.kind = "string" -> StringLen(v.chars)
       [] v.kind \in {"text", "byteArray"} -> v.json
       [] v.kind = "bytes" -> EncodedLen(v.len) + 2
       [] v.kind = "list" -> Listed(JSONLen, v.elems)
       [] v.kind \in {"map", "struct"} ->
            Listed(LAMBDA e : StringLen(e.tag) + 1 + JSONLen(e.val), v.entries)

\* Values all of whose names are written as they are measured, and, if exact,
\* whose strings and numbers are too
RECURSIVE Regular(_, _)
Regular(v, exact) ==
  LET Chars == IF exact THEN {"a", "quote", "ctl"}
               ELSE {"a", "quote", "ctl", "nl", "html"}
  IN CASE v.kind = "ptr" -> Regular(v.elem, exact)
       [] v.kind = "string" -> Range(v.chars) \subseteq Chars
       [] v.kind = "list" -> \A i \in DOMAIN v.elems : Regular(v.elems[i], exact)
       [] v.kind \in {"map", "struct"} ->
            \A i \in DOMAIN v.entries :
              /\ Regular(v.entries[i].val, exact)
              /\ v.entries[i].name = v.entries[i].tag
              /\ Range(v.entries[i].tag) \subseteq Chars
       [] v.kind = "text" -> exact => v.len = v.json
       [] v.kind = "byteArray" -> ~exact
       [] OTHER -> v.kind \in {"nil", "bytes"}
=============================================================================
