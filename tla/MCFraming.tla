------------------------------ MODULE MCFraming -----------------------------
(* Frames on the connections of one shard (MCFraming.cfg).                 *)
EXTENDS Framing
=============================================================================
