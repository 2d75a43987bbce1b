--------------------------- MODULE MCReplyCheckpoint ---------------------------
(***************************************************************************)
(* A turn of two words, with room for one in a checkpoint, and a turn of   *)
(* one word after it, with MaxIncidents crashes and failed writes.         *)
(***************************************************************************)
EXTENDS ReplyCheckpoint

TwoThenOne == <<2, 1>>
=============================================================================
