--------------------------- MODULE MCProxyConnection ---------------------------
(***************************************************************************)
(* Two tasks that make three calls between them, over two daemons one of   *)
(* which an earlier launch may have left, with one death or failure.       *)
(***************************************************************************)
EXTENDS ProxyConnection
=============================================================================
