----------------------------- MODULE MCRpcClient ----------------------------
(* A small instance of RpcClient for TLC: a first endpoint and a fallback,   *)
(* and enough calls for a kept connection and for a repeated answer.         *)
EXTENDS RpcClient

FirstAndFallback == 2
ThreeCalls == 3
=============================================================================
