------------------------------- MODULE MCWsApi -------------------------------
(* Model-checking instances of the WebSocket API client. *)
EXTENDS WsApi

MCBeatIds == {1}
===============================================================================
