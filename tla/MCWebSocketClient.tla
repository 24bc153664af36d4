-------------------------- MODULE MCWebSocketClient --------------------------
(* Four calls over two sockets and two miliseconds: a request answered on a *)
(* replaced socket while another one waits on the new one.                  *)
EXTENDS WebSocketClient
==============================================================================
