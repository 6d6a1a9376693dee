------------------------- MODULE MCSocketConnection -------------------------
(* The host of the proxy with a client in a browser, or with one that uses *)
(* the package ws and may be refused.                                      *)
EXTENDS SocketConnection

CONSTANTS server1, browser1, guest1
=============================================================================
