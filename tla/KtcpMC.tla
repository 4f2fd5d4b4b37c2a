------------------------------- MODULE KtcpMC -------------------------------
(***************************************************************************)
(* The server, the client and one other program that connects.             *)
(***************************************************************************)
EXTENDS KtcpClient

CONSTANTS c1, c2

\* Text that leaves room for a zero, and text that fills a buffer of two.
Others == {<<"text">>, <<"text", "text">>}
=============================================================================
