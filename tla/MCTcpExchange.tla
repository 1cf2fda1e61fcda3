---------------------------- MODULE MCTcpExchange ----------------------------
(***************************************************************************)
(* A small instance of TcpExchange for TLC.                                *)
(***************************************************************************)
EXTENDS TcpExchange

\* Less than a block, and more; with a line feed where an asset could end early
Files == {<<"a">>, <<"a", "b">>, <<"a", "LF", "c">>, <<"a", "b", "c", "LF">>}
=============================================================================
