------------------------------- MODULE MCConn -------------------------------
(***************************************************************************)
(* Conn with the goroutines of AtServer at the server and the others at    *)
(* the client.                                                             *)
(***************************************************************************)
EXTENDS Conn, TLC

CONSTANT AtServer

MCEndOf == [g \in Goroutine |-> IF g \in AtServer THEN "server" ELSE "client"]
Symmetry == Permutations(Writer) \cup Permutations(Reader)
=============================================================================
