----------------------- MODULE MCMachExceptionServer -----------------------
(* An instance of MachExceptionServer for TLC.                             *)
EXTENDS MachExceptionServer, TLC

CONSTANTS c1, c2, c3

ThreeClients == {c1, c2, c3}
EitherAnswer == BOOLEAN
OneGuarded == {c1}
=============================================================================
