---------------------------- MODULE MCSecretStore ----------------------------
(* Instances of SecretStore for TLC. *)
EXTENDS SecretStore

CONSTANTS short, long, longer

MCValues == {short, long, longer}

\* a value of one entry, one of two chunks, one of three
MCPieces == [v \in MCValues |-> CASE v = short -> 0 [] v = longer -> 3 [] OTHER -> 2]
=============================================================================
