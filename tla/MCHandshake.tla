---------------------------- MODULE MCHandshake ----------------------------
(***************************************************************************)
(* Handshake for every pair of configurations.                             *)
(***************************************************************************)
EXTENDS Handshake

MCConfig == {c \in ConfigType : \A e \in End : c[e].prepares => c[e].provider}
=============================================================================
