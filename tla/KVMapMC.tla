------------------------------- MODULE KVMapMC -------------------------------
(***************************************************************************)
(* Constants for checking KVMap with TLC.                                  *)
(***************************************************************************)
EXTENDS KVMap

(* Entries share bits, as the hashes of an affine checksum do.             *)
SharedHash(k, v) == {k, v, <<k, v>>}
===============================================================================
