----------------------------- MODULE DiffServerMC -----------------------------
(***************************************************************************)
(* Constants for checking DiffServer with TLC.                             *)
(***************************************************************************)
EXTENDS DiffServerProps, TLC

(* A checksum that tells any two views apart: a bit of its own per entry.  *)
ExactHash(k, v) == {<<k, v>>}

SymRequests         == Permutations(Requests)
SymRequestsAndDates == Permutations(Requests) \cup Permutations(Dates)
===============================================================================
