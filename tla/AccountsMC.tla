------------------------------ MODULE AccountsMC ------------------------------
(***************************************************************************)
(* Constants for checking Accounts with TLC.                               *)
(***************************************************************************)
EXTENDS AccountsProps, TLC

CONSTANTS h1, h2, p1, p2, r1, r2, u1, u2

(* One regular account, ID 0, with one host.                               *)
Regular == 0 :> {h1}

(* A host for each pull, so that both want to be the one an account keeps; *)
(* one of the requests may also be an injection.                           *)
OneHostEach == r1 :> [id : {0, 1}, host : {h1}]
            @@ r2 :> [id : {0, 1}, host : {h2}] \cup {[id |-> 1, host |-> NoHost]}

(* Pulls that share a process may ask for the same host or for two.        *)
SameOrOther == r1 :> [id : {1}, host : {h1}] @@ r2 :> [id : {1}, host : {h1, h2}]
AnyOfTwo    == [r \in {r1, r2} |-> [id : {0, 1}, host : {h1, h2}]]

(* Every pull handler has a process of its own, or both share one.         *)
OwnProcess    == r1 :> p1 @@ r2 :> p2
SharedProcess == r1 :> p1 @@ r2 :> p1

SymSignups == Permutations(Signups)
===============================================================================
