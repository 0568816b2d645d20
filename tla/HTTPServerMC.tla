----------------------------- MODULE HTTPServerMC -----------------------------
(***************************************************************************)
(* Constants for checking HTTPServer with TLC.                             *)
(***************************************************************************)
EXTENDS HTTPServer, TLC

Bytes(n) == [i \in 1..n |-> <<"a", "b", "c", "d", "e", "f", "g", "h", "i">>[i]]

(* As in api/diff-service.go, two headers are listed and two are not: one  *)
(* for which the allowlist has another spelling, and one without.          *)
AllowedLines == {"Host", "Authorization"}

Asked(body) == <<"POST", CRLF, "Host", CRLF, "X-Replicache-Syncid", CRLF,
                 "Authorization", CRLF, "Cookie", CRLF, CRLF>> \o body

(* Without a body, with one of the maximal size, and with a longer one.    *)
AskedDumps == {Asked(Bytes(n)) : n \in {0, 7, 8}}
OneDump    == {Asked(Bytes(0))}

(* cmd/diffs logs dumps as they are.                                       *)
NoFilters == <<>>

LongText  == Bytes(9)
ShortText == <<"x", "y">>

Symmetry == Permutations(Requests)
===============================================================================
