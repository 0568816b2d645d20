------------------------------ MODULE LogFilters ------------------------------
(***************************************************************************)
(* What the filters of util/loghttp take out of a dump before it is        *)
(* logged.  A dump is a sequence of tokens: the request line and each      *)
(* header line are one, a line end is CRLF, and so is every byte of the    *)
(* body.                                                                   *)
(***************************************************************************)
EXTENDS Naturals, Sequences, FiniteSetsExt

CONSTANTS
    Filters,  \* names of the filters the program installed, in their order
    Listed,   \* header lines whose name matches the allowlist
    MaxBody   \* what NewBodyElider is called with

CRLF == "\r\n"
Dots == <<".", ".", ".">>

(* The regular expression of an allowlist asks for a name and a colon.     *)
ASSUME ListedAssumption  == Listed \subseteq STRING \ {CRLF}
ASSUME MaxBodyAssumption == MaxBody \in Nat

(* cmd/diffs installs no filter, api/diff-service.go two.                  *)
Installed == <<"BodyElider", "HeaderAllowlist">>
ASSUME FiltersAssumption == Filters \in {<<>>, Installed}

(* Where the blank line that ends the headers starts; 0 without one, as in *)
(* the body of a response, which is dumped alone.                          *)
BlankAt(dump, i) == dump[i] = CRLF /\ dump[i + 1] = CRLF
EndHeaders(dump) ==
    LET blank == {i \in 1..(Len(dump) - 1) : BlankAt(dump, i)}
    IN  IF blank = {} THEN 0 ELSE Min(blank)

BeforeBody(dump) == IF EndHeaders(dump) = 0 THEN 0 ELSE EndHeaders(dump) + 1
Body(dump)       == SubSeq(dump, BeforeBody(dump) + 1, Len(dump))

(* NewBodyElider: at least room for the dots and something before them.    *)
ElideTo == IF MaxBody < 6 THEN 6 ELSE MaxBody

(* Mutant of BodyElider: the dots do not count.                            *)
DotsAreExtra(dump) ==
    LET half == ElideTo \div 2
    IN  IF Len(Body(dump)) <= ElideTo THEN dump
        ELSE SubSeq(dump, 1, BeforeBody(dump) + half) \o Dots
             \o SubSeq(dump, Len(dump) - (ElideTo - half) + 1, Len(dump))

BodyElider(dump) ==
    LET half == ElideTo \div 2
    IN  IF Len(Body(dump)) <= ElideTo THEN dump
        ELSE SubSeq(dump, 1, BeforeBody(dump) + half) \o Dots
             \o SubSeq(dump, Len(dump) - (ElideTo - half - 3) + 1, Len(dump))

Unlisted(line) == line \notin Listed \cup {CRLF}  \* mutant of Allowed: what to leave out
Allowed(line) == line \in Listed

(* The request line, and of the header lines up to token n those listed.   *)
Kept(dump, n) ==
    LET kept[i \in 1..n] ==
            IF i = 1 THEN <<dump[1], CRLF>>
            ELSE IF Allowed(dump[i]) THEN kept[i - 1] \o <<dump[i], CRLF>>
            ELSE kept[i - 1]
    IN  kept[n]

HeaderAllowlist(dump) ==
    IF EndHeaders(dump) = 0 THEN dump
    ELSE Kept(dump, EndHeaders(dump) - 1) \o <<CRLF>> \o Body(dump)

Apply(name, dump) == IF name = "BodyElider" THEN BodyElider(dump) ELSE HeaderAllowlist(dump)

(* filter: what the first n of them leave of a dump.                       *)
Filter(dump) ==
    LET filtered[n \in 0..Len(Filters)] ==
            IF n = 0 THEN dump ELSE Apply(Filters[n], filtered[n - 1])
    IN  filtered[Len(Filters)]
===============================================================================
