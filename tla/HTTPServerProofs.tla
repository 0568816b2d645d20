--------------------------- MODULE HTTPServerProofs ---------------------------
(***************************************************************************)
(* Theorems about HTTPServer, for every value of its constants.            *)
(***************************************************************************)
EXTENDS HTTPServer, Integers, FiniteSetTheorems, SequenceTheorems, WellFoundedInduction, TLAPS

Labels == {"new", "context", "dump", "handler", "calls", "logResponse",
           "recover", "finish", "done", "cut"}
Outcomes == {"none", "ok", "refused", "failed", "panicked"}

Texts  == {<<>>, ResponseText, ErrorText, ErrorText \o ErrorText}
Forms  == {"plain", "zipped", "part"}
Answer == [status : Statuses, body : [text : Seq(STRING), form : Forms]]
Pieces == [text : {<<>>, ResponseText, ErrorText}, form : Forms]
Calls  == [call : {"header"}, status : Statuses \ {0}]
          \cup [call : {"write"}, checked : BOOLEAN, body : Pieces]

AnyDump  == Dumps \cup {<<>>}
AnyCalls == Seq(Calls)

Request ==
    [pc : Labels, route : Routes, life : Nat, rid : Nat, dump : AnyDump,
     open : BOOLEAN, outcome : Outcomes, calls : AnyCalls, w : Answer, seen : Answer]

-------------------------------------------------------------------------------
(* The inductive invariant.                                                *)

(* Requests are of the lives there were; only the current one has running  *)
(* ones.                                                                   *)
ProcessInv ==
    /\ process \in [up : BOOLEAN, life : 0..MaxLives, reqID : Nat]
    /\ req \in [Requests -> Request]
    /\ answer \in [Requests -> Answer]
    /\ \A r \in Requests :
          /\ req[r].life <= process.life
          /\ Running(r) => process.up /\ req[r].life = process.life

Numbered == {r \in Requests : req[r].life = process.life /\ req[r].rid # 0}

(* A life's counter counts the requests that it numbered.                  *)
RidInv ==
    /\ Cardinality(Numbered) = process.reqID
    /\ \A r \in Requests :
          /\ req[r].pc \in {"new", "context"} => req[r].rid = 0
          /\ req[r].life = process.life => req[r].rid <= process.reqID
    /\ \A r, q \in Requests :
          req[r].life = req[q].life /\ req[r].rid = req[q].rid /\ req[r].rid # 0 => r = q

(* What a handler can have written when these calls are left: nothing yet, *)
(* the first of two errors, or all.                                        *)
IsWrite(calls, i) == calls[i].call = "write" /\ calls[i].body.text # <<>>
IsError(calls, i) == calls[i].call = "write" /\ calls[i].body.text = ErrorText

WritesOnce(calls) ==
    \A i \in 1..Len(calls) : IsWrite(calls, i) =>
        \/ i = Len(calls)
        \/ i = Len(calls) - 1 /\ IsError(calls, i) /\ IsError(calls, Len(calls))
ErrorAtEnd(calls) ==
    \A i \in 1..Len(calls) : IsWrite(calls, i) => i = Len(calls) /\ IsError(calls, i)
WritesNothing(calls) == \A i \in 1..Len(calls) : ~IsWrite(calls, i)

Fits(text, calls) ==
    \/ text = <<>> /\ WritesOnce(calls)
    \/ text = ErrorText /\ ErrorAtEnd(calls)
    \/ text \in Texts /\ WritesNothing(calls)

(* The status a handler's answer will have.                                *)
Eventual(w, calls) ==
    IF w.status # 0 THEN w.status
    ELSE IF calls = <<>> \/ Head(calls).call # "header" THEN 200
    ELSE Head(calls).status

Tells(status, outcome) ==
    /\ status = 200 <=> outcome = "ok"
    /\ status = 500 <=> outcome \in {"failed", "panicked"}

HandlerInv(r) ==
    /\ req[r].pc \in {"context", "dump", "logResponse"} => req[r].route = "pull"
    /\ req[r].pc \in {"new", "context", "dump", "handler"} =>
          /\ req[r].outcome = "none"
          /\ req[r].seen.body = Unwritten.body
    /\ req[r].pc \in {"new", "context", "dump", "handler", "recover"} => req[r].w = Unwritten
    /\ req[r].pc # "calls" /\ req[r].pc # "cut" => req[r].calls = <<>>
    /\ req[r].pc = "recover" => req[r].outcome = "panicked" /\ req[r].route \in Caught
    /\ Fits(req[r].w.body.text, req[r].calls)
    /\ Fits(req[r].seen.body.text, req[r].calls)
    /\ req[r].pc \in {"calls", "logResponse", "finish"} /\ req[r].route \in Caught
          => Tells(Eventual(req[r].w, req[r].calls), req[r].outcome)

(* A pull writes at most one status, and before everything else.           *)
HeaderFirst(w, calls) ==
    \A i \in 1..Len(calls) : calls[i].call = "header" => i = 1 /\ w.status = 0

(* When these calls are done the body is no part of a gzip file.           *)
IsPart(calls, i) == calls[i].call = "write" /\ calls[i].body.form = "part"

Completes(calls) ==
    /\ calls # <<>>
    /\ calls[Len(calls)].call = "write" /\ calls[Len(calls)].body.form # "part"
EndsWhole(body, calls) ==
    \/ Completes(calls)
    \/ body.form # "part" /\ \A i \in 1..Len(calls) : ~IsPart(calls, i)

(* While its client listens, responseLogger has seen what was written.     *)
SeenInv(r) ==
    /\ req[r].pc = "handler" /\ req[r].route = "pull" => req[r].seen.status = 200
    /\ req[r].pc \in {"calls", "logResponse"} /\ req[r].route = "pull" /\ req[r].open =>
          /\ req[r].seen.body = req[r].w.body
          /\ EndsWhole(req[r].seen.body, req[r].calls)
          /\ req[r].seen.status = (IF req[r].w.status = 0 THEN 200 ELSE req[r].w.status)
          /\ HeaderFirst(req[r].w, req[r].calls)

Asked  == {"request", "no dump"}
Ending == {"response", "panic", "no dump"}

LinesInv(r) ==
    /\ \A l \in log : l.of = r =>
          /\ l.status \in Statuses
          /\ l.rid = req[r].rid /\ l.life = req[r].life
          /\ req[r].pc \notin {"new", "context", "dump"}
          /\ l.kind \in Ending => req[r].pc \in {"finish", "done", "cut"}
    /\ req[r].route = "pull" =>
          /\ req[r].pc \in {"handler", "calls", "logResponse", "recover", "finish", "done"}
                => \E l \in log : LinesOf(r, Asked) = {l}
          /\ req[r].pc \in {"finish", "done"} => \E l \in log : LinesOf(r, Ending) = {l}

AnswerInv(r) ==
    /\ req[r].pc # "done" => answer[r] = Unwritten
    /\ answer[r].body.text \in Texts
    /\ req[r].pc = "finish" /\ req[r].open =>
          \A l \in LinesOf(r, {"response"}) :
              l.status = Headed(req[r].w, 200).status /\ l.text = Filter(req[r].w.body.text)
    /\ req[r].pc = "done" =>
          /\ answer[r].status # 0 /\ req[r].route \in Caught => Tells(answer[r].status, req[r].outcome)
          /\ req[r].open =>
                \A l \in LinesOf(r, {"response"}) :
                    l.status = answer[r].status /\ l.text = Filter(answer[r].body.text)

RequestInv(r) == HandlerInv(r) /\ SeenInv(r) /\ LinesInv(r) /\ AnswerInv(r)

HTTPServerInv ==
    /\ ProcessInv
    /\ RidInv
    /\ \A l \in log : l.of \in Requests
    /\ \A r \in Requests : RequestInv(r)

-------------------------------------------------------------------------------
(* Calls of the ResponseWriter.                                            *)

LEMMA TextFacts ==
    /\ ResponseText \in Seq(STRING) /\ ErrorText \in Seq(STRING)
    /\ Texts \subseteq Seq(STRING)
    /\ \A t \in Seq(STRING) : <<>> \o t = t /\ t \o <<>> = t
BY TextsAssumption DEF Texts

LEMMA CallsFacts ==
    ASSUME NEW calls \in Seq(Calls), calls # <<>>
    PROVE  /\ Head(calls) \in Calls /\ Head(calls) = calls[1]
           /\ Tail(calls) \in Seq(Calls)
           /\ Len(calls) \in Nat /\ Len(calls) >= 1
           /\ Len(Tail(calls)) = Len(calls) - 1
           /\ \A i \in 1..Len(Tail(calls)) : Tail(calls)[i] = calls[i + 1]
OBVIOUS

LEMMA CallKinds ==
    ASSUME NEW c \in Calls
    PROVE  \/ /\ c.call = "header"
              /\ c.status \in Statuses \ {0}
           \/ /\ c.call = "write"
              /\ c.checked \in BOOLEAN
              /\ c.body \in Pieces
              /\ c.body.text \in {<<>>, ResponseText, ErrorText} /\ c.body.form \in Forms
BY DEF Calls, Pieces

LEMMA FitsTexts ==
    ASSUME NEW text, NEW calls, Fits(text, calls)
    PROVE  text \in Texts
BY DEF Fits, Texts

LEMMA FitsEmpty ==
    ASSUME NEW text \in Texts
    PROVE  Fits(text, <<>>)
BY DEF Fits, WritesNothing

LEMMA FitsTail ==
    ASSUME NEW calls \in Seq(Calls), calls # <<>>
    PROVE  /\ WritesOnce(calls) => WritesOnce(Tail(calls))
           /\ ErrorAtEnd(calls) => ErrorAtEnd(Tail(calls))
           /\ WritesNothing(calls) => WritesNothing(Tail(calls))
           /\ \A text : Fits(text, calls) => Fits(text, Tail(calls))
<1> DEFINE rest == Tail(calls)
<1>1. /\ Len(calls) \in Nat /\ Len(rest) = Len(calls) - 1 /\ Len(calls) >= 1
      /\ \A i \in 1..Len(rest) : rest[i] = calls[i + 1]
  BY CallsFacts
<1>2. \A i \in 1..Len(rest) : i + 1 \in 1..Len(calls)
  BY <1>1
<1> HIDE DEF rest
<1>3. WritesOnce(calls) => WritesOnce(rest)
  <2> SUFFICES ASSUME WritesOnce(calls), NEW i \in 1..Len(rest), IsWrite(rest, i), i # Len(rest)
               PROVE  i = Len(rest) - 1 /\ IsError(rest, i) /\ IsError(rest, Len(rest))
    BY DEF WritesOnce
  <2>1. IsWrite(calls, i + 1) /\ i + 1 # Len(calls)
    BY <1>1 DEF IsWrite
  <2>2. i + 1 = Len(calls) - 1 /\ IsError(calls, i + 1) /\ IsError(calls, Len(calls))
    BY <1>2, <2>1 DEF WritesOnce
  <2>3. i = Len(rest) - 1 /\ Len(rest) \in 1..Len(rest)
    BY <1>1, <2>2
  <2> QED BY <1>1, <2>2, <2>3 DEF IsError
<1>4. ErrorAtEnd(calls) => ErrorAtEnd(rest)
  BY <1>1, <1>2 DEF ErrorAtEnd, IsWrite, IsError
<1>5. WritesNothing(calls) => WritesNothing(rest)
  BY <1>1, <1>2 DEF WritesNothing, IsWrite
<1>6. \A text : Fits(text, calls) => Fits(text, rest)
  BY <1>3, <1>4, <1>5 DEF Fits
<1> QED BY <1>3, <1>4, <1>5, <1>6 DEF rest

(* A handler writes one text, or the one for errors twice.                 *)
LEMMA FitsWritten ==
    ASSUME NEW calls \in Seq(Calls), calls # <<>>, Head(calls).call = "write",
           NEW text, Fits(text, calls)
    PROVE  Fits(text \o Head(calls).body.text, Tail(calls))
<1> DEFINE rest == Tail(calls)
           t == Head(calls).body.text
<1>1. /\ Len(calls) \in Nat /\ Len(rest) = Len(calls) - 1 /\ Len(calls) >= 1
      /\ \A i \in 1..Len(rest) : rest[i] = calls[i + 1]
      /\ Head(calls) = calls[1]
  BY CallsFacts
<1>2. 1 \in 1..Len(calls) /\ (t # <<>> => IsWrite(calls, 1))
  BY <1>1 DEF IsWrite
<1>3. t \in {<<>>, ResponseText, ErrorText}
  BY CallsFacts, CallKinds
<1>4. IsError(calls, 1) => t = ErrorText
  BY <1>1 DEF IsError
<1>5. SUFFICES Fits(text \o t, rest)
  OBVIOUS
<1>9. Fits(text, rest)
  BY FitsTail
<1> HIDE DEF rest, t
<1>10. CASE t = <<>>
  <2>1. text \o t = text
    BY <1>10, FitsTexts, TextFacts
  <2> QED BY <1>9, <2>1
<1>6. CASE t # <<>> /\ text = <<>> /\ WritesOnce(calls)
  <2>1. text \o t = t /\ t \in Texts
    BY <1>3, <1>6, TextFacts DEF Texts
  <2>2. CASE Len(calls) = 1
    <3>1. WritesNothing(rest)
      BY <1>1, <2>2 DEF WritesNothing
    <3> QED BY <2>1, <3>1 DEF Fits
  <2>3. CASE Len(calls) # 1
    <3>1. Len(calls) = 2 /\ t = ErrorText /\ IsError(calls, 2)
      BY <1>1, <1>2, <1>4, <1>6, <2>3 DEF WritesOnce
    <3>2. Len(rest) = 1 /\ rest[1] = calls[2]
      BY <1>1, <3>1
    <3>3. ErrorAtEnd(rest)
      BY <3>1, <3>2 DEF ErrorAtEnd, IsError
    <3> QED BY <2>1, <3>1, <3>3 DEF Fits
  <2> QED BY <2>2, <2>3
<1>7. CASE t # <<>> /\ text = ErrorText /\ ErrorAtEnd(calls)
  <2>1. Len(calls) = 1 /\ t = ErrorText
    BY <1>1, <1>2, <1>4, <1>7 DEF ErrorAtEnd
  <2>2. text \o t \in Texts
    BY <1>7, <2>1 DEF Texts
  <2>3. WritesNothing(rest)
    BY <1>1, <2>1 DEF WritesNothing
  <2> QED BY <2>2, <2>3 DEF Fits
<1>8. CASE t # <<>> /\ WritesNothing(calls)
  BY <1>2, <1>8 DEF WritesNothing
<1> QED BY <1>6, <1>7, <1>8, <1>10 DEF Fits

LEMMA EndsWholeTail ==
    ASSUME NEW calls \in Seq(Calls), calls # <<>>, NEW body, EndsWhole(body, calls)
    PROVE  /\ Head(calls).call = "header" => EndsWhole(body, Tail(calls))
           /\ Head(calls).call = "write"
                 => \A more : more.form = Head(calls).body.form => EndsWhole(more, Tail(calls))
<1> DEFINE rest == Tail(calls)
<1>1. /\ Len(calls) \in Nat /\ Len(rest) = Len(calls) - 1 /\ Len(calls) >= 1
      /\ \A i \in 1..Len(rest) : rest[i] = calls[i + 1] /\ i + 1 \in 1..Len(calls)
      /\ Head(calls) = calls[1] /\ rest \in Seq(Calls) /\ 1 \in 1..Len(calls)
  BY CallsFacts
<1> HIDE DEF rest
<1>2. Len(calls) # 1 => rest # <<>> /\ rest[Len(rest)] = calls[Len(calls)]
  <2> SUFFICES ASSUME Len(calls) # 1 PROVE rest # <<>> /\ rest[Len(rest)] = calls[Len(calls)]
    OBVIOUS
  <2>1. Len(rest) \in 1..Len(rest) /\ Len(rest) + 1 = Len(calls)
    BY <1>1
  <2>2. rest[Len(rest)] = calls[Len(rest) + 1]
    BY <1>1, <2>1
  <2> QED BY <2>1, <2>2
<1>3. Len(calls) = 1 => \A i \in 1..Len(rest) : FALSE
  BY <1>1
<1>4. CASE Completes(calls)
  <2>1. CASE Len(calls) = 1
    <3>1. Head(calls).call = "write" /\ Head(calls).body.form # "part"
      BY <1>1, <1>4, <2>1 DEF Completes
    <3>2. \A i \in 1..Len(rest) : ~IsPart(rest, i)
      BY <1>3, <2>1
    <3> QED BY <3>1, <3>2 DEF EndsWhole, rest
  <2>2. CASE Len(calls) # 1
    <3>1. Completes(rest)
      BY <1>2, <1>4, <2>2 DEF Completes
    <3> QED BY <3>1 DEF EndsWhole, rest
  <2> QED BY <2>1, <2>2
<1>5. CASE body.form # "part" /\ \A i \in 1..Len(calls) : ~IsPart(calls, i)
  <2>1. \A i \in 1..Len(rest) : ~IsPart(rest, i)
    BY <1>1, <1>5 DEF IsPart
  <2>2. Head(calls).call = "write" => Head(calls).body.form # "part"
    BY <1>1, <1>5 DEF IsPart
  <2> QED BY <1>5, <2>1, <2>2 DEF EndsWhole, rest
<1> QED BY <1>4, <1>5 DEF EndsWhole

LEMMA MadeHeader ==
    ASSUME NEW s \in Statuses \ {0}
    PROVE  WriteHeader(s) \in Calls /\ WriteHeader(s).call = "header" /\ WriteHeader(s).status = s
BY DEF WriteHeader, Calls

LEMMA MadeWrite ==
    ASSUME NEW c \in BOOLEAN, NEW b \in Pieces
    PROVE  Write(b, c) \in Calls /\ Write(b, c).call = "write" /\ Write(b, c).body = b
BY DEF Write, Calls

LEMMA ErrorWrite ==
    LET e == Write(Plain(ErrorText), FALSE)
    IN  e \in Calls /\ e.call = "write" /\ e.body.text = ErrorText /\ e.body.form = "plain"
<1> DEFINE b == Plain(ErrorText)
<1>1. b \in Pieces /\ b.text = ErrorText /\ b.form = "plain"
  BY DEF Plain, Pieces, Forms
<1> HIDE DEF b
<1>2. FALSE \in BOOLEAN
  OBVIOUS
<1>3. Write(b, FALSE) \in Calls /\ Write(b, FALSE).call = "write" /\ Write(b, FALSE).body = b
  BY <1>1, <1>2, MadeWrite
<1> QED BY <1>1, <1>3 DEF b

LEMMA ResponseWrites ==
    /\ LET p == Write(Plain(ResponseText), TRUE)
       IN  p \in Calls /\ p.call = "write" /\ p.body.form = "plain"
    /\ LET o == Write(Opening, TRUE)
       IN  o \in Calls /\ o.call = "write" /\ o.body.text = <<>>
    /\ LET z == Write(Zipped(ResponseText), FALSE)
       IN  z \in Calls /\ z.call = "write" /\ z.body.form = "zipped"
<1>1. /\ Plain(ResponseText) \in Pieces /\ Opening \in Pieces /\ Zipped(ResponseText) \in Pieces
      /\ Plain(ResponseText).form = "plain" /\ Opening.text = <<>>
      /\ Zipped(ResponseText).form = "zipped"
  BY DEF Plain, Opening, Zipped, Pieces, Forms
<1>2. TRUE \in BOOLEAN /\ FALSE \in BOOLEAN
  OBVIOUS
<1> HIDE DEF Plain, Opening, Zipped
<1> QED BY <1>1, <1>2, MadeWrite

LEMMA OneCall ==
    ASSUME NEW c \in Calls
    PROVE  /\ <<c>> \in Seq(Calls) /\ WritesOnce(<<c>>)
           /\ HeaderFirst(Unwritten, <<c>>)
           /\ c.call = "header" \/ c.body.form # "part" => EndsWhole(Unwritten.body, <<c>>)
           /\ Eventual(Unwritten, <<c>>) = IF c.call = "header" THEN c.status ELSE 200
<1>1. <<c>> \in Seq(Calls) /\ Len(<<c>>) = 1 /\ <<c>>[1] = c /\ Head(<<c>>) = c /\ <<c>> # <<>>
  OBVIOUS
<1> DEFINE calls == <<c>>
<1> HIDE DEF calls
<1>2. WritesOnce(calls)
  BY <1>1 DEF WritesOnce, calls
<1>3. HeaderFirst(Unwritten, calls)
  BY <1>1 DEF HeaderFirst, Unwritten, calls
<1>4. Eventual(Unwritten, calls) = IF c.call = "header" THEN c.status ELSE 200
  BY <1>1 DEF Eventual, Unwritten, calls
<1>5. c.call = "header" \/ c.body.form # "part" => EndsWhole(Unwritten.body, calls)
  BY <1>1 DEF EndsWhole, IsPart, Unwritten, Plain, calls
<1> QED BY <1>1, <1>2, <1>3, <1>4, <1>5 DEF calls

LEMMA TwoCalls ==
    ASSUME NEW c \in Calls, NEW d \in Calls, d.call = "write", d.body.form # "part",
           \/ d.body.text = ErrorText /\ (c = d \/ c.call = "header")
           \/ c.call = "write" /\ c.body.text = <<>>
    PROVE  /\ <<c, d>> \in Seq(Calls) /\ WritesOnce(<<c, d>>)
           /\ HeaderFirst(Unwritten, <<c, d>>)
           /\ EndsWhole(Unwritten.body, <<c, d>>)
           /\ Eventual(Unwritten, <<c, d>>) = IF c.call = "header" THEN c.status ELSE 200
<1> DEFINE calls == <<c, d>>
<1>1. /\ calls \in Seq(Calls) /\ Len(calls) = 2 /\ calls[1] = c /\ calls[2] = d
      /\ Head(calls) = c /\ calls # <<>>
  OBVIOUS
<1> HIDE DEF calls
<1>2. /\ d.body.text = ErrorText => IsError(calls, 2) /\ (c = d => IsError(calls, 1))
      /\ IsWrite(calls, 1) => d.body.text = ErrorText /\ c = d
  BY <1>1 DEF IsError, IsWrite
<1>3. WritesOnce(calls)
  BY <1>1, <1>2 DEF WritesOnce
<1>4. HeaderFirst(Unwritten, calls)
  BY <1>1 DEF HeaderFirst, Unwritten
<1>5. Eventual(Unwritten, calls) = IF c.call = "header" THEN c.status ELSE 200
  BY <1>1 DEF Eventual, Unwritten
<1>6. EndsWhole(Unwritten.body, calls)
  BY <1>1 DEF EndsWhole, Completes
<1> QED BY <1>1, <1>3, <1>4, <1>5, <1>6 DEF calls

(* How inject answers when the accounts could not be read.                 *)
LEMMA ThreeCalls ==
    LET calls == ServerError \o ClientError(400)
    IN  /\ calls \in Seq(Calls) /\ WritesOnce(calls)
        /\ Eventual(Unwritten, calls) = 500
<1> DEFINE a == WriteHeader(500)
           b == WriteHeader(400)
           c == Write(Plain(ErrorText), FALSE)
           calls == ServerError \o ClientError(400)
<1>1. /\ a \in Calls /\ a.call = "header" /\ a.status = 500
      /\ b \in Calls /\ b.call = "header"
  <2>1. 500 \in Statuses \ {0} /\ 400 \in Statuses \ {0}
    BY DEF Statuses
  <2> QED BY <2>1, MadeHeader
<1>2. c \in Calls /\ c.call = "write"
  BY ErrorWrite
<1>3. calls = <<a>> \o <<b, c>>
  <2>1. ServerError = <<a>> /\ ClientError(400) = <<b, c>>
    BY DEF ServerError, ClientError
  <2> QED BY <2>1
<1> HIDE DEF a, b, c, calls
<1>4. /\ calls \in Seq(Calls) /\ Len(calls) = 3 /\ calls[1] = a /\ calls[2] = b /\ calls[3] = c
      /\ Head(calls) = a /\ calls # <<>>
  BY <1>1, <1>2, <1>3
<1>5. WritesOnce(calls)
  BY <1>1, <1>2, <1>4 DEF WritesOnce, IsWrite
<1>6. Eventual(Unwritten, calls) = 500
  BY <1>1, <1>4 DEF Eventual, Unwritten
<1> QED BY <1>4, <1>5, <1>6 DEF calls

(* What the routes' handlers make of a request.                            *)
LEMMA HandlingsFacts ==
    ASSUME NEW route \in Routes, NEW h \in Handlings(route)
    PROVE  /\ h.outcome \in {"ok", "refused", "failed"}
           /\ h.calls \in Seq(Calls) /\ WritesOnce(h.calls)
           /\ route \in Caught => Tells(Eventual(Unwritten, h.calls), h.outcome)
           /\ route = "pull" => /\ HeaderFirst(Unwritten, h.calls)
                                /\ EndsWhole(Unwritten.body, h.calls)
<1> DEFINE PullCalls(calls) ==
               HeaderFirst(Unwritten, calls) /\ EndsWhole(Unwritten.body, calls)
           Good(calls, status) ==
               /\ calls \in Seq(Calls) /\ WritesOnce(calls)
               /\ Eventual(Unwritten, calls) = status
<1>1. ASSUME NEW s \in Statuses \ {0}
      PROVE  Good(<<WriteHeader(s)>>, s) /\ PullCalls(<<WriteHeader(s)>>)
  BY <1>1, MadeHeader, OneCall
<1>2. ASSUME NEW s \in Statuses \ {0}
      PROVE  Good(ClientError(s), s) /\ PullCalls(ClientError(s))
  <2> DEFINE c == WriteHeader(s)
             d == Write(Plain(ErrorText), FALSE)
  <2>1. c \in Calls /\ c.call = "header" /\ c.status = s
    BY MadeHeader
  <2>2. d \in Calls /\ d.call = "write" /\ d.body.text = ErrorText /\ d.body.form # "part"
    BY ErrorWrite
  <2>3. ClientError(s) = <<c, d>>
    BY DEF ClientError
  <2> HIDE DEF c, d
  <2> QED BY <2>1, <2>2, <2>3, TwoCalls
<1>3. Good(ServerError, 500) /\ PullCalls(ServerError)
  BY <1>1 DEF ServerError, Statuses
<1>4. Good(<<>>, 200) /\ Good(ServerError \o ClientError(400), 500)
  BY ThreeCalls DEF WritesOnce, Eventual, Unwritten
<1> DEFINE e == Write(Plain(ErrorText), FALSE)
           p == Write(Plain(ResponseText), TRUE)
           o == Write(Opening, TRUE)
           z == Write(Zipped(ResponseText), FALSE)
<1>5. /\ e \in Calls /\ e.call = "write" /\ e.body.text = ErrorText /\ e.body.form # "part"
      /\ p \in Calls /\ p.call = "write" /\ p.body.form # "part"
      /\ o \in Calls /\ o.call = "write" /\ o.body.text = <<>>
      /\ z \in Calls /\ z.call = "write" /\ z.body.form # "part"
  BY ErrorWrite, ResponseWrites
<1>6. /\ Pull = {Ends("refused", ClientError(s)) : s \in {400, 403, 405}}
                \cup {Ends("ok", <<WriteHeader(200)>>), Ends("failed", ServerError),
                      Ends("ok", <<p>>), Ends("ok", <<o, z>>)}
      /\ Inject = {Ends("refused", ClientError(s)) : s \in {400, 405}}
                  \cup {Ends("refused", <<WriteHeader(404)>>),
                        Ends("failed", ServerError \o ClientError(400)),
                        Ends("failed", ServerError), Ends("ok", <<>>)}
      /\ Hello = {Ends("refused", ClientError(405)), Ends("ok", <<e, e>>)}
      /\ Signup = {Ends("refused", ClientError(405)), Ends("failed", ServerError),
                   Ends("ok", <<p>>)}
  BY DEF Pull, Inject, Hello, Signup, ZippedResponse
<1> HIDE DEF e, p, o, z
<1>7. /\ Good(<<p>>, 200) /\ PullCalls(<<p>>)
      /\ Good(<<o, z>>, 200) /\ PullCalls(<<o, z>>)
      /\ Good(<<e, e>>, 200)
  BY <1>5, OneCall, TwoCalls
<1>8. {200, 400, 403, 404, 405, 500} = Statuses \ {0}
  BY DEF Statuses
<1> DEFINE Right(x) == /\ x.outcome \in {"ok", "refused", "failed"}
                       /\ x.calls \in Seq(Calls) /\ WritesOnce(x.calls)
                       /\ Tells(Eventual(Unwritten, x.calls), x.outcome)
<1>9. ASSUME NEW calls, NEW status, Good(calls, status),
             NEW outcome \in {"ok", "refused", "failed"}, Tells(status, outcome)
      PROVE  Right(Ends(outcome, calls)) /\ Ends(outcome, calls).calls = calls
  BY <1>9 DEF Ends
<1> HIDE DEF Good, Right, PullCalls
<1>10. Tells(200, "ok") /\ Tells(500, "failed") /\ \A s \in {400, 403, 404, 405} : Tells(s, "refused")
  BY DEF Tells
<1>11. \A x \in Pull : Right(x) /\ PullCalls(x.calls)
  <2>1. /\ Good(<<WriteHeader(200)>>, 200) /\ PullCalls(<<WriteHeader(200)>>)
        /\ \A s \in {400, 403, 405} : Good(ClientError(s), s) /\ PullCalls(ClientError(s))
    BY <1>1, <1>2, <1>8
  <2> QED BY <1>3, <1>6, <1>7, <1>9, <1>10, <2>1
<1>12. \A x \in Inject : Right(x)
  <2>1. Good(<<WriteHeader(404)>>, 404) /\ \A s \in {400, 405} : Good(ClientError(s), s)
    BY <1>1, <1>2, <1>8
  <2> QED BY <1>3, <1>4, <1>6, <1>9, <1>10, <2>1
<1>13. \A x \in Hello \cup Signup : Right(x)
  <2>1. Good(ClientError(405), 405)
    BY <1>2, <1>8
  <2> QED BY <1>3, <1>6, <1>7, <1>9, <1>10, <2>1
<1>14. Right(h) /\ (route = "pull" => PullCalls(h.calls))
  BY <1>11, <1>12, <1>13 DEF Handlings, Routes
<1> QED BY <1>14 DEF Right, PullCalls

-------------------------------------------------------------------------------
(* Steps.                                                                  *)

LEMMA RequestType ==
    ASSUME NEW x \in Request
    PROVE  /\ x.pc \in Labels /\ x.route \in Routes /\ x.life \in Nat /\ x.rid \in Nat
           /\ x.dump \in AnyDump /\ x.open \in BOOLEAN /\ x.outcome \in Outcomes
           /\ x.calls \in Seq(Calls) /\ x.w \in Answer /\ x.seen \in Answer
BY DEF Request, AnyCalls

LEMMA AnswerType ==
    ASSUME NEW w \in Answer
    PROVE  w.status \in Statuses /\ w.body.text \in Seq(STRING) /\ w.body.form \in Forms
BY DEF Answer

(* Other requests do not notice what happens to one.                       *)
LEMMA Untouched ==
    ASSUME NEW q \in Requests, RequestInv(q), req'[q] = req[q], answer'[q] = answer[q],
           \A l \in log' : l.of = q => l \in log, log \subseteq log'
    PROVE  RequestInv(q)'
<1>1. \A kinds : LinesOf(q, kinds)' = LinesOf(q, kinds)
  BY DEF LinesOf
<1>2. HandlerInv(q)'
  BY DEF RequestInv, HandlerInv
<1>3. SeenInv(q)'
  BY DEF RequestInv, SeenInv
<1>4. LinesInv(q)'
  BY <1>1 DEF RequestInv, LinesInv, LinesOf
<1>5. AnswerInv(q)'
  BY <1>1 DEF RequestInv, AnswerInv
<1> QED BY <1>2, <1>3, <1>4, <1>5 DEF RequestInv

LEMMA OneRequest ==
    ASSUME HTTPServerInv, NEW r \in Requests, process' = process,
           req' \in [Requests -> Request], answer' \in [Requests -> Answer],
           \A q \in Requests \ {r} : req'[q] = req[q] /\ answer'[q] = answer[q],
           req'[r].rid = req[r].rid, req'[r].life = req[r].life,
           Running(r)' => Running(r),
           req'[r].pc \in {"new", "context"} => req[r].pc \in {"new", "context"},
           log' = log \/ \E l : log' = log \cup {l} /\ l.of = r,
           RequestInv(r)'
    PROVE  HTTPServerInv'
<1>1. \A q \in Requests : req'[q].rid = req[q].rid /\ req'[q].life = req[q].life
  OBVIOUS
<1>2. Numbered' = Numbered
  BY <1>1 DEF Numbered
<1>3. RidInv'
  BY <1>1, <1>2 DEF HTTPServerInv, RidInv
<1>4. ProcessInv'
  <2>1. ASSUME NEW q \in Requests
        PROVE  /\ req'[q].life <= process'.life
               /\ Running(q)' => process'.up /\ req'[q].life = process'.life
    <3>1. Running(q)' => Running(q)
      BY DEF Running
    <3>2. /\ req[q].life <= process.life
          /\ Running(q) => process.up /\ req[q].life = process.life
      BY DEF HTTPServerInv, ProcessInv
    <3> QED BY <1>1, <3>1, <3>2
  <2> QED BY <2>1 DEF HTTPServerInv, ProcessInv
<1>5. \A l \in log' : l.of \in Requests
  BY DEF HTTPServerInv
<1>6. \A q \in Requests : RequestInv(q)'
  BY Untouched DEF HTTPServerInv
<1> QED BY <1>3, <1>4, <1>5, <1>6 DEF HTTPServerInv

Logged == {"handler", "calls", "logResponse", "recover", "finish", "done"}

(* Steps that log nothing.                                                 *)
LEMMA QuietStep ==
    ASSUME NEW r \in Requests, LinesInv(r), log' = log,
           req'[r].route = req[r].route, req'[r].rid = req[r].rid, req'[r].life = req[r].life,
           req[r].pc \notin {"new", "context", "dump"} => req'[r].pc \notin {"new", "context", "dump"},
           req[r].pc \in {"finish", "done", "cut"} => req'[r].pc \in {"finish", "done", "cut"},
           req'[r].pc \in Logged => req[r].pc \in Logged,
           req[r].route = "pull" /\ req'[r].pc \in {"finish", "done"}
              => req[r].pc \in {"finish", "done"}
    PROVE  LinesInv(r)'
<1>1. \A kinds : LinesOf(r, kinds)' = LinesOf(r, kinds)
  BY DEF LinesOf
<1>2. ASSUME NEW l \in log', l.of = r
      PROVE  /\ l.status \in Statuses
             /\ l.rid = req'[r].rid /\ l.life = req'[r].life
             /\ req'[r].pc \notin {"new", "context", "dump"}
             /\ l.kind \in Ending => req'[r].pc \in {"finish", "done", "cut"}
  <2>1. /\ l.status \in Statuses
        /\ l.rid = req[r].rid /\ l.life = req[r].life
        /\ req[r].pc \notin {"new", "context", "dump"}
        /\ l.kind \in Ending => req[r].pc \in {"finish", "done", "cut"}
    BY <1>2 DEF LinesInv
  <2> QED BY <2>1
<1>3. req'[r].route = "pull" /\ req'[r].pc \in Logged => \E l \in log' : LinesOf(r, Asked)' = {l}
  BY <1>1 DEF LinesInv, Logged
<1>4. req'[r].route = "pull" /\ req'[r].pc \in {"finish", "done"}
        => \E l \in log' : LinesOf(r, Ending)' = {l}
  BY <1>1 DEF LinesInv
<1> QED BY <1>2, <1>3, <1>4 DEF LinesInv, Logged

LEMMA HangupKeeps ==
    ASSUME HTTPServerInv, NEW r \in Requests, Hangup(r)
    PROVE  HTTPServerInv'
<1>1. /\ req \in [Requests -> Request] /\ answer \in [Requests -> Answer]
      /\ RequestInv(r)
  BY DEF HTTPServerInv, ProcessInv
<1>2. /\ req' = [req EXCEPT ![r].open = FALSE]
      /\ process' = process /\ answer' = answer /\ log' = log
      /\ Running(r)
  BY DEF Hangup
<1>3. req' \in [Requests -> Request]
  BY <1>1, <1>2 DEF Request
<1>4. /\ req'[r] = [req[r] EXCEPT !.open = FALSE]
      /\ \A q \in Requests \ {r} : req'[q] = req[q]
  BY <1>1, <1>2
<1>5. RequestInv(r)'
  <2>1. \A kinds : LinesOf(r, kinds)' = LinesOf(r, kinds)
    BY <1>2 DEF LinesOf
  <2>2. HandlerInv(r)'
    BY <1>1, <1>4 DEF RequestInv, HandlerInv, Request
  <2>3. SeenInv(r)'
    BY <1>1, <1>4 DEF RequestInv, SeenInv, Request
  <2>4. LinesInv(r)'
    <3>1. /\ req'[r].pc = req[r].pc /\ req'[r].route = req[r].route
          /\ req'[r].rid = req[r].rid /\ req'[r].life = req[r].life
      BY <1>1, <1>4 DEF Request
    <3> QED BY <1>1, <1>2, <3>1, QuietStep DEF RequestInv
  <2>5. AnswerInv(r)'
    BY <1>1, <1>2, <1>4, <2>1 DEF RequestInv, AnswerInv, Request, Running
  <2> QED BY <2>2, <2>3, <2>4, <2>5 DEF RequestInv
<1>6. Running(r)' => Running(r)
  BY <1>2
<1> QED BY <1>1, <1>2, <1>3, <1>4, <1>5, <1>6, OneRequest DEF Request

(* The steps of a handler.                                                 *)
LEMMA HandlerStep ==
    ASSUME HTTPServerInv, NEW r \in Requests, req[r].pc \in {"handler", "calls"},
           process' = process, answer' = answer, log' = log,
           req' \in [Requests -> Request], \A q \in Requests \ {r} : req'[q] = req[q],
           req'[r].route = req[r].route, req'[r].rid = req[r].rid, req'[r].life = req[r].life,
           req'[r].pc \in {"calls", "logResponse", "recover", "cut", "finish"},
           req'[r].pc = "finish" => req[r].route # "pull",
           HandlerInv(r)', SeenInv(r)'
    PROVE  HTTPServerInv'
<1>1. answer \in [Requests -> Answer] /\ RequestInv(r)
  BY DEF HTTPServerInv, ProcessInv
<1>2. LinesInv(r)'
  BY <1>1, QuietStep DEF RequestInv, Logged
<1>3. AnswerInv(r)'
  <2>1. LinesOf(r, {"response"})' = {}
    BY <1>1 DEF RequestInv, LinesInv, LinesOf, Ending
  <2>2. answer[r] = Unwritten /\ answer[r].body.text \in Texts
    BY <1>1 DEF RequestInv, AnswerInv
  <2> QED BY <2>1, <2>2 DEF AnswerInv
<1>4. Running(r)
  BY DEF Running
<1>5. RequestInv(r)'
  BY <1>2, <1>3 DEF RequestInv
<1> QED BY <1>1, <1>4, <1>5, OneRequest

LEMMA HandleKeeps ==
    ASSUME HTTPServerInv, NEW r \in Requests, Handle(r)
    PROVE  HTTPServerInv'
<1>1. req \in [Requests -> Request] /\ req[r] \in Request /\ HandlerInv(r) /\ SeenInv(r)
  BY DEF HTTPServerInv, ProcessInv, RequestInv
<1>2. PICK h \in Handlings(req[r].route) :
         req' = [req EXCEPT ![r].pc = "calls", ![r].outcome = h.outcome, ![r].calls = h.calls]
  BY DEF Handle
<1>3. req[r].pc = "handler" /\ process' = process /\ answer' = answer /\ log' = log
  BY DEF Handle
<1>4. /\ h.outcome \in {"ok", "refused", "failed"}
      /\ h.calls \in Seq(Calls) /\ WritesOnce(h.calls)
      /\ req[r].route \in Caught => Tells(Eventual(Unwritten, h.calls), h.outcome)
      /\ req[r].route = "pull" => /\ HeaderFirst(Unwritten, h.calls)
                                  /\ EndsWhole(Unwritten.body, h.calls)
  BY <1>1, HandlingsFacts, RequestType
<1>5. req' \in [Requests -> Request]
  BY <1>1, <1>2, <1>4 DEF Request, Labels, Outcomes, AnyCalls
<1>6. /\ \A q \in Requests \ {r} : req'[q] = req[q]
      /\ req'[r].pc = "calls" /\ req'[r].outcome = h.outcome /\ req'[r].calls = h.calls
      /\ req'[r].route = req[r].route /\ req'[r].rid = req[r].rid /\ req'[r].life = req[r].life
      /\ req'[r].w = req[r].w /\ req'[r].seen = req[r].seen /\ req'[r].open = req[r].open
  BY <1>1, <1>2 DEF Request
<1>7. req[r].w = Unwritten /\ req[r].seen.body = Unwritten.body
  BY <1>1, <1>3 DEF HandlerInv
<1>8. Unwritten.body.text = <<>> /\ Unwritten.status = 0 /\ Unwritten.body.form # "part"
  BY DEF Unwritten, Plain
<1>9. HandlerInv(r)'
  BY <1>4, <1>6, <1>7, <1>8 DEF HandlerInv, Fits
<1>10. SeenInv(r)'
  BY <1>1, <1>3, <1>4, <1>6, <1>7, <1>8 DEF SeenInv
<1> QED BY <1>3, <1>5, <1>6, <1>9, <1>10, HandlerStep

LEMMA PanicKeeps ==
    ASSUME HTTPServerInv, NEW r \in Requests, Panic(r)
    PROVE  HTTPServerInv'
<1>1. req \in [Requests -> Request] /\ HandlerInv(r) /\ SeenInv(r)
  BY DEF HTTPServerInv, ProcessInv, RequestInv
<1>2. /\ req[r].pc = "handler" /\ process' = process /\ answer' = answer /\ log' = log
      /\ req' = [req EXCEPT ![r].outcome = "panicked",
                            ![r].pc = IF req[r].route \in Caught THEN "recover" ELSE "cut"]
  BY DEF Panic
<1>3. req' \in [Requests -> Request]
  <2> DEFINE label == IF req[r].route \in Caught THEN "recover" ELSE "cut"
  <2>1. label \in Labels /\ "panicked" \in Outcomes
    BY DEF Labels, Outcomes
  <2>2. req' = [req EXCEPT ![r].outcome = "panicked", ![r].pc = label]
    BY <1>2
  <2>3. req \in [Requests -> Request]
    BY <1>1
  <2> DEFINE outcome == "panicked"
             y == [req[r] EXCEPT !.outcome = outcome, !.pc = label]
  <2>4. req' = [req EXCEPT ![r] = y] /\ outcome \in Outcomes
    BY <2>1, <2>2, <2>3
  <2> HIDE DEF label, outcome
  <2>5. y \in Request
    <3>1. ASSUME NEW x \in Request
          PROVE  [x EXCEPT !.outcome = outcome, !.pc = label] \in Request
      BY <2>1, <2>4 DEF Request
    <3> QED BY <2>3, <3>1
  <2> HIDE DEF y
  <2> QED BY <2>3, <2>4, <2>5
<1>4. /\ \A q \in Requests \ {r} : req'[q] = req[q]
      /\ req'[r].pc = (IF req[r].route \in Caught THEN "recover" ELSE "cut")
      /\ req'[r].outcome = "panicked" /\ req'[r].calls = req[r].calls
      /\ req'[r].route = req[r].route /\ req'[r].rid = req[r].rid /\ req'[r].life = req[r].life
      /\ req'[r].w = req[r].w /\ req'[r].seen = req[r].seen
  BY <1>1, <1>2 DEF Request
<1>5. HandlerInv(r)'
  BY <1>1, <1>2, <1>4 DEF HandlerInv
<1>6. SeenInv(r)'
  BY <1>4 DEF SeenInv
<1> QED BY <1>2, <1>3, <1>4, <1>5, <1>6, HandlerStep

LEMMA ReturnKeeps ==
    ASSUME HTTPServerInv, NEW r \in Requests, Return(r)
    PROVE  HTTPServerInv'
<1>1. req \in [Requests -> Request] /\ HandlerInv(r) /\ SeenInv(r)
  BY DEF HTTPServerInv, ProcessInv, RequestInv
<1>2. /\ req[r].pc = "calls" /\ req[r].calls = <<>>
      /\ process' = process /\ answer' = answer /\ log' = log
      /\ req' = [req EXCEPT ![r].pc = IF req[r].route = "pull" THEN "logResponse" ELSE "finish"]
  BY DEF Return, Goto
<1>3. req' \in [Requests -> Request]
  <2> DEFINE label == IF req[r].route = "pull" THEN "logResponse" ELSE "finish"
  <2>1. label \in Labels
    BY DEF Labels
  <2>2. req' = [req EXCEPT ![r].pc = label]
    BY <1>2
  <2> HIDE DEF label
  <2> QED BY <1>1, <2>1, <2>2 DEF Request
<1>4. /\ \A q \in Requests \ {r} : req'[q] = req[q]
      /\ req'[r].pc = (IF req[r].route = "pull" THEN "logResponse" ELSE "finish")
      /\ req'[r].outcome = req[r].outcome /\ req'[r].calls = req[r].calls
      /\ req'[r].route = req[r].route /\ req'[r].rid = req[r].rid /\ req'[r].life = req[r].life
      /\ req'[r].w = req[r].w /\ req'[r].seen = req[r].seen /\ req'[r].open = req[r].open
  BY <1>1, <1>2 DEF Request
<1>5. HandlerInv(r)'
  BY <1>1, <1>2, <1>4 DEF HandlerInv
<1>6. SeenInv(r)'
  BY <1>1, <1>2, <1>4 DEF SeenInv
<1> QED BY <1>2, <1>3, <1>4, <1>5, <1>6, HandlerStep

LEMMA HeadedFacts ==
    ASSUME NEW w \in Answer, NEW s \in Statuses \ {0}
    PROVE  /\ Headed(w, s) \in Answer
           /\ Headed(w, s).body = w.body
           /\ Headed(w, s).status = (IF w.status = 0 THEN s ELSE w.status)
           /\ Headed(w, s).status # 0
BY DEF Headed, Answer, Statuses

LEMMA WrittenType ==
    ASSUME NEW w \in Answer, NEW b \in [text : Seq(STRING), form : Forms]
    PROVE  /\ Written(w, b) \in Answer
           /\ Written(w, b).status = (IF w.status = 0 THEN 200 ELSE w.status)
<1>1. 200 \in Statuses \ {0}
  BY DEF Statuses
<1>2. Headed(w, 200).status \in Statuses /\ Headed(w, 200).status = (IF w.status = 0 THEN 200 ELSE w.status)
  BY <1>1, HeadedFacts, AnswerType
<1>3. w.body.text \in Seq(STRING) /\ b.text \in Seq(STRING) /\ b.form \in Forms
  BY AnswerType
<1>4. w.body.text \o b.text \in Seq(STRING)
  BY <1>3
<1> HIDE DEF Headed
<1> QED BY <1>2, <1>3, <1>4 DEF Written, Answer

(* responseLogger sees the header, and the answer gets it if it is first.  *)
LEMMA CallHeaderKeeps ==
    ASSUME HTTPServerInv, NEW r \in Requests, CallHeader(r)
    PROVE  HTTPServerInv'
<1> DEFINE c == Head(req[r].calls)
           w == Headed(req[r].w, c.status)
           seen == SeenHeader(req[r].seen, c.status)
<1>1. req \in [Requests -> Request] /\ req[r] \in Request /\ HandlerInv(r) /\ SeenInv(r)
  BY DEF HTTPServerInv, ProcessInv, RequestInv
<1>2. /\ req[r].pc = "calls" /\ req[r].calls # <<>> /\ c.call = "header"
      /\ process' = process /\ answer' = answer /\ log' = log
      /\ req' = [req EXCEPT ![r].calls = Tail(@), ![r].w = Headed(@, c.status),
                            ![r].seen = SeenHeader(@, c.status)]
  BY DEF CallHeader
<1>3. req[r].calls \in Seq(Calls) /\ req[r].w \in Answer /\ req[r].seen \in Answer
  BY <1>1, RequestType
<1>4. /\ c.status \in Statuses \ {0} /\ Tail(req[r].calls) \in Seq(Calls)
      /\ c = req[r].calls[1] /\ 1 \in 1..Len(req[r].calls)
  <2>1. c \in Calls /\ Tail(req[r].calls) \in Seq(Calls) /\ c = req[r].calls[1] /\ 1 \in 1..Len(req[r].calls)
    BY <1>2, <1>3, CallsFacts
  <2> HIDE DEF c
  <2> QED BY <1>2, <2>1, CallKinds
<1>5. /\ w \in Answer /\ w.body = req[r].w.body /\ w.status # 0
      /\ w.status = (IF req[r].w.status = 0 THEN c.status ELSE req[r].w.status)
  BY <1>3, <1>4, HeadedFacts
<1>6. seen \in Answer /\ seen.body = req[r].seen.body /\ seen.status = c.status
  BY <1>3, <1>4 DEF SeenHeader, Answer
<1>7. req' = [req EXCEPT ![r].calls = Tail(req[r].calls), ![r].w = w, ![r].seen = seen]
  BY <1>1, <1>2
<1> HIDE DEF c, w, seen
<1>8. req' \in [Requests -> Request]
  BY <1>1, <1>4, <1>5, <1>6, <1>7 DEF Request, AnyCalls
<1>9. /\ \A q \in Requests \ {r} : req'[q] = req[q]
      /\ req'[r].pc = req[r].pc
      /\ req'[r].outcome = req[r].outcome /\ req'[r].calls = Tail(req[r].calls)
      /\ req'[r].route = req[r].route /\ req'[r].rid = req[r].rid /\ req'[r].life = req[r].life
      /\ req'[r].w = w /\ req'[r].seen = seen /\ req'[r].open = req[r].open
  BY <1>1, <1>7 DEF Request
<1>10. HandlerInv(r)'
  <2>1. /\ Fits(w.body.text, Tail(req[r].calls))
        /\ Fits(seen.body.text, Tail(req[r].calls))
    BY <1>1, <1>2, <1>3, <1>5, <1>6, FitsTail DEF HandlerInv
  <2>2. Eventual(w, Tail(req[r].calls)) = Eventual(req[r].w, req[r].calls)
    BY <1>2, <1>5 DEF Eventual, c
  <2>3. req[r].route \in Caught => Tells(Eventual(w, Tail(req[r].calls)), req[r].outcome)
    BY <1>1, <1>2, <2>2 DEF HandlerInv
  <2> QED BY <1>2, <1>9, <2>1, <2>3 DEF HandlerInv
<1>11. SeenInv(r)'
  <2>1. SUFFICES ASSUME req[r].route = "pull", req[r].open
                 PROVE  /\ seen.body = w.body
                        /\ EndsWhole(seen.body, Tail(req[r].calls))
                        /\ seen.status = (IF w.status = 0 THEN 200 ELSE w.status)
                        /\ HeaderFirst(w, Tail(req[r].calls))
    BY <1>2, <1>9 DEF SeenInv
  <2>2. /\ req[r].seen.body = req[r].w.body /\ EndsWhole(req[r].seen.body, req[r].calls)
        /\ HeaderFirst(req[r].w, req[r].calls)
    BY <1>1, <1>2, <2>1 DEF SeenInv
  <2>5. EndsWhole(seen.body, Tail(req[r].calls))
    <3>1. Head(req[r].calls).call = "header"
      BY <1>2 DEF c
    <3> QED BY <1>2, <1>3, <1>6, <2>2, <3>1, EndsWholeTail
  <2>3. req[r].w.status = 0
    BY <1>2, <1>4, <2>2 DEF HeaderFirst
  <2>4. \A i \in 1..Len(Tail(req[r].calls)) : Tail(req[r].calls)[i].call # "header"
    <3>1. /\ Len(req[r].calls) \in Nat /\ Len(Tail(req[r].calls)) = Len(req[r].calls) - 1
          /\ \A i \in 1..Len(Tail(req[r].calls)) : Tail(req[r].calls)[i] = req[r].calls[i + 1]
      BY <1>2, <1>3, CallsFacts
    <3>2. \A i \in 1..Len(Tail(req[r].calls)) : i + 1 \in 1..Len(req[r].calls) /\ i + 1 # 1
      BY <3>1
    <3> QED BY <2>2, <3>1, <3>2 DEF HeaderFirst
  <2> QED BY <1>5, <1>6, <2>2, <2>3, <2>4, <2>5 DEF HeaderFirst
<1> QED BY <1>2, <1>8, <1>9, <1>10, <1>11, HandlerStep

LEMMA CallWriteKeeps ==
    ASSUME HTTPServerInv, NEW r \in Requests, CallWrite(r)
    PROVE  HTTPServerInv'
<1> DEFINE c == Head(req[r].calls)
           w == Written(req[r].w, c.body)
           seen == SeenBody(req[r].seen, c.body)
<1>1. req \in [Requests -> Request] /\ req[r] \in Request /\ HandlerInv(r) /\ SeenInv(r)
  BY DEF HTTPServerInv, ProcessInv, RequestInv
<1>2. /\ req[r].pc = "calls" /\ req[r].calls # <<>> /\ c.call = "write"
      /\ process' = process /\ answer' = answer /\ log' = log
      /\ req' = [req EXCEPT ![r].calls = Tail(@), ![r].w = Written(@, c.body),
                            ![r].seen = SeenBody(@, c.body)]
  BY DEF CallWrite
<1>3. req[r].calls \in Seq(Calls) /\ req[r].w \in Answer /\ req[r].seen \in Answer
  BY <1>1, RequestType
<1>4. /\ c.body \in [text : Seq(STRING), form : Forms]
      /\ c.body.text \in Seq(STRING) /\ c.body.form \in Forms
      /\ Tail(req[r].calls) \in Seq(Calls)
  <2>1. c \in Calls /\ Tail(req[r].calls) \in Seq(Calls)
    BY <1>2, <1>3, CallsFacts
  <2>3. Pieces \subseteq [text : Seq(STRING), form : Forms]
    <3>1. {<<>>, ResponseText, ErrorText} \subseteq Seq(STRING)
      BY TextFacts
    <3> QED BY <3>1 DEF Pieces
  <2>2. /\ c.body \in Pieces
        /\ c.body.text \in {<<>>, ResponseText, ErrorText} /\ c.body.form \in Forms
    <3> HIDE DEF c
    <3> QED BY <1>2, <2>1, CallKinds
  <2> HIDE DEF c
  <2>4. /\ c.body.text \in Seq(STRING)
        /\ c.body = [text |-> c.body.text, form |-> c.body.form]
    BY <2>2, <2>3
  <2> QED BY <2>1, <2>2, <2>3, <2>4
<1> HIDE DEF c
<1>5. /\ w \in Answer /\ w.status = (IF req[r].w.status = 0 THEN 200 ELSE req[r].w.status)
      /\ w.body = [text |-> req[r].w.body.text \o c.body.text, form |-> c.body.form]
  <2>1. w.body = [text |-> req[r].w.body.text \o c.body.text, form |-> c.body.form]
    BY DEF Written
  <2> QED BY <1>3, <1>4, <2>1, WrittenType
<1>6. /\ seen \in Answer /\ seen.status = req[r].seen.status
      /\ seen.body = [text |-> req[r].seen.body.text \o c.body.text, form |-> c.body.form]
  <2>1. req[r].seen.body.text \o c.body.text \in Seq(STRING)
    BY <1>3, <1>4, AnswerType
  <2>2. c.body.form \in Forms
    BY <1>4
  <2> QED BY <1>3, <2>1, <2>2 DEF SeenBody, Answer
<1>7. req' = [req EXCEPT ![r].calls = Tail(req[r].calls), ![r].w = w, ![r].seen = seen]
  BY <1>1, <1>2
<1> HIDE DEF w, seen
<1>8. req' \in [Requests -> Request]
  BY <1>1, <1>4, <1>5, <1>6, <1>7 DEF Request, AnyCalls
<1>9. /\ \A q \in Requests \ {r} : req'[q] = req[q]
      /\ req'[r].pc = req[r].pc
      /\ req'[r].outcome = req[r].outcome /\ req'[r].calls = Tail(req[r].calls)
      /\ req'[r].route = req[r].route /\ req'[r].rid = req[r].rid /\ req'[r].life = req[r].life
      /\ req'[r].w = w /\ req'[r].seen = seen /\ req'[r].open = req[r].open
  BY <1>1, <1>7 DEF Request
<1>10. HandlerInv(r)'
  <2>1. /\ Fits(req[r].w.body.text \o c.body.text, Tail(req[r].calls))
        /\ Fits(req[r].seen.body.text \o c.body.text, Tail(req[r].calls))
    BY <1>1, <1>2, <1>3, FitsWritten DEF HandlerInv, c
  <2>2. Fits(w.body.text, Tail(req[r].calls)) /\ Fits(seen.body.text, Tail(req[r].calls))
    <3>1. /\ w.body.text = req[r].w.body.text \o c.body.text
          /\ seen.body.text = req[r].seen.body.text \o c.body.text
      <4>1. w.body.text = req[r].w.body.text \o c.body.text
        BY DEF w, Written
      <4>2. seen.body.text = req[r].seen.body.text \o c.body.text
        <5> DEFINE x == req[r].seen
                   body == [text |-> x.body.text \o c.body.text, form |-> c.body.form]
        <5>1. x = [status |-> x.status, body |-> x.body]
          BY <1>3 DEF Answer
        <5>2. seen = [x EXCEPT !.body = body] /\ body.text = x.body.text \o c.body.text
          BY DEF seen, SeenBody
        <5> HIDE DEF x, body
        <5>3. seen.body = body
          BY <5>1, <5>2
        <5> QED BY <5>2, <5>3 DEF x
      <4> QED BY <4>1, <4>2
    <3> QED BY <2>1, <3>1
  <2>3. Eventual(w, Tail(req[r].calls)) = Eventual(req[r].w, req[r].calls)
    <3>1. Head(req[r].calls).call # "header"
      BY <1>2 DEF c
    <3> QED BY <1>5, <3>1 DEF Eventual
  <2>4. req[r].route \in Caught => Tells(Eventual(w, Tail(req[r].calls)), req[r].outcome)
    BY <1>1, <1>2, <2>3 DEF HandlerInv
  <2> QED BY <1>2, <1>9, <2>2, <2>4 DEF HandlerInv
<1>11. SeenInv(r)'
  <2>1. SUFFICES ASSUME req[r].route = "pull", req[r].open
                 PROVE  /\ seen.body = w.body
                        /\ EndsWhole(seen.body, Tail(req[r].calls))
                        /\ seen.status = (IF w.status = 0 THEN 200 ELSE w.status)
                        /\ HeaderFirst(w, Tail(req[r].calls))
    BY <1>2, <1>9 DEF SeenInv
  <2>2. /\ req[r].seen.body = req[r].w.body
        /\ req[r].seen.status = (IF req[r].w.status = 0 THEN 200 ELSE req[r].w.status)
        /\ EndsWhole(req[r].seen.body, req[r].calls)
        /\ HeaderFirst(req[r].w, req[r].calls)
    BY <1>1, <1>2, <2>1 DEF SeenInv
  <2>3. \A i \in 1..Len(Tail(req[r].calls)) : Tail(req[r].calls)[i].call # "header"
    <3>1. /\ Len(req[r].calls) \in Nat /\ Len(Tail(req[r].calls)) = Len(req[r].calls) - 1
          /\ \A i \in 1..Len(Tail(req[r].calls)) : Tail(req[r].calls)[i] = req[r].calls[i + 1]
      BY <1>2, <1>3, CallsFacts
    <3>2. \A i \in 1..Len(Tail(req[r].calls)) : i + 1 \in 1..Len(req[r].calls) /\ i + 1 # 1
      BY <3>1
    <3> QED BY <2>2, <3>1, <3>2 DEF HeaderFirst
  <2>4. HeaderFirst(w, Tail(req[r].calls))
    BY <2>3 DEF HeaderFirst
  <2>5. seen.body = w.body
    BY <1>5, <1>6, <2>2
  <2>7. EndsWhole(seen.body, Tail(req[r].calls))
    <3>1. Head(req[r].calls).call = "write"
      BY <1>2 DEF c
    <3>3. seen.body.form = c.body.form
      BY <1>6
    <3>4. seen.body.form = Head(req[r].calls).body.form
      BY <3>3 DEF c
    <3> QED BY <1>2, <1>3, <2>2, <3>1, <3>4, EndsWholeTail
  <2>6. seen.status = (IF w.status = 0 THEN 200 ELSE w.status)
    BY <1>5, <1>6, <2>2
  <2> QED BY <2>4, <2>5, <2>6, <2>7
<1> QED BY <1>2, <1>8, <1>9, <1>10, <1>11, HandlerStep

(* What the client misses, responseLogger has seen.                        *)
LEMMA WriteFailsKeeps ==
    ASSUME HTTPServerInv, NEW r \in Requests, WriteFails(r)
    PROVE  HTTPServerInv'
<1> DEFINE c == Head(req[r].calls)
           calls == IF c.checked THEN ServerError ELSE Tail(req[r].calls)
           w == Headed(req[r].w, 200)
<1>0. PICK noted \in {c.body, Part(c.body)} :
         req' = [req EXCEPT ![r].calls = calls, ![r].w = Headed(@, 200),
                            ![r].seen = SeenBody(@, noted)]
  BY DEF WriteFails
<1> DEFINE seen == SeenBody(req[r].seen, noted)
<1>1. req \in [Requests -> Request] /\ req[r] \in Request /\ HandlerInv(r) /\ SeenInv(r)
  BY DEF HTTPServerInv, ProcessInv, RequestInv
<1>2. /\ req[r].pc = "calls" /\ req[r].calls # <<>> /\ c.call = "write" /\ ~req[r].open
      /\ process' = process /\ answer' = answer /\ log' = log
      /\ req' = [req EXCEPT ![r].calls = calls, ![r].w = Headed(@, 200),
                            ![r].seen = SeenBody(@, noted)]
  BY <1>0, <1>1 DEF WriteFails
<1>3. req[r].calls \in Seq(Calls) /\ req[r].w \in Answer /\ req[r].seen \in Answer
  BY <1>1, RequestType
<1>4. /\ c.body.text \in Seq(STRING) /\ c.body.form \in Forms
      /\ c.body = [text |-> c.body.text, form |-> c.body.form]
      /\ Tail(req[r].calls) \in Seq(Calls)
  <2>1. c \in Calls /\ Tail(req[r].calls) \in Seq(Calls)
    BY <1>2, <1>3, CallsFacts
  <2>3. Pieces \subseteq [text : Seq(STRING), form : Forms]
    <3>1. {<<>>, ResponseText, ErrorText} \subseteq Seq(STRING)
      BY TextFacts
    <3> QED BY <3>1 DEF Pieces
  <2>2. /\ c.body \in Pieces
        /\ c.body.text \in {<<>>, ResponseText, ErrorText} /\ c.body.form \in Forms
    <3> HIDE DEF c
    <3> QED BY <1>2, <2>1, CallKinds
  <2> HIDE DEF c
  <2>4. /\ c.body.text \in Seq(STRING)
        /\ c.body = [text |-> c.body.text, form |-> c.body.form]
    BY <2>2, <2>3
  <2> QED BY <2>1, <2>2, <2>3, <2>4
<1>5. ServerError \in Seq(Calls) /\ WritesNothing(ServerError)
  <2>1. WriteHeader(500) \in Calls /\ WriteHeader(500).call = "header"
    BY MadeHeader DEF Statuses
  <2> DEFINE h == WriteHeader(500)
  <2>2. ServerError = <<h>>
    BY DEF ServerError
  <2> HIDE DEF h
  <2>3. ServerError \in Seq(Calls) /\ Len(ServerError) = 1 /\ ServerError[1] = h
    BY <2>1, <2>2 DEF h
  <2>4. h.call = "header"
    BY <2>1 DEF h
  <2> QED BY <2>3, <2>4 DEF WritesNothing, IsWrite
<1>6. /\ w \in Answer /\ w.body = req[r].w.body
      /\ w.status = (IF req[r].w.status = 0 THEN 200 ELSE req[r].w.status) /\ w.status # 0
  BY <1>3, HeadedFacts DEF Statuses
<1> HIDE DEF c
<1>7. noted.text = c.body.text /\ noted.form \in Forms
  BY <1>0, <1>4 DEF Part, Forms
<1>8. seen \in Answer /\ seen.body.text = req[r].seen.body.text \o c.body.text
  <2>1. req[r].seen.body.text \o c.body.text \in Seq(STRING)
    BY <1>3, <1>4, AnswerType
  <2> QED BY <1>3, <1>7, <2>1 DEF SeenBody, Answer
<1>9. calls \in Seq(Calls)
  BY <1>4, <1>5
<1>10. req' = [req EXCEPT ![r].calls = calls, ![r].w = w, ![r].seen = seen]
  BY <1>1, <1>2
<1>11. /\ Fits(w.body.text, calls)
       /\ Fits(seen.body.text, calls)
  <2>1. /\ Fits(req[r].w.body.text, Tail(req[r].calls))
        /\ Fits(req[r].seen.body.text \o c.body.text, Tail(req[r].calls))
    BY <1>1, <1>2, <1>3, FitsTail, FitsWritten DEF HandlerInv, c
  <2>2. req[r].w.body.text \in Texts /\ req[r].seen.body.text \o c.body.text \in Texts
    BY <2>1, FitsTexts
  <2>3. /\ Fits(req[r].w.body.text, ServerError)
        /\ Fits(req[r].seen.body.text \o c.body.text, ServerError)
    BY <1>5, <2>2 DEF Fits
  <2> QED BY <1>6, <1>8, <2>1, <2>3
<1> HIDE DEF w, seen, calls
<1>12. req' \in [Requests -> Request]
  BY <1>1, <1>6, <1>8, <1>9, <1>10 DEF Request, AnyCalls
<1>13. /\ \A q \in Requests \ {r} : req'[q] = req[q]
       /\ req'[r].pc = req[r].pc
       /\ req'[r].outcome = req[r].outcome /\ req'[r].calls = calls
       /\ req'[r].route = req[r].route /\ req'[r].rid = req[r].rid /\ req'[r].life = req[r].life
       /\ req'[r].w = w /\ req'[r].seen = seen /\ req'[r].open = req[r].open
  BY <1>1, <1>10 DEF Request
<1>14. HandlerInv(r)'
  <2>1. Eventual(w, calls) = Eventual(req[r].w, req[r].calls)
    BY <1>2, <1>6 DEF Eventual, c
  <2>2. req[r].route \in Caught => Tells(Eventual(w, calls), req[r].outcome)
    BY <1>1, <1>2, <2>1 DEF HandlerInv
  <2> QED BY <1>2, <1>11, <1>13, <2>2 DEF HandlerInv
<1>15. SeenInv(r)'
  BY <1>2, <1>13 DEF SeenInv
<1> QED BY <1>2, <1>12, <1>13, <1>14, <1>15, HandlerStep

-------------------------------------------------------------------------------
(* The steps of the middleware.                                            *)

LEMMA FirstWritten ==
    ASSUME NEW h \in Answer, h.status = 500, h.body.text = <<>>,
           NEW b \in [text : Seq(STRING), form : Forms]
    PROVE  /\ Written(h, b) \in Answer /\ Written(h, b).status = 500
           /\ Written(h, b).body.text = b.text
<1>1. h.body.text \o b.text = b.text
  <2>1. b.text \in Seq(STRING)
    OBVIOUS
  <2>2. \A t \in Seq(STRING) : <<>> \o t = t
    BY TextFacts
  <2>3. <<>> \o b.text = b.text
    BY <2>1, <2>2
  <2> QED BY <2>3
<1> DEFINE w == Written(h, b)
<1>2. w \in Answer /\ w.status = (IF h.status = 0 THEN 200 ELSE h.status)
  BY WrittenType
<1>3. w.body.text = h.body.text \o b.text
  BY DEF Written
<1> HIDE DEF w
<1>4. w.body.text = b.text
  BY <1>1, <1>3
<1>5. w.status = 500
  BY <1>2
<1> QED BY <1>2, <1>4, <1>5 DEF w

(* The dump could not be made: that is all there is in the log.            *)
LEMMA DumpFailsKeeps ==
    ASSUME HTTPServerInv, NEW r \in Requests, DumpFails(r)
    PROVE  HTTPServerInv'
<1> DEFINE l == Line(r, "no dump", 0, <<>>)
           w == Written(Headed(req[r].w, 500), Plain(ErrorText))
<1>1. /\ req \in [Requests -> Request] /\ req[r] \in Request /\ answer \in [Requests -> Answer]
      /\ HandlerInv(r) /\ SeenInv(r) /\ LinesInv(r) /\ AnswerInv(r)
  BY DEF HTTPServerInv, ProcessInv, RequestInv
<1>2. /\ req[r].pc = "dump"
      /\ process' = process /\ answer' = answer /\ log' = log \cup {l}
      /\ req' = [req EXCEPT ![r].pc = "finish", ![r].outcome = "failed", ![r].w = w]
  BY <1>1 DEF DumpFails, Log
<1>3. /\ l.of = r /\ l.kind = "no dump" /\ l.status = 0
      /\ l.rid = req[r].rid /\ l.life = req[r].life
  BY DEF Line
<1> HIDE DEF l
<1>4. w \in Answer /\ w.status = 500 /\ w.body.text = ErrorText
  <2>1. Unwritten \in Answer /\ Unwritten.status = 0 /\ Unwritten.body.text = <<>>
    BY DEF Unwritten, Plain, Answer, Statuses, Forms
  <2>2. req[r].w = Unwritten
    BY <1>1, <1>2 DEF HandlerInv
  <2> DEFINE b == Plain(ErrorText)
             h == Headed(Unwritten, 500)
  <2>3. h \in Answer /\ h.status = 500 /\ h.body.text = <<>>
    BY <2>1, HeadedFacts DEF Statuses
  <2>4. b \in [text : Seq(STRING), form : Forms] /\ b.text = ErrorText
    BY TextFacts DEF Plain, Forms
  <2>5. w = Written(h, b)
    BY <2>2
  <2> HIDE DEF b, h, w
  <2> QED BY <2>3, <2>4, <2>5, FirstWritten
<1> HIDE DEF w
<1>5. "finish" \in Labels /\ "failed" \in Outcomes
  BY DEF Labels, Outcomes
<1>6. /\ req' \in [Requests -> Request]
      /\ \A q \in Requests \ {r} : req'[q] = req[q]
      /\ req'[r].pc = "finish" /\ req'[r].outcome = "failed" /\ req'[r].w = w
      /\ req'[r].route = req[r].route /\ req'[r].rid = req[r].rid /\ req'[r].life = req[r].life
      /\ req'[r].seen = req[r].seen /\ req'[r].open = req[r].open /\ req'[r].calls = req[r].calls
  <2>1. req \in [Requests -> Request]
    BY <1>1
  <2>2. w \in Answer
    BY <1>4
  <2> DEFINE pc == "finish"
             outcome == "failed"
  <2>3. req' = [req EXCEPT ![r].pc = pc, ![r].outcome = outcome, ![r].w = w]
    BY <1>2
  <2>4. pc \in Labels /\ outcome \in Outcomes
    BY <1>5
  <2> HIDE DEF pc, outcome
  <2>5. /\ req' \in [Requests -> Request]
        /\ \A q \in Requests \ {r} : req'[q] = req[q]
        /\ req'[r].pc = pc /\ req'[r].outcome = outcome /\ req'[r].w = w
        /\ req'[r].route = req[r].route /\ req'[r].rid = req[r].rid
        /\ req'[r].life = req[r].life /\ req'[r].seen = req[r].seen
        /\ req'[r].open = req[r].open /\ req'[r].calls = req[r].calls
    <3>1. ASSUME NEW x \in Request
          PROVE  [x EXCEPT !.pc = pc, !.outcome = outcome, !.w = w] \in Request
      BY <2>2, <2>4 DEF Request
    <3>2. /\ req' = [req EXCEPT ![r] = [req[r] EXCEPT !.pc = pc, !.outcome = outcome, !.w = w]]
          /\ req[r] \in Request
      BY <2>1, <2>3
    <3> DEFINE y == [req[r] EXCEPT !.pc = pc, !.outcome = outcome, !.w = w]
    <3>3. y \in Request
      BY <3>1, <3>2
    <3>4. /\ y.pc = pc /\ y.outcome = outcome /\ y.w = w
          /\ y.route = req[r].route /\ y.rid = req[r].rid
          /\ y.life = req[r].life /\ y.seen = req[r].seen
          /\ y.open = req[r].open /\ y.calls = req[r].calls
      BY <3>2 DEF Request
    <3>5. req' = [req EXCEPT ![r] = y]
      BY <3>2
    <3> HIDE DEF y
    <3>6. /\ req' \in [Requests -> Request] /\ req'[r] = y
          /\ \A q \in Requests \ {r} : req'[q] = req[q]
      BY <2>1, <3>3, <3>5
    <3> QED BY <3>4, <3>6
  <2> QED BY <2>5 DEF pc, outcome
<1>7. HandlerInv(r)'
  <2>1. req[r].calls = <<>> /\ Fits(req[r].seen.body.text, req[r].calls)
    BY <1>1, <1>2 DEF HandlerInv
  <2>2. Fits(w.body.text, <<>>)
    BY <1>4, FitsEmpty DEF Texts
  <2>3. Tells(Eventual(w, <<>>), "failed")
    BY <1>4 DEF Tells, Eventual
  <2> QED BY <1>6, <2>1, <2>2, <2>3 DEF HandlerInv
<1>8. SeenInv(r)'
  BY <1>6 DEF SeenInv
<1>9. \A k \in log : k.of # r
  BY <1>1, <1>2 DEF LinesInv
<1>10. \A kinds : LinesOf(r, kinds)' = IF "no dump" \in kinds THEN {l} ELSE {}
  BY <1>2, <1>3, <1>9 DEF LinesOf
<1>11. LinesInv(r)'
  <2>1. LinesOf(r, Asked)' = {l} /\ LinesOf(r, Ending)' = {l} /\ l \in log'
    BY <1>2, <1>10 DEF Asked, Ending
  <2>2. ASSUME NEW k \in log', k.of = r
        PROVE  /\ k.status \in Statuses /\ k.rid = req'[r].rid /\ k.life = req'[r].life
               /\ req'[r].pc \notin {"new", "context", "dump"}
               /\ k.kind \in Ending => req'[r].pc \in {"finish", "done", "cut"}
    <3>1. k = l
      BY <1>2, <1>9, <2>2
    <3> QED BY <1>3, <1>6, <3>1 DEF Statuses
  <2> QED BY <2>1, <2>2 DEF LinesInv
<1>12. AnswerInv(r)'
  <2>1. LinesOf(r, {"response"})' = {}
    BY <1>10
  <2>2. answer'[r] = Unwritten /\ answer'[r].body.text \in Texts
    BY <1>1, <1>2 DEF AnswerInv
  <2> QED BY <1>6, <2>1, <2>2 DEF AnswerInv
<1>13. RequestInv(r)'
  BY <1>7, <1>8, <1>11, <1>12 DEF RequestInv
<1>14. Running(r)
  BY <1>2 DEF Running
<1> QED BY <1>1, <1>2, <1>3, <1>6, <1>13, <1>14, OneRequest

LEMMA LogRequestKeeps ==
    ASSUME HTTPServerInv, NEW r \in Requests, LogRequest(r)
    PROVE  HTTPServerInv'
<1> DEFINE l == Line(r, "request", 0, Filter(req[r].dump))
           seen == [req[r].seen EXCEPT !.status = 200]
<1>1. /\ req \in [Requests -> Request] /\ req[r] \in Request /\ answer \in [Requests -> Answer]
      /\ HandlerInv(r) /\ SeenInv(r) /\ LinesInv(r) /\ AnswerInv(r)
  BY DEF HTTPServerInv, ProcessInv, RequestInv
<1>2. /\ req[r].pc = "dump"
      /\ process' = process /\ answer' = answer /\ log' = log \cup {l}
      /\ req' = [req EXCEPT ![r].pc = "handler", ![r].seen = seen]
  BY <1>1 DEF LogRequest, Log
<1>3. /\ l.of = r /\ l.kind = "request" /\ l.status = 0
      /\ l.rid = req[r].rid /\ l.life = req[r].life
  BY DEF Line
<1> HIDE DEF l
<1>4. req[r].route = "pull"
  BY <1>1, <1>2 DEF HandlerInv
<1>5. seen \in Answer /\ seen.status = 200 /\ seen.body = req[r].seen.body
  <2>1. req[r].seen \in Answer
    BY <1>1, RequestType
  <2> QED BY <2>1 DEF Answer, Statuses
<1> HIDE DEF seen
<1>6. /\ req' \in [Requests -> Request]
      /\ \A q \in Requests \ {r} : req'[q] = req[q]
      /\ req'[r].pc = "handler" /\ req'[r].seen = seen /\ req'[r].outcome = req[r].outcome
      /\ req'[r].route = req[r].route /\ req'[r].rid = req[r].rid /\ req'[r].life = req[r].life
      /\ req'[r].w = req[r].w /\ req'[r].open = req[r].open /\ req'[r].calls = req[r].calls
  <2> DEFINE pc == "handler"
  <2>1. req \in [Requests -> Request]
    BY <1>1
  <2>2. seen \in Answer
    BY <1>5
  <2>3. req' = [req EXCEPT ![r].pc = pc, ![r].seen = seen]
    BY <1>2
  <2>4. pc \in Labels
    BY DEF Labels
  <2> HIDE DEF pc
  <2>5. /\ req' \in [Requests -> Request]
        /\ \A q \in Requests \ {r} : req'[q] = req[q]
        /\ req'[r].pc = pc /\ req'[r].seen = seen /\ req'[r].outcome = req[r].outcome
        /\ req'[r].route = req[r].route /\ req'[r].rid = req[r].rid
        /\ req'[r].life = req[r].life /\ req'[r].w = req[r].w
        /\ req'[r].open = req[r].open /\ req'[r].calls = req[r].calls
    BY <2>1, <2>2, <2>3, <2>4 DEF Request
  <2> QED BY <2>5 DEF pc
<1>7. HandlerInv(r)'
  <2>1. /\ req[r].outcome = "none" /\ req[r].seen.body = Unwritten.body
        /\ req[r].w = Unwritten /\ req[r].calls = <<>>
        /\ Fits(req[r].w.body.text, req[r].calls) /\ Fits(req[r].seen.body.text, req[r].calls)
    BY <1>1, <1>2 DEF HandlerInv
  <2> QED BY <1>5, <1>6, <2>1 DEF HandlerInv
<1>8. SeenInv(r)'
  BY <1>5, <1>6 DEF SeenInv
<1>9. \A k \in log : k.of # r
  BY <1>1, <1>2 DEF LinesInv
<1>10. \A kinds : LinesOf(r, kinds)' = IF "request" \in kinds THEN {l} ELSE {}
  BY <1>2, <1>3, <1>9 DEF LinesOf
<1>11. LinesInv(r)'
  <2>1. LinesOf(r, Asked)' = {l} /\ l \in log'
    BY <1>2, <1>10 DEF Asked
  <2>2. ASSUME NEW k \in log', k.of = r
        PROVE  /\ k.status \in Statuses /\ k.rid = req'[r].rid /\ k.life = req'[r].life
               /\ req'[r].pc \notin {"new", "context", "dump"}
               /\ k.kind \in Ending => req'[r].pc \in {"finish", "done", "cut"}
    <3>1. k = l
      BY <1>2, <1>9, <2>2
    <3> QED BY <1>3, <1>6, <3>1 DEF Statuses, Ending
  <2>3. req'[r].pc \notin {"finish", "done"}
    BY <1>6
  <2> QED BY <2>1, <2>2, <2>3 DEF LinesInv
<1>12. AnswerInv(r)'
  <2>1. answer'[r] = Unwritten /\ answer'[r].body.text \in Texts
    BY <1>1, <1>2 DEF AnswerInv
  <2> QED BY <1>6, <2>1 DEF AnswerInv
<1>13. RequestInv(r)'
  BY <1>7, <1>8, <1>11, <1>12 DEF RequestInv
<1>14. Running(r)
  BY <1>2 DEF Running
<1> QED BY <1>1, <1>2, <1>3, <1>6, <1>13, <1>14, OneRequest

(* The line that says how a pull ended is the only one that does.          *)
LEMMA EndLogged ==
    ASSUME NEW r \in Requests, LinesInv(r), NEW l, log' = log \cup {l},
           l.of = r, l.kind \in {"response", "panic"}, l.status \in Statuses,
           l.rid = req[r].rid, l.life = req[r].life,
           req[r].pc \in {"logResponse", "recover"}, req'[r].pc = "finish",
           req'[r].route = req[r].route, req'[r].rid = req[r].rid, req'[r].life = req[r].life
    PROVE  /\ LinesInv(r)'
           /\ LinesOf(r, {"response"})' = IF l.kind = "response" THEN {l} ELSE {}
<1>1. \A k \in log : k.of = r => k.kind \notin Ending
  BY DEF LinesInv
<1>2. LinesOf(r, Ending)' = {l} /\ l \in log'
  BY <1>1 DEF LinesOf, Ending
<1>3. LinesOf(r, {"response"})' = IF l.kind = "response" THEN {l} ELSE {}
  BY <1>1 DEF LinesOf, Ending
<1>4. LinesOf(r, Asked)' = LinesOf(r, Asked)
  BY DEF LinesOf, Asked
<1>5. ASSUME NEW k \in log', k.of = r
      PROVE  /\ k.status \in Statuses /\ k.rid = req'[r].rid /\ k.life = req'[r].life
             /\ req'[r].pc \notin {"new", "context", "dump"}
             /\ k.kind \in Ending => req'[r].pc \in {"finish", "done", "cut"}
  <2>1. k = l \/ k \in log
    OBVIOUS
  <2>2. k \in log => k.status \in Statuses /\ k.rid = req[r].rid /\ k.life = req[r].life
    BY <1>5 DEF LinesInv
  <2> QED BY <2>1, <2>2
<1>6. req'[r].route = "pull" => \E k \in log' : LinesOf(r, Asked)' = {k}
  BY <1>4 DEF LinesInv
<1>7. LinesInv(r)'
  BY <1>2, <1>5, <1>6 DEF LinesInv
<1> QED BY <1>3, <1>7

LEMMA LogResponseKeeps ==
    ASSUME HTTPServerInv, NEW r \in Requests, LogResponse(r)
    PROVE  HTTPServerInv'
<1> DEFINE text == Filter(MaybeUnzip(req[r].seen.body))
           l == Line(r, "response", req[r].seen.status, text)
<1>1. /\ req \in [Requests -> Request] /\ req[r] \in Request /\ answer \in [Requests -> Answer]
      /\ HandlerInv(r) /\ SeenInv(r) /\ LinesInv(r) /\ AnswerInv(r)
  BY DEF HTTPServerInv, ProcessInv, RequestInv
<1>2. /\ req[r].pc = "logResponse"
      /\ process' = process /\ answer' = answer /\ log' = log \cup {l}
      /\ req' = [req EXCEPT ![r].pc = "finish"]
  BY DEF LogResponse, Log, Goto
<1>3. /\ l.of = r /\ l.kind = "response" /\ l.status = req[r].seen.status /\ l.text = text
      /\ l.rid = req[r].rid /\ l.life = req[r].life
  BY DEF Line
<1> HIDE DEF l
<1>4. req[r].open => text = Filter(req[r].w.body.text) /\ l.status = Headed(req[r].w, 200).status
  <2>1. SUFFICES ASSUME req[r].open
                 PROVE  text = Filter(req[r].w.body.text) /\ l.status = Headed(req[r].w, 200).status
    OBVIOUS
  <2>2. /\ req[r].seen.body = req[r].w.body /\ req[r].seen.body.form # "part"
        /\ req[r].seen.status = (IF req[r].w.status = 0 THEN 200 ELSE req[r].w.status)
    <3>1. req[r].calls = <<>> /\ EndsWhole(req[r].seen.body, req[r].calls)
      BY <1>1, <1>2, <2>1 DEF SeenInv, HandlerInv
    <3> QED BY <1>1, <1>2, <2>1, <3>1 DEF SeenInv, HandlerInv, EndsWhole, Completes
  <2>3. MaybeUnzip(req[r].seen.body) = req[r].w.body.text
    BY <2>2 DEF MaybeUnzip
  <2>4. req[r].w \in Answer /\ 200 \in Statuses \ {0}
    BY <1>1, RequestType DEF Statuses
  <2>5. Headed(req[r].w, 200).status = (IF req[r].w.status = 0 THEN 200 ELSE req[r].w.status)
    BY <2>4, HeadedFacts
  <2> QED BY <1>3, <2>2, <2>3, <2>5
<1>5. l.status \in Statuses
  BY <1>1, <1>3, RequestType, AnswerType
<1> HIDE DEF text
<1>6. /\ req' \in [Requests -> Request]
      /\ \A q \in Requests \ {r} : req'[q] = req[q]
      /\ req'[r].pc = "finish" /\ req'[r].seen = req[r].seen /\ req'[r].outcome = req[r].outcome
      /\ req'[r].route = req[r].route /\ req'[r].rid = req[r].rid /\ req'[r].life = req[r].life
      /\ req'[r].w = req[r].w /\ req'[r].open = req[r].open /\ req'[r].calls = req[r].calls
  <2>1. req \in [Requests -> Request] /\ "finish" \in Labels
    BY <1>1 DEF Labels
  <2> QED BY <1>2, <2>1 DEF Request
<1>7. HandlerInv(r)'
  BY <1>1, <1>2, <1>6 DEF HandlerInv
<1>8. SeenInv(r)'
  BY <1>6 DEF SeenInv
<1>9. LinesInv(r)' /\ LinesOf(r, {"response"})' = {l}
  <2>1. /\ LinesInv(r) /\ log' = log \cup {l}
        /\ l.kind \in {"response", "panic"} /\ req[r].pc \in {"logResponse", "recover"}
    BY <1>1, <1>2, <1>3
  <2>2. /\ LinesInv(r)'
        /\ LinesOf(r, {"response"})' = IF l.kind = "response" THEN {l} ELSE {}
    BY <1>3, <1>5, <1>6, <2>1, EndLogged
  <2> QED BY <1>3, <2>2
<1>10. AnswerInv(r)'
  <2>1. answer'[r] = Unwritten /\ answer'[r].body.text \in Texts
    BY <1>1, <1>2 DEF AnswerInv
  <2>2. req'[r].open => \A k \in LinesOf(r, {"response"})' :
           k.status = Headed(req'[r].w, 200).status /\ k.text = Filter(req'[r].w.body.text)
    BY <1>3, <1>4, <1>6, <1>9
  <2> QED BY <1>6, <2>1, <2>2 DEF AnswerInv
<1>11. RequestInv(r)'
  BY <1>7, <1>8, <1>9, <1>10 DEF RequestInv
<1>12. Running(r)
  BY <1>2 DEF Running
<1> QED BY <1>1, <1>2, <1>3, <1>6, <1>11, <1>12, OneRequest

LEMMA PanicCatcherKeeps ==
    ASSUME HTTPServerInv, NEW r \in Requests, PanicCatcher(r)
    PROVE  HTTPServerInv'
<1> DEFINE l == Line(r, "panic", 0, <<>>)
           w == Headed(req[r].w, 500)
<1>1. /\ req \in [Requests -> Request] /\ req[r] \in Request /\ answer \in [Requests -> Answer]
      /\ HandlerInv(r) /\ SeenInv(r) /\ LinesInv(r) /\ AnswerInv(r)
  BY DEF HTTPServerInv, ProcessInv, RequestInv
<1>2. /\ req[r].pc = "recover"
      /\ process' = process /\ answer' = answer /\ log' = log \cup {l}
      /\ req' = [req EXCEPT ![r].pc = "finish", ![r].w = w]
  BY <1>1 DEF PanicCatcher, Log
<1>3. /\ l.of = r /\ l.kind = "panic" /\ l.status = 0
      /\ l.rid = req[r].rid /\ l.life = req[r].life
  BY DEF Line
<1> HIDE DEF l
<1>4. w \in Answer /\ w.status = 500 /\ w.body = req[r].w.body
  <2>1. req[r].w = Unwritten /\ Unwritten.status = 0
    BY <1>1, <1>2 DEF HandlerInv, Unwritten
  <2>2. req[r].w \in Answer /\ 500 \in Statuses \ {0}
    BY <1>1, RequestType DEF Statuses
  <2> QED BY <2>1, <2>2, HeadedFacts
<1> HIDE DEF w
<1>5. /\ req' \in [Requests -> Request]
      /\ \A q \in Requests \ {r} : req'[q] = req[q]
      /\ req'[r].pc = "finish" /\ req'[r].seen = req[r].seen /\ req'[r].outcome = req[r].outcome
      /\ req'[r].route = req[r].route /\ req'[r].rid = req[r].rid /\ req'[r].life = req[r].life
      /\ req'[r].w = w /\ req'[r].open = req[r].open /\ req'[r].calls = req[r].calls
  <2> DEFINE pc == "finish"
  <2>1. req \in [Requests -> Request]
    BY <1>1
  <2>2. w \in Answer
    BY <1>4
  <2>3. req' = [req EXCEPT ![r].pc = pc, ![r].w = w]
    BY <1>2
  <2>4. pc \in Labels
    BY DEF Labels
  <2> HIDE DEF pc
  <2>5. /\ req' \in [Requests -> Request]
        /\ \A q \in Requests \ {r} : req'[q] = req[q]
        /\ req'[r].pc = pc /\ req'[r].seen = req[r].seen /\ req'[r].outcome = req[r].outcome
        /\ req'[r].route = req[r].route /\ req'[r].rid = req[r].rid
        /\ req'[r].life = req[r].life /\ req'[r].w = w
        /\ req'[r].open = req[r].open /\ req'[r].calls = req[r].calls
    BY <2>1, <2>2, <2>3, <2>4 DEF Request
  <2> QED BY <2>5 DEF pc
<1>6. HandlerInv(r)'
  <2>1. /\ req[r].outcome = "panicked" /\ req[r].calls = <<>>
        /\ Fits(req[r].w.body.text, req[r].calls) /\ Fits(req[r].seen.body.text, req[r].calls)
    BY <1>1, <1>2 DEF HandlerInv
  <2>2. Tells(Eventual(w, <<>>), "panicked")
    BY <1>4 DEF Tells, Eventual
  <2> QED BY <1>4, <1>5, <2>1, <2>2 DEF HandlerInv
<1>7. SeenInv(r)'
  BY <1>5 DEF SeenInv
<1>8. LinesInv(r)' /\ LinesOf(r, {"response"})' = {}
  <2>1. l.status \in Statuses
    BY <1>3 DEF Statuses
  <2> QED BY <1>1, <1>2, <1>3, <1>5, <2>1, EndLogged
<1>9. AnswerInv(r)'
  <2>1. answer'[r] = Unwritten /\ answer'[r].body.text \in Texts
    BY <1>1, <1>2 DEF AnswerInv
  <2> QED BY <1>5, <1>8, <2>1 DEF AnswerInv
<1>10. RequestInv(r)'
  BY <1>6, <1>7, <1>8, <1>9 DEF RequestInv
<1>11. Running(r)
  BY <1>2 DEF Running
<1> QED BY <1>1, <1>2, <1>3, <1>5, <1>10, <1>11, OneRequest

(* A client that listens gets what was written; a status is always set.    *)
LEMMA FinishKeeps ==
    ASSUME HTTPServerInv, NEW r \in Requests, Finish(r)
    PROVE  HTTPServerInv'
<1> DEFINE sent == Headed(req[r].w, 200)
<1>1. /\ req \in [Requests -> Request] /\ req[r] \in Request /\ answer \in [Requests -> Answer]
      /\ HandlerInv(r) /\ SeenInv(r) /\ LinesInv(r) /\ AnswerInv(r)
  BY DEF HTTPServerInv, ProcessInv, RequestInv
<1>2. /\ req[r].pc = "finish" /\ process' = process /\ log' = log
      /\ req' = [req EXCEPT ![r].pc = "done"]
      /\ answer' = IF req[r].open THEN [answer EXCEPT ![r] = sent] ELSE answer
  BY DEF Finish, Goto
<1>3. /\ sent \in Answer /\ sent.body = req[r].w.body
      /\ sent.status = (IF req[r].w.status = 0 THEN 200 ELSE req[r].w.status)
  <2>1. req[r].w \in Answer /\ 200 \in Statuses \ {0}
    BY <1>1, RequestType DEF Statuses
  <2> QED BY <2>1, HeadedFacts
<1>4. sent.status = Eventual(req[r].w, req[r].calls)
  <2>1. req[r].calls = <<>>
    BY <1>1, <1>2 DEF HandlerInv
  <2> QED BY <1>3, <2>1 DEF Eventual
<1> HIDE DEF sent
<1>5. /\ req' \in [Requests -> Request]
      /\ \A q \in Requests \ {r} : req'[q] = req[q]
      /\ req'[r].pc = "done" /\ req'[r].seen = req[r].seen /\ req'[r].outcome = req[r].outcome
      /\ req'[r].route = req[r].route /\ req'[r].rid = req[r].rid /\ req'[r].life = req[r].life
      /\ req'[r].w = req[r].w /\ req'[r].open = req[r].open /\ req'[r].calls = req[r].calls
  <2>1. req \in [Requests -> Request] /\ "done" \in Labels
    BY <1>1 DEF Labels
  <2> QED BY <1>2, <2>1 DEF Request
<1>6. /\ answer' \in [Requests -> Answer] /\ \A q \in Requests \ {r} : answer'[q] = answer[q]
      /\ answer'[r] = IF req[r].open THEN sent ELSE answer[r]
  BY <1>1, <1>2, <1>3
<1>7. HandlerInv(r)'
  BY <1>1, <1>2, <1>5 DEF HandlerInv
<1>8. SeenInv(r)'
  BY <1>5 DEF SeenInv
<1>9. LinesInv(r)'
  BY <1>1, <1>2, <1>5, QuietStep DEF Logged
<1>10. AnswerInv(r)'
  <2>1. LinesOf(r, {"response"})' = LinesOf(r, {"response"})
    BY <1>2 DEF LinesOf
  <2>2. answer[r] = Unwritten /\ answer[r].body.text \in Texts /\ Unwritten.status = 0
    BY <1>1, <1>2 DEF AnswerInv, Unwritten
  <2>3. sent.body.text \in Texts
    BY <1>1, <1>3, FitsTexts DEF HandlerInv
  <2>4. req[r].route \in Caught => Tells(sent.status, req[r].outcome)
    BY <1>1, <1>2, <1>4 DEF HandlerInv
  <2>5. req[r].open => \A l \in LinesOf(r, {"response"}) :
           l.status = sent.status /\ l.text = Filter(sent.body.text)
    BY <1>1, <1>2, <1>3 DEF AnswerInv, sent
  <2>6. answer'[r].body.text \in Texts
    BY <1>6, <2>2, <2>3
  <2>7. answer'[r].status # 0 /\ req[r].route \in Caught => Tells(answer'[r].status, req[r].outcome)
    BY <1>6, <2>2, <2>4
  <2>8. req[r].open => \A l \in LinesOf(r, {"response"})' :
           l.status = answer'[r].status /\ l.text = Filter(answer'[r].body.text)
    BY <1>6, <2>1, <2>5
  <2> QED BY <1>5, <2>6, <2>7, <2>8 DEF AnswerInv
<1>11. RequestInv(r)'
  BY <1>7, <1>8, <1>9, <1>10 DEF RequestInv
<1>12. Running(r)
  BY <1>2 DEF Running
<1> QED BY <1>1, <1>2, <1>5, <1>6, <1>11, <1>12, OneRequest

-------------------------------------------------------------------------------
(* The steps of the process.                                               *)

LEMMA AcceptKeeps ==
    ASSUME HTTPServerInv, NEW r \in Requests, NEW route \in Routes, NEW dump \in DumpsOf(route),
           Accept(r, route, dump)
    PROVE  HTTPServerInv'
<1> DEFINE pc == IF route = "pull" THEN "context" ELSE "handler"
<1>1. /\ req \in [Requests -> Request] /\ req[r] \in Request /\ answer \in [Requests -> Answer]
      /\ HandlerInv(r) /\ SeenInv(r) /\ LinesInv(r) /\ AnswerInv(r)
      /\ process \in [up : BOOLEAN, life : 0..MaxLives, reqID : Nat]
  BY DEF HTTPServerInv, ProcessInv, RequestInv
<1>2. /\ process.up /\ req[r].pc = "new" /\ process' = process /\ log' = log /\ answer' = answer
      /\ req' = [req EXCEPT ![r].pc = pc, ![r].route = route, ![r].dump = dump,
                            ![r].life = process.life]
  BY DEF Accept
<1>3. pc \in Labels /\ dump \in AnyDump /\ process.life \in Nat
  BY <1>1 DEF Labels, DumpsOf, AnyDump
<1>4. /\ pc \in {"context", "handler"} /\ (pc = "context" => route = "pull")
      /\ (pc = "handler" => route # "pull")
  OBVIOUS
<1> HIDE DEF pc
<1>5. /\ req' \in [Requests -> Request]
      /\ \A q \in Requests \ {r} : req'[q] = req[q]
      /\ req'[r].pc = pc /\ req'[r].seen = req[r].seen /\ req'[r].outcome = req[r].outcome
      /\ req'[r].route = route /\ req'[r].rid = req[r].rid /\ req'[r].life = process.life
      /\ req'[r].w = req[r].w /\ req'[r].open = req[r].open /\ req'[r].calls = req[r].calls
  <2>1. req \in [Requests -> Request]
    BY <1>1
  <2> DEFINE life == process.life
  <2>2. req' = [req EXCEPT ![r].pc = pc, ![r].route = route, ![r].dump = dump, ![r].life = life]
    BY <1>2
  <2>3. pc \in Labels /\ dump \in AnyDump /\ life \in Nat
    BY <1>3
  <2> HIDE DEF life
  <2> DEFINE y == [req[r] EXCEPT !.pc = pc, !.route = route, !.dump = dump, !.life = life]
  <2>4. req' = [req EXCEPT ![r] = y] /\ req[r] \in Request
    BY <2>1, <2>2
  <2>5. y \in Request
    <3>1. ASSUME NEW x \in Request
          PROVE  [x EXCEPT !.pc = pc, !.route = route, !.dump = dump, !.life = life] \in Request
      BY <2>3 DEF Request
    <3> QED BY <2>4, <3>1
  <2>6. /\ y.pc = pc /\ y.seen = req[r].seen /\ y.outcome = req[r].outcome
        /\ y.route = route /\ y.rid = req[r].rid /\ y.life = life
        /\ y.w = req[r].w /\ y.open = req[r].open /\ y.calls = req[r].calls
    BY <2>4 DEF Request
  <2> HIDE DEF y
  <2>7. /\ req' \in [Requests -> Request] /\ req'[r] = y
        /\ \A q \in Requests \ {r} : req'[q] = req[q]
    BY <2>1, <2>4, <2>5
  <2> QED BY <2>6, <2>7 DEF life
<1>6. req[r].rid = 0
  BY <1>2 DEF HTTPServerInv, RidInv
<1>7. RidInv'
  <2>1. Numbered' = Numbered
    BY <1>2, <1>5, <1>6 DEF Numbered
  <2>2. Cardinality(Numbered') = process'.reqID
    BY <1>2, <2>1 DEF HTTPServerInv, RidInv
  <2>3. \A q \in Requests : /\ req'[q].pc \in {"new", "context"} => req'[q].rid = 0
                            /\ req'[q].life = process'.life => req'[q].rid <= process'.reqID
    BY <1>1, <1>2, <1>5, <1>6 DEF HTTPServerInv, RidInv
  <2>4. \A p, q \in Requests :
           req'[p].life = req'[q].life /\ req'[p].rid = req'[q].rid /\ req'[p].rid # 0 => p = q
    BY <1>2, <1>5, <1>6 DEF HTTPServerInv, RidInv
  <2> QED BY <2>2, <2>3, <2>4 DEF RidInv
<1>8. ProcessInv'
  <2>1. ASSUME NEW q \in Requests
        PROVE  /\ req'[q].life <= process'.life
               /\ Running(q)' => process'.up /\ req'[q].life = process'.life
    <3>1. CASE q = r
      BY <1>1, <1>2, <1>3, <1>5, <3>1
    <3>2. CASE q # r
      <4>1. req'[q] = req[q]
        BY <1>5, <3>2
      <4>2. Running(q)' = Running(q)
        BY <4>1 DEF Running
      <4> QED BY <1>2, <4>1, <4>2 DEF HTTPServerInv, ProcessInv
    <3> QED BY <3>1, <3>2
  <2> QED BY <1>1, <1>2, <1>5, <2>1 DEF ProcessInv
<1>9. HandlerInv(r)'
  <2>1. /\ req[r].outcome = "none" /\ req[r].seen.body = Unwritten.body
        /\ req[r].w = Unwritten /\ req[r].calls = <<>>
        /\ Fits(req[r].w.body.text, req[r].calls) /\ Fits(req[r].seen.body.text, req[r].calls)
    BY <1>1, <1>2 DEF HandlerInv
  <2> QED BY <1>4, <1>5, <2>1 DEF HandlerInv
<1>10. SeenInv(r)'
  BY <1>4, <1>5 DEF SeenInv
<1>11. \A k \in log' : k.of # r
  BY <1>1, <1>2 DEF LinesInv
<1>12. LinesInv(r)'
  BY <1>4, <1>5, <1>11 DEF LinesInv
<1>13. AnswerInv(r)'
  BY <1>1, <1>2, <1>4, <1>5 DEF AnswerInv
<1>14. \A q \in Requests \ {r} : RequestInv(q)'
  BY <1>2, <1>5, Untouched DEF HTTPServerInv
<1>15. \A l \in log' : l.of \in Requests
  BY <1>2 DEF HTTPServerInv
<1> QED BY <1>7, <1>8, <1>9, <1>10, <1>12, <1>13, <1>14, <1>15 DEF HTTPServerInv, RequestInv

(* A request is numbered with what the counter shows after it.             *)
LEMMA ContextLoggerKeeps ==
    ASSUME HTTPServerInv, NEW r \in Requests, ContextLogger(r)
    PROVE  HTTPServerInv'
<1> DEFINE n == process.reqID + 1
<1>1. /\ req \in [Requests -> Request] /\ req[r] \in Request /\ answer \in [Requests -> Answer]
      /\ HandlerInv(r) /\ SeenInv(r) /\ LinesInv(r) /\ AnswerInv(r)
      /\ process \in [up : BOOLEAN, life : 0..MaxLives, reqID : Nat]
  BY DEF HTTPServerInv, ProcessInv, RequestInv
<1>2. /\ req[r].pc = "context" /\ log' = log /\ answer' = answer
      /\ process' = [process EXCEPT !.reqID = n]
      /\ req' = [req EXCEPT ![r].pc = "dump", ![r].rid = n]
  BY <1>1 DEF ContextLogger
<1>3. n \in Nat /\ n = process.reqID + 1 /\ process.reqID \in Nat
  BY <1>1
<1> HIDE DEF n
<1>4. /\ process' \in [up : BOOLEAN, life : 0..MaxLives, reqID : Nat]
      /\ process'.up = process.up /\ process'.life = process.life /\ process'.reqID = n
  BY <1>1, <1>2, <1>3
<1>5. /\ req' \in [Requests -> Request]
      /\ \A q \in Requests \ {r} : req'[q] = req[q]
      /\ req'[r].pc = "dump" /\ req'[r].seen = req[r].seen /\ req'[r].outcome = req[r].outcome
      /\ req'[r].route = req[r].route /\ req'[r].rid = n /\ req'[r].life = req[r].life
      /\ req'[r].w = req[r].w /\ req'[r].open = req[r].open /\ req'[r].calls = req[r].calls
  <2>1. req \in [Requests -> Request] /\ "dump" \in Labels
    BY <1>1 DEF Labels
  <2> DEFINE pc == "dump"
             y == [req[r] EXCEPT !.pc = pc, !.rid = n]
  <2>2. /\ req' = [req EXCEPT ![r] = y] /\ pc \in Labels
        /\ req[r] \in Request
    BY <1>2, <2>1
  <2> HIDE DEF pc
  <2>3. y \in Request
    <3>1. ASSUME NEW x \in Request
          PROVE  [x EXCEPT !.pc = pc, !.rid = n] \in Request
      BY <1>3, <2>2 DEF Request
    <3> QED BY <2>2, <3>1
  <2>4. /\ y.pc = pc /\ y.seen = req[r].seen /\ y.outcome = req[r].outcome
        /\ y.route = req[r].route /\ y.rid = n /\ y.life = req[r].life
        /\ y.w = req[r].w /\ y.open = req[r].open /\ y.calls = req[r].calls
    BY <2>2 DEF Request
  <2> HIDE DEF y
  <2>5. /\ req' \in [Requests -> Request] /\ req'[r] = y
        /\ \A q \in Requests \ {r} : req'[q] = req[q]
    BY <2>1, <2>2, <2>3
  <2> QED BY <2>4, <2>5 DEF pc
<1>6. /\ req[r].rid = 0 /\ Cardinality(Numbered) = process.reqID
      /\ \A q \in Requests : req[q].life = process.life => req[q].rid <= process.reqID
  BY <1>2 DEF HTTPServerInv, RidInv
<1>7. req[r].life = process.life
  BY <1>2 DEF HTTPServerInv, ProcessInv, Running
<1>8. RidInv'
  <2>1. Numbered' = Numbered \cup {r} /\ r \notin Numbered
    BY <1>3, <1>4, <1>5, <1>6, <1>7 DEF Numbered
  <2>2. IsFiniteSet(Numbered)
    <3>1. Numbered \subseteq Requests
      BY DEF Numbered
    <3> QED BY <3>1, RequestsAssumption, FS_Subset
  <2>3. Cardinality(Numbered') = process'.reqID
    <3>1. Cardinality(Numbered \cup {r}) = Cardinality(Numbered) + 1
      BY <2>1, <2>2, FS_AddElement
    <3> QED BY <1>3, <1>4, <1>6, <2>1, <3>1
  <2>4. \A q \in Requests : req[q].rid \in Nat
    BY <1>1, RequestType
  <2>5. \A q \in Requests : /\ req'[q].pc \in {"new", "context"} => req'[q].rid = 0
                            /\ req'[q].life = process'.life => req'[q].rid <= process'.reqID
    BY <1>3, <1>4, <1>5, <1>6, <2>4 DEF HTTPServerInv, RidInv
  <2>6. \A q \in Requests : req[q].life = process.life => req[q].rid # n
    BY <1>3, <1>6, <2>4
  <2>7. ASSUME NEW p \in Requests, NEW q \in Requests,
               req'[p].life = req'[q].life, req'[p].rid = req'[q].rid, req'[p].rid # 0
        PROVE  p = q
    <3>1. CASE p = r /\ q # r
      BY <1>5, <1>7, <2>6, <2>7, <3>1
    <3>2. CASE p # r /\ q = r
      BY <1>5, <1>7, <2>6, <2>7, <3>2
    <3>3. CASE p # r /\ q # r
      BY <1>5, <2>7, <3>3 DEF HTTPServerInv, RidInv
    <3> QED BY <3>1, <3>2, <3>3
  <2> QED BY <2>3, <2>5, <2>7 DEF RidInv
<1>9. ProcessInv'
  <2>1. ASSUME NEW q \in Requests
        PROVE  /\ req'[q].life <= process'.life
               /\ Running(q)' => process'.up /\ req'[q].life = process'.life
    <3>1. /\ req[q].life <= process.life
          /\ Running(q) => process.up /\ req[q].life = process.life
      BY DEF HTTPServerInv, ProcessInv
    <3>2. req'[q].life = req[q].life
      BY <1>5
    <3>3. Running(q)' => Running(q)
      BY <1>2, <1>5 DEF Running
    <3> QED BY <1>4, <3>1, <3>2, <3>3
  <2> QED BY <1>1, <1>2, <1>4, <1>5, <2>1 DEF ProcessInv
<1>10. HandlerInv(r)'
  BY <1>1, <1>2, <1>5 DEF HandlerInv
<1>11. SeenInv(r)'
  BY <1>5 DEF SeenInv
<1>12. \A k \in log' : k.of # r
  BY <1>1, <1>2 DEF LinesInv
<1>13. LinesInv(r)'
  BY <1>5, <1>12 DEF LinesInv
<1>14. AnswerInv(r)'
  BY <1>1, <1>2, <1>5 DEF AnswerInv
<1>15. \A q \in Requests \ {r} : RequestInv(q)'
  BY <1>2, <1>5, Untouched DEF HTTPServerInv
<1>16. \A l \in log' : l.of \in Requests
  BY <1>2 DEF HTTPServerInv
<1> QED BY <1>8, <1>9, <1>10, <1>11, <1>13, <1>14, <1>15, <1>16 DEF HTTPServerInv, RequestInv

LEMMA StartKeeps ==
    ASSUME HTTPServerInv, Start
    PROVE  HTTPServerInv'
<1>1. /\ ~process.up /\ process.life < MaxLives
      /\ process' = [up |-> TRUE, life |-> process.life + 1, reqID |-> 0]
      /\ req' = req /\ answer' = answer /\ log' = log
  BY DEF Start
<1>2. process \in [up : BOOLEAN, life : 0..MaxLives, reqID : Nat]
  BY DEF HTTPServerInv, ProcessInv
<1>3. /\ process' \in [up : BOOLEAN, life : 0..MaxLives, reqID : Nat]
      /\ process'.life = process.life + 1 /\ process'.reqID = 0
      /\ process.life \in Nat
  BY <1>1, <1>2, LivesAssumption
<1>4. \A r \in Requests : req[r].life \in Nat /\ req[r].life <= process.life /\ ~Running(r)
  BY <1>1, RequestType DEF HTTPServerInv, ProcessInv
<1>5. ProcessInv'
  <2>1. \A r \in Requests : req'[r].life <= process'.life /\ ~Running(r)'
    BY <1>1, <1>3, <1>4 DEF Running
  <2>2. req' \in [Requests -> Request] /\ answer' \in [Requests -> Answer]
    BY <1>1 DEF HTTPServerInv, ProcessInv
  <2> QED BY <1>3, <2>1, <2>2 DEF ProcessInv
<1>6. RidInv'
  <2>1. \A r \in Requests : req'[r].life # process'.life
    BY <1>1, <1>3, <1>4
  <2>2. Numbered' = {}
    BY <2>1 DEF Numbered
  <2>3. Cardinality(Numbered') = process'.reqID
    BY <1>3, <2>2, FS_EmptySet
  <2> QED BY <1>1, <2>1, <2>3 DEF HTTPServerInv, RidInv
<1>7. \A r \in Requests : RequestInv(r)'
  BY <1>1, Untouched DEF HTTPServerInv
<1> QED BY <1>1, <1>5, <1>6, <1>7 DEF HTTPServerInv

LEMMA ExitKeeps ==
    ASSUME HTTPServerInv, NEW panicked, Exit(panicked)
    PROVE  HTTPServerInv'
<1>1. /\ process.up /\ process' = [process EXCEPT !.up = FALSE]
      /\ answer' = answer /\ log' = log
      /\ req' = [r \in Requests |->
                   IF ~Running(r) THEN req[r]
                   ELSE [req[r] EXCEPT !.pc = "cut",
                                       !.outcome = IF r \in panicked THEN "panicked" ELSE @]]
  BY DEF Exit
<1>2. /\ process \in [up : BOOLEAN, life : 0..MaxLives, reqID : Nat]
      /\ req \in [Requests -> Request] /\ answer \in [Requests -> Answer]
  BY DEF HTTPServerInv, ProcessInv
<1>3. /\ process' \in [up : BOOLEAN, life : 0..MaxLives, reqID : Nat]
      /\ process'.life = process.life /\ process'.reqID = process.reqID
  BY <1>1, <1>2
<1>4. ASSUME NEW r \in Requests
      PROVE  /\ req'[r] \in Request
             /\ req'[r].route = req[r].route /\ req'[r].rid = req[r].rid
             /\ req'[r].life = req[r].life /\ req'[r].calls = req[r].calls
             /\ req'[r].w = req[r].w /\ req'[r].seen = req[r].seen
             /\ ~Running(r) => req'[r] = req[r]
             /\ Running(r) => req'[r].pc = "cut"
  <2>1. CASE ~Running(r)
    BY <1>1, <1>2, <2>1
  <2>2. CASE Running(r)
    <3> DEFINE outcome == IF r \in panicked THEN "panicked" ELSE req[r].outcome
               pc == "cut"
               x == req[r]
    <3>1. x \in Request
      BY <1>2
    <3>2. outcome \in Outcomes /\ pc \in Labels
      BY <3>1, RequestType DEF Outcomes, Labels
    <3>3. req'[r] = [x EXCEPT !.pc = pc, !.outcome = outcome]
      BY <1>1, <2>2
    <3> HIDE DEF outcome, pc, x
    <3>4. /\ req'[r] \in Request /\ req'[r].pc = pc
          /\ req'[r].route = x.route /\ req'[r].rid = x.rid
          /\ req'[r].life = x.life /\ req'[r].calls = x.calls
          /\ req'[r].w = x.w /\ req'[r].seen = x.seen
      BY <3>1, <3>2, <3>3 DEF Request
    <3> QED BY <2>2, <3>4 DEF pc, x
  <2> QED BY <2>1, <2>2
<1>5. ASSUME NEW r \in Requests
      PROVE  ~Running(r)' /\ req'[r].life <= process'.life
  <2>1. ~Running(r)'
    BY <1>4 DEF Running
  <2>2. req[r].life <= process.life
    BY DEF HTTPServerInv, ProcessInv
  <2> QED BY <1>3, <1>4, <2>1, <2>2
<1>6. ProcessInv'
  <2>1. req' \in [Requests -> Request]
    BY <1>1, <1>4
  <2>2. answer' \in [Requests -> Answer]
    BY <1>1, <1>2
  <2> QED BY <1>3, <1>5, <2>1, <2>2 DEF ProcessInv
<1>7. RidInv'
  <2>1. Numbered' = Numbered
    BY <1>3, <1>4 DEF Numbered
  <2>2. \A r \in Requests : req'[r].pc \in {"new", "context"} => req'[r].rid = 0
    BY <1>4 DEF HTTPServerInv, RidInv
  <2> QED BY <1>3, <1>4, <2>1, <2>2 DEF HTTPServerInv, RidInv
<1>8. ASSUME NEW r \in Requests
      PROVE  RequestInv(r)'
  <2>1. RequestInv(r)
    BY DEF HTTPServerInv
  <2>2. CASE ~Running(r)
    BY <1>1, <1>4, <2>1, <2>2, Untouched
  <2>3. CASE Running(r)
    <3>1. req'[r].pc = "cut"
      BY <1>4, <2>3
    <3>2. HandlerInv(r)'
      BY <1>4, <2>1, <3>1 DEF RequestInv, HandlerInv
    <3>3. SeenInv(r)'
      BY <3>1 DEF SeenInv
    <3>4. LinesInv(r)'
      BY <1>1, <1>4, <2>1, <3>1, QuietStep DEF RequestInv, Logged
    <3>5. AnswerInv(r)'
      BY <1>1, <2>1, <2>3, <3>1 DEF RequestInv, AnswerInv, Running
    <3> QED BY <3>2, <3>3, <3>4, <3>5 DEF RequestInv
  <2> QED BY <2>2, <2>3
<1> QED BY <1>1, <1>6, <1>7, <1>8 DEF HTTPServerInv

-------------------------------------------------------------------------------
(* Theorems.                                                               *)

LEMMA InitEstablishes == Init => HTTPServerInv
<1> SUFFICES ASSUME Init
             PROVE  HTTPServerInv
  OBVIOUS
<1>1. /\ process = [up |-> FALSE, life |-> 0, reqID |-> 0]
      /\ req = [r \in Requests |-> NoRequest]
      /\ answer = [r \in Requests |-> Unwritten] /\ log = {}
  BY DEF Init
<1>2. Unwritten \in Answer /\ Unwritten.status = 0 /\ Unwritten.body.text = <<>>
  BY DEF Unwritten, Plain, Answer, Statuses, Forms
<1>3. /\ NoRequest.pc = "new" /\ NoRequest.route = "hello" /\ NoRequest.life = 0
      /\ NoRequest.rid = 0 /\ NoRequest.dump = <<>> /\ NoRequest.open = TRUE
      /\ NoRequest.outcome = "none" /\ NoRequest.calls = <<>>
      /\ NoRequest.w = Unwritten /\ NoRequest.seen = Unwritten
  BY DEF NoRequest
<1>4. NoRequest \in Request
  <2>1. <<>> \in AnyDump /\ <<>> \in Seq(Calls)
    BY DEF AnyDump
  <2> QED BY <1>2, <2>1 DEF NoRequest, Request, Labels, Routes, Outcomes, AnyCalls
<1> HIDE DEF NoRequest
<1>5. ProcessInv
  <2>1. \A r \in Requests : req[r].life <= process.life /\ ~Running(r)
    BY <1>1, <1>3 DEF Running
  <2>2. process \in [up : BOOLEAN, life : 0..MaxLives, reqID : Nat]
    BY <1>1, LivesAssumption
  <2>3. req \in [Requests -> Request] /\ answer \in [Requests -> Answer]
    BY <1>1, <1>2, <1>4
  <2> QED BY <2>1, <2>2, <2>3 DEF ProcessInv
<1>6. RidInv
  <2>1. Numbered = {}
    BY <1>1, <1>3 DEF Numbered
  <2>2. Cardinality(Numbered) = process.reqID
    BY <1>1, <2>1, FS_EmptySet
  <2> QED BY <1>1, <1>3, <2>2 DEF RidInv
<1>7. ASSUME NEW r \in Requests
      PROVE  RequestInv(r)
  <2>1. req[r] = NoRequest /\ answer[r] = Unwritten
    BY <1>1
  <2>2. Fits(<<>>, <<>>) /\ <<>> \in Texts
    BY FitsEmpty DEF Texts
  <2>3. HandlerInv(r)
    BY <1>2, <1>3, <2>1, <2>2 DEF HandlerInv
  <2>4. SeenInv(r)
    BY <1>3, <2>1 DEF SeenInv
  <2>5. LinesInv(r)
    BY <1>1, <1>3, <2>1 DEF LinesInv
  <2>6. AnswerInv(r)
    BY <1>2, <1>3, <2>1, <2>2 DEF AnswerInv
  <2> QED BY <2>3, <2>4, <2>5, <2>6 DEF RequestInv
<1> QED BY <1>1, <1>5, <1>6, <1>7 DEF HTTPServerInv

LEMMA NextKeeps == HTTPServerInv /\ [Next]_vars => HTTPServerInv'
<1> SUFFICES ASSUME HTTPServerInv, [Next]_vars
             PROVE  HTTPServerInv'
  OBVIOUS
<1>1. CASE Start
  BY <1>1, StartKeeps
<1>2. CASE Signal
  BY <1>2, ExitKeeps DEF Signal
<1>3. ASSUME NEW r \in Requests, \E route \in Routes : \E dump \in DumpsOf(route) : Accept(r, route, dump)
      PROVE  HTTPServerInv'
  BY <1>3, AcceptKeeps
<1>4. ASSUME NEW r \in Requests, DiffPanic(r)
      PROVE  HTTPServerInv'
  BY <1>4, ExitKeeps DEF DiffPanic
<1>5. ASSUME NEW r \in Requests, Hangup(r)
      PROVE  HTTPServerInv'
  BY <1>5, HangupKeeps
<1>6. ASSUME NEW r \in Requests, Step(r)
      PROVE  HTTPServerInv'
  BY <1>6, ContextLoggerKeeps, DumpFailsKeeps, LogRequestKeeps, HandleKeeps, PanicKeeps,
     CallHeaderKeeps, CallWriteKeeps, WriteFailsKeeps, ReturnKeeps, LogResponseKeeps,
     PanicCatcherKeeps, FinishKeeps DEF Step
<1>7. CASE UNCHANGED vars
  <2>1. process' = process /\ req' = req /\ answer' = answer /\ log' = log
    BY <1>7 DEF vars
  <2>2. ProcessInv'
    BY <2>1 DEF HTTPServerInv, ProcessInv, Running
  <2>3. RidInv'
    BY <2>1 DEF HTTPServerInv, RidInv, Numbered
  <2>4. \A r \in Requests : RequestInv(r)'
    BY <2>1, Untouched DEF HTTPServerInv
  <2> QED BY <2>1, <2>2, <2>3, <2>4 DEF HTTPServerInv
<1> QED BY <1>1, <1>2, <1>3, <1>4, <1>5, <1>6, <1>7 DEF Next

(* Whatever requests come in, and whenever the process ends, HTTPServerInv *)
(* holds.                                                                  *)
THEOREM Invariant == Spec => []HTTPServerInv
BY InitEstablishes, NextKeeps, PTL DEF Spec

(* Type correctness: no process counts more requests than there are, and   *)
(* no handler writes anything but one text or the one for errors twice.    *)
THEOREM TypeCorrect == Spec => []TypeOK
<1>1. HTTPServerInv => TypeOK
  <2> SUFFICES ASSUME HTTPServerInv
               PROVE  TypeOK
    OBVIOUS
  <2>1. /\ process \in [up : BOOLEAN, life : 0..MaxLives, reqID : Nat]
        /\ Cardinality(Numbered) = process.reqID
    BY DEF HTTPServerInv, ProcessInv, RidInv
  <2>2. process \in [up : BOOLEAN, life : 0..MaxLives, reqID : 0..Cardinality(Requests)]
    <3>1. Numbered \subseteq Requests
      BY DEF Numbered
    <3>2. Cardinality(Numbered) <= Cardinality(Requests) /\ Cardinality(Requests) \in Nat
      BY <3>1, RequestsAssumption, FS_Subset, FS_CardinalityType
    <3> QED BY <2>1, <3>2
  <2>3. ASSUME NEW w \in Answer, w.body.text \in Texts
        PROVE  w \in Writers
    <3>1. w = [status |-> w.status, body |-> [text |-> w.body.text, form |-> w.body.form]]
      BY DEF Answer
    <3>2. w.status \in Statuses /\ w.body.form \in {"plain", "zipped", "part"}
      BY AnswerType DEF Forms
    <3> QED BY <2>3, <3>1, <3>2 DEF Writers, Bodies, Texts
  <2>4. ASSUME NEW r \in Requests
        PROVE  /\ req[r].pc \in Labels /\ req[r].route \in Routes
               /\ req[r].rid \in 0..process.reqID \/ req[r].life # process.life
               /\ req[r].w \in Writers /\ req[r].seen \in Writers
               /\ answer[r] \in Writers
    <3>1. req[r] \in Request /\ answer[r] \in Answer /\ HandlerInv(r) /\ AnswerInv(r)
      BY DEF HTTPServerInv, ProcessInv, RequestInv
    <3>2. /\ req[r].pc \in Labels /\ req[r].route \in Routes /\ req[r].rid \in Nat
          /\ req[r].w \in Answer /\ req[r].seen \in Answer
      BY <3>1, RequestType
    <3>3. req[r].life = process.life => req[r].rid <= process.reqID
      BY DEF HTTPServerInv, RidInv
    <3>4. /\ req[r].w.body.text \in Texts /\ req[r].seen.body.text \in Texts
          /\ answer[r].body.text \in Texts
      BY <3>1, FitsTexts DEF HandlerInv, AnswerInv
    <3>5. req[r].rid \in 0..process.reqID \/ req[r].life # process.life
      BY <2>1, <3>2, <3>3
    <3> QED BY <2>3, <3>1, <3>2, <3>4, <3>5
  <2>5. answer \in [Requests -> Writers]
    <3>1. answer \in [Requests -> Answer]
      BY DEF HTTPServerInv, ProcessInv
    <3> QED BY <2>4, <3>1
  <2>6. \A l \in log : l.of \in Requests /\ l.status \in Statuses
    BY DEF HTTPServerInv, RequestInv, LinesInv
  <2> QED BY <2>2, <2>4, <2>5, <2>6 DEF TypeOK, Labels
<1> QED BY <1>1, Invariant, PTL

(* In the log of a process, a rid tells requests apart, however many are   *)
(* answered at once: the counter is read where it is added to.             *)
THEOREM RidsAreUnique == Spec => []RidsTellRequestsApart
<1>1. HTTPServerInv => RidsTellRequestsApart
  BY DEF HTTPServerInv, RequestInv, LinesInv, RidInv, RidsTellRequestsApart
<1> QED BY <1>1, Invariant, PTL

(* The log says once of each pull how it ended, and what was asked.        *)
THEOREM PullsLogged == Spec => []PullsAreLogged
<1>1. HTTPServerInv => PullsAreLogged
  <2> SUFFICES ASSUME HTTPServerInv, NEW r \in Requests, req[r].route = "pull", req[r].pc = "done"
               PROVE  /\ Cardinality(LinesOf(r, {"response", "panic", "no dump"})) = 1
                      /\ Cardinality(LinesOf(r, {"request", "no dump"})) = 1
    BY DEF PullsAreLogged
  <2>1. /\ \E l \in log : LinesOf(r, Ending) = {l}
        /\ \E l \in log : LinesOf(r, Asked) = {l}
    BY DEF HTTPServerInv, RequestInv, LinesInv
  <2> QED BY <2>1, FS_Singleton DEF Ending, Asked
<1> QED BY <1>1, Invariant, PTL

(* What the log shows of a response is what the client got of it, although *)
(* responseLogger notes later statuses than the first and sees zipped text.*)
THEOREM SentAsLogged == Spec => []LoggedIsSent
<1>1. HTTPServerInv => LoggedIsSent
  BY DEF HTTPServerInv, RequestInv, AnswerInv, LoggedIsSent
<1> QED BY <1>1, Invariant, PTL

(* The status of a pull or an injection tells how it ended: 200 that it    *)
(* succeeded, 500 that it failed or panicked.                              *)
THEOREM StatusTells == Spec => []StatusTellsOutcome
<1>1. HTTPServerInv => StatusTellsOutcome
  <2>1. Unwritten.status = 0
    BY DEF Unwritten
  <2> QED BY <2>1 DEF HTTPServerInv, RequestInv, AnswerInv, StatusTellsOutcome, Tells
<1> QED BY <1>1, Invariant, PTL

-------------------------------------------------------------------------------
(* What is logged of a request.                                            *)

Tokens == STRING \cup {CRLF, "."}

LEMMA ElideToFacts ==
    /\ ElideTo \in Nat
    /\ ElideTo \div 2 \in Nat
    /\ ElideTo \div 2 >= 3
    /\ ElideTo - ElideTo \div 2 - 3 \in Nat
BY MaxBodyAssumption DEF ElideTo

(* Induction over the tokens of a dump, with a set in place of a predicate. *)
LEMMA LeastIn ==
    ASSUME NEW S, S \subseteq Nat, S # {}
    PROVE  \E x \in S : \A y \in S : x <= y
<1> DEFINE R == OpToRel(<, Nat)
<1>1. IsWellFoundedOn(R, Nat)
  BY NatLessThanWellFounded
<1>2. \E x \in S : \A y \in S : <<y, x>> \notin R
  <2> HIDE DEF R
  <2> QED BY <1>1, WFMin
<1>3. PICK x \in S : \A y \in S : <<y, x>> \notin R
  BY <1>2
<1>4. ASSUME NEW y \in S PROVE x <= y
  <2>1. x \in Nat /\ y \in Nat /\ ~(y < x)
    BY <1>3 DEF OpToRel
  <2> QED BY <2>1
<1> QED BY <1>4

LEMMA UpTo ==
    ASSUME NEW n \in Nat, NEW T, 1 \in T, \A i \in 1..(n - 1) : i \in T => i + 1 \in T
    PROVE  1..n \subseteq T
<1> DEFINE Missing == 1..n \ T
<1>1. SUFFICES ASSUME Missing # {} PROVE FALSE
  OBVIOUS
<1>2. Missing \subseteq Nat
  OBVIOUS
<1>3. PICK x \in Missing : \A y \in Missing : x <= y
  <2> HIDE DEF Missing
  <2> QED BY <1>1, <1>2, LeastIn
<1>4. x # 1 /\ x - 1 \in 1..(n - 1) /\ x - 1 \notin Missing
  BY <1>3
<1> QED BY <1>4

LEMMA EndOf ==
    ASSUME NEW d \in Seq(Tokens), NEW n \in 0..Len(d)
    PROVE  /\ SubSeq(d, Len(d) - n + 1, Len(d)) \in Seq(Tokens)
           /\ Len(SubSeq(d, Len(d) - n + 1, Len(d))) = n
           /\ \A i \in 1..n : SubSeq(d, Len(d) - n + 1, Len(d))[i] = d[Len(d) - n + i]
<1> DEFINE m == Len(d) - n + 1
<1>1. m \in 1..(Len(d) + 1) /\ Len(d) - m + 1 = n /\ Len(d) \in Nat
  BY LenProperties
<1>2. \A i \in 1..n : m + i - 1 = Len(d) - n + i
  BY <1>1
<1> HIDE DEF m
<1>3. /\ SubSeq(d, m, Len(d)) \in Seq(Tokens) /\ Len(SubSeq(d, m, Len(d))) = n
      /\ \A i \in 1..n : SubSeq(d, m, Len(d))[i] = d[m + i - 1]
  BY <1>1, SubSeqProperties
<1>4. /\ SubSeq(d, m, Len(d)) \in Seq(Tokens) /\ Len(SubSeq(d, m, Len(d))) = n
      /\ \A i \in 1..n : SubSeq(d, m, Len(d))[i] = d[Len(d) - n + i]
  BY <1>2, <1>3
<1> QED BY <1>4 DEF m

LEMMA Joined ==
    ASSUME NEW x \in Seq(Tokens), NEW y \in Seq(Tokens)
    PROVE  /\ x \o y \in Seq(Tokens)
           /\ Len(x \o y) = Len(x) + Len(y)
           /\ \A i \in 1..Len(x) : (x \o y)[i] = x[i]
           /\ \A i \in 1..Len(y) : (x \o y)[Len(x) + i] = y[i]
<1>1. Len(x) \in Nat /\ Len(y) \in Nat
  BY LenProperties
<1>2. x \o y \in Seq(Tokens) /\ Len(x \o y) = Len(x) + Len(y)
  BY ConcatProperties
<1>3. \A i \in 1..(Len(x) + Len(y)) :
          (x \o y)[i] = IF i <= Len(x) THEN x[i] ELSE y[i - Len(x)]
  BY ConcatProperties
<1>4. ASSUME NEW i \in 1..Len(x) PROVE (x \o y)[i] = x[i]
  BY <1>1, <1>3
<1>5. ASSUME NEW i \in 1..Len(y) PROVE (x \o y)[Len(x) + i] = y[i]
  <2>1. Len(x) + i \in 1..(Len(x) + Len(y)) /\ ~(Len(x) + i <= Len(x)) /\ (Len(x) + i) - Len(x) = i
    BY <1>1
  <2> QED BY <1>3, <2>1
<1> QED BY <1>2, <1>4, <1>5

LEMMA EndHeadersFacts ==
    ASSUME NEW d \in Seq(Tokens)
    PROVE  \/ EndHeaders(d) = 0 /\ \A i \in 1..(Len(d) - 1) : ~BlankAt(d, i)
           \/ /\ EndHeaders(d) \in 1..(Len(d) - 1)
              /\ BlankAt(d, EndHeaders(d))
              /\ \A i \in 1..(EndHeaders(d) - 1) : ~BlankAt(d, i)
<1> DEFINE blank == {i \in 1..(Len(d) - 1) : BlankAt(d, i)}
<1>1. EndHeaders(d) = IF blank = {} THEN 0 ELSE Min(blank)
  BY DEF EndHeaders
<1>2. CASE blank = {}
  BY <1>1, <1>2
<1>3. CASE blank # {}
  <2>1. blank \subseteq Nat
    OBVIOUS
  <2>2. \E x \in blank : \A y \in blank : x <= y
    <3> HIDE DEF blank
    <3> QED BY <1>3, <2>1, LeastIn
  <2>3. Min(blank) \in blank /\ \A y \in blank : Min(blank) <= y
    <3> HIDE DEF blank
    <3> QED BY <2>2 DEF Min
  <2> DEFINE e == Min(blank)
  <2>4. EndHeaders(d) = e
    BY <1>1, <1>3
  <2>5. e \in blank /\ \A y \in blank : e <= y
    BY <2>3
  <2> HIDE DEF e
  <2>6. e \in 1..(Len(d) - 1) /\ BlankAt(d, e)
    BY <2>5
  <2>7. \A i \in 1..(e - 1) : ~BlankAt(d, i)
    BY <2>5, <2>6
  <2> QED BY <2>4, <2>6, <2>7
<1> QED BY <1>2, <1>3

LEMMA EndHeadersIs ==
    ASSUME NEW d \in Seq(Tokens), NEW e \in 1..(Len(d) - 1), BlankAt(d, e),
           \A i \in 1..(e - 1) : ~BlankAt(d, i)
    PROVE  EndHeaders(d) = e
<1> DEFINE h == EndHeaders(d)
<1>1. \/ h = 0 /\ \A i \in 1..(Len(d) - 1) : ~BlankAt(d, i)
      \/ /\ h \in 1..(Len(d) - 1)
         /\ BlankAt(d, h)
         /\ \A i \in 1..(h - 1) : ~BlankAt(d, i)
  BY EndHeadersFacts
<1> HIDE DEF h
<1>2. h = e
  <2>1. CASE h \in 1..(e - 1)
    BY <1>1, <2>1
  <2>2. CASE h \in Nat /\ h > e
    BY <1>1, <2>2
  <2>3. Len(d) \in Nat /\ h # 0
    BY <1>1
  <2>4. h \in Nat /\ h >= 1
    BY <1>1, <2>3
  <2> QED BY <2>1, <2>2, <2>3, <2>4
<1> QED BY <1>2 DEF h

LEMMA BodyFacts ==
    ASSUME NEW d \in Seq(Tokens)
    PROVE  /\ BeforeBody(d) \in 0..Len(d)
           /\ Body(d) \in Seq(Tokens)
           /\ Len(Body(d)) = Len(d) - BeforeBody(d)
           /\ \A i \in 1..Len(Body(d)) : Body(d)[i] = d[BeforeBody(d) + i]
<1> DEFINE b == BeforeBody(d)
<1>1. b \in 0..Len(d)
  BY EndHeadersFacts DEF BeforeBody
<1>2. Body(d) = SubSeq(d, b + 1, Len(d))
  BY DEF Body
<1> HIDE DEF b
<1>3. SubSeq(d, b + 1, Len(d)) \in Seq(Tokens)
  BY <1>1, SubSeqProperties
<1>4. /\ Len(SubSeq(d, b + 1, Len(d))) = Len(d) - b
      /\ \A i \in 1..(Len(d) - b) : SubSeq(d, b + 1, Len(d))[i] = d[b + i]
  BY <1>1
<1>5. /\ b \in 0..Len(d) /\ Body(d) \in Seq(Tokens) /\ Len(Body(d)) = Len(d) - b
      /\ \A i \in 1..Len(Body(d)) : Body(d)[i] = d[b + i]
  BY <1>1, <1>2, <1>3, <1>4
<1> QED BY <1>5 DEF b

(* A body that is too long keeps its two ends, and the rest of the request *)
(* stays as it was.                                                        *)
LEMMA ElidedFacts ==
    ASSUME NEW d \in Seq(Tokens), Len(Body(d)) > ElideTo
    PROVE  /\ BodyElider(d) \in Seq(Tokens)
           /\ EndHeaders(BodyElider(d)) = EndHeaders(d)
           /\ \A i \in 1..BeforeBody(d) : BodyElider(d)[i] = d[i]
           /\ IsElided(Body(BodyElider(d)), Body(d))
<1> DEFINE half == ElideTo \div 2
           b == BeforeBody(d)
           last == ElideTo - half - 3
           x == SubSeq(d, 1, b + half)
           z == SubSeq(d, Len(d) - last + 1, Len(d))
           r == x \o Dots \o z
           e == EndHeaders(d)
           L == ElideTo
<1>1. /\ L \in Nat /\ half \in Nat /\ half >= 3 /\ last \in Nat /\ half + 3 + last = L
  BY ElideToFacts
<1>2. /\ b \in 0..Len(d) /\ Len(d) \in Nat /\ Len(d) - b > L
  <2>1. b \in 0..Len(d) /\ Len(Body(d)) = Len(d) - b
    BY BodyFacts
  <2> QED BY <1>1, <2>1, LenProperties
<1>3. BodyElider(d) = r
  <2>1. ~(Len(Body(d)) <= ElideTo)
    BY <1>1, LenProperties, BodyFacts
  <2> QED BY <2>1 DEF BodyElider
<1>4. \/ e = 0 /\ b = 0 /\ \A i \in 1..(Len(d) - 1) : ~BlankAt(d, i)
      \/ /\ e \in 1..(Len(d) - 1) /\ b = e + 1
         /\ BlankAt(d, e)
         /\ \A i \in 1..(e - 1) : ~BlankAt(d, i)
  BY EndHeadersFacts DEF BeforeBody
<1> HIDE DEF half, b, last, e, L
<1>5. /\ x \in Seq(Tokens) /\ Len(x) = b + half
      /\ \A i \in 1..(b + half) : x[i] = d[i]
  <2>1. b + half <= Len(d)
    BY <1>1, <1>2
  <2> QED BY <1>1, <1>2, <2>1, SubSeqProperties
<1>6. /\ z \in Seq(Tokens) /\ Len(z) = last
      /\ \A i \in 1..last : z[i] = d[Len(d) - last + i]
  <2>1. last \in 0..Len(d)
    BY <1>1, <1>2
  <2> QED BY <2>1, EndOf
<1>7. Dots \in Seq(Tokens) /\ Len(Dots) = 3 /\ \A i \in 1..3 : Dots[i] = "."
  <2>1. Dots \in Seq(Tokens) /\ Len(Dots) = 3
    <3>1. \A t \in Tokens : <<t, t, t>> \in Seq(Tokens) /\ Len(<<t, t, t>>) = 3
      OBVIOUS
    <3>2. "." \in Tokens
      BY DEF Tokens
    <3> QED BY <3>1, <3>2 DEF Dots
  <2>2. Dots[1] = "." /\ Dots[2] = "." /\ Dots[3] = "."
    BY DEF Dots
  <2>3. \A i \in 1..3 : i = 1 \/ i = 2 \/ i = 3
    OBVIOUS
  <2> QED BY <2>1, <2>2, <2>3
<1> HIDE DEF x, z
<1>8. /\ r \in Seq(Tokens) /\ Len(r) = b + L
      /\ \A i \in 1..(b + half) : r[i] = d[i]
      /\ \A i \in 1..3 : r[b + half + i] = "."
      /\ \A i \in 1..last : r[b + half + 3 + i] = d[Len(d) - last + i]
  <2> DEFINE y == x \o Dots
  <2>1. /\ y \in Seq(Tokens) /\ Len(y) = b + half + 3
        /\ \A i \in 1..(b + half) : y[i] = d[i]
        /\ \A i \in 1..3 : y[b + half + i] = "."
    <3>1. /\ y \in Seq(Tokens) /\ Len(y) = Len(x) + Len(Dots)
          /\ \A i \in 1..Len(x) : y[i] = x[i]
          /\ \A i \in 1..Len(Dots) : y[Len(x) + i] = Dots[i]
      BY <1>5, <1>7, Joined
    <3> HIDE DEF y
    <3> QED BY <1>1, <1>2, <1>5, <1>7, <3>1
  <2>2. r = y \o z
    OBVIOUS
  <2> HIDE DEF y
  <2> HIDE DEF r
  <2>3. /\ r \in Seq(Tokens) /\ Len(r) = b + half + 3 + last
        /\ \A i \in 1..Len(y) : r[i] = y[i]
        /\ \A i \in 1..last : r[Len(y) + i] = z[i]
    <3>1. /\ r \in Seq(Tokens) /\ Len(r) = Len(y) + Len(z)
          /\ \A i \in 1..Len(y) : r[i] = y[i]
          /\ \A i \in 1..Len(z) : r[Len(y) + i] = z[i]
      BY <1>6, <2>1, <2>2, Joined
    <3> QED BY <1>1, <1>2, <1>6, <2>1, <3>1
  <2>4. Len(r) = b + L
    BY <1>1, <1>2, <2>3
  <2>5. \A i \in 1..(b + half) : r[i] = d[i]
    BY <1>1, <1>2, <2>1, <2>3
  <2>6. ASSUME NEW i \in 1..3 PROVE r[b + half + i] = "."
    <3>1. b + half + i \in 1..Len(y)
      BY <1>1, <1>2, <2>1
    <3> QED BY <2>1, <2>3, <3>1
  <2>7. \A i \in 1..last : r[b + half + 3 + i] = d[Len(d) - last + i]
    BY <1>6, <2>1, <2>3
  <2> QED BY <2>3, <2>4, <2>5, <2>6, <2>7
<1> HIDE DEF r
<1>9. ASSUME NEW i \in 1..(Len(r) - 1), BlankAt(r, i), e # 0 => i < e
      PROVE  FALSE
  <2>0. r[i] = CRLF /\ r[i + 1] = CRLF /\ "." # CRLF
    BY <1>9 DEF BlankAt, CRLF
  <2>1. CASE i + 1 <= b + half
    <3>1. d[i] = CRLF /\ d[i + 1] = CRLF
      BY <1>1, <1>2, <1>8, <2>0, <2>1
    <3>2. i \in 1..(Len(d) - 1)
      BY <1>1, <1>2, <2>1
    <3>3. e # 0 => i \in 1..(e - 1)
      BY <1>4, <1>9
    <3> QED BY <1>4, <3>1, <3>2, <3>3 DEF BlankAt
  <2>2. CASE i + 1 > b + half
    <3>1. e = 0 /\ b = 0
      BY <1>1, <1>2, <1>4, <1>9, <2>2
    <3>2. i > half + 3
      <4>1. i + 1 \notin (half + 1)..(half + 3)
        <5>1. \A k \in (half + 1)..(half + 3) : r[k] = "."
          <6>1. \A k \in (half + 1)..(half + 3) : k - half \in 1..3 /\ k = b + half + (k - half)
            BY <1>1, <3>1
          <6> QED BY <1>8, <6>1
        <5> QED BY <2>0, <5>1
      <4>2. i \notin (half + 1)..(half + 3)
        <5>1. \A k \in (half + 1)..(half + 3) : r[k] = "."
          <6>1. \A k \in (half + 1)..(half + 3) : k - half \in 1..3 /\ k = b + half + (k - half)
            BY <1>1, <3>1
          <6> QED BY <1>8, <6>1
        <5> QED BY <2>0, <5>1
      <4> QED BY <1>1, <2>2, <3>1, <4>1, <4>2
    <3> DEFINE j == i - half - 3
               k == Len(d) - last + j
    <3>3. j \in 1..last /\ j + 1 \in 1..last /\ i = b + half + 3 + j
      BY <1>1, <1>2, <1>8, <3>1, <3>2
    <3>4. k \in 1..(Len(d) - 1)
      BY <1>1, <1>2, <3>3
    <3> HIDE DEF j
    <3>5. r[i] = d[k] /\ r[i + 1] = d[k + 1]
      <4>1. i + 1 = b + half + 3 + (j + 1) /\ k + 1 = Len(d) - last + (j + 1)
        BY <1>1, <1>2, <3>3
      <4>2. r[b + half + 3 + j] = d[Len(d) - last + j]
        BY <1>8, <3>3
      <4>3. r[b + half + 3 + (j + 1)] = d[Len(d) - last + (j + 1)]
        BY <1>8, <3>3
      <4> QED BY <3>3, <4>1, <4>2, <4>3
    <3> QED BY <1>4, <2>0, <3>1, <3>4, <3>5 DEF BlankAt
  <2> QED BY <1>1, <1>2, <2>1, <2>2
<1>10. EndHeaders(r) = e
  <2>1. CASE e = 0
    BY <1>8, <1>9, <2>1, EndHeadersFacts
  <2>2. CASE e # 0
    <3>1. e \in 1..(Len(r) - 1) /\ e + 1 = b
      BY <1>1, <1>2, <1>4, <1>8, <2>2
    <3>2. BlankAt(r, e)
      BY <1>1, <1>2, <1>4, <1>8, <2>2, <3>1 DEF BlankAt
    <3>3. \A i \in 1..(e - 1) : ~BlankAt(r, i)
      BY <1>9, <3>1
    <3> QED BY <1>8, <3>1, <3>2, <3>3, EndHeadersIs
  <2> QED BY <2>1, <2>2
<1>11. \A i \in 1..b : r[i] = d[i]
  BY <1>1, <1>2, <1>8
<1> DEFINE s == Body(r)
           o == Body(d)
<1>12. IsElided(s, o)
  <2>1. BeforeBody(r) = b
    BY <1>10 DEF BeforeBody, b, e
  <2>2. /\ s \in Seq(Tokens) /\ Len(s) = L
        /\ \A i \in 1..L : s[i] = r[b + i]
    <3>1. /\ s \in Seq(Tokens) /\ Len(s) = Len(r) - BeforeBody(r)
          /\ \A i \in 1..Len(s) : s[i] = r[BeforeBody(r) + i]
      BY <1>8, BodyFacts
    <3> HIDE DEF s
    <3>2. Len(s) = L
      BY <1>1, <1>2, <1>8, <2>1, <3>1
    <3> QED BY <2>1, <3>1, <3>2
  <2>3. /\ o \in Seq(Tokens) /\ Len(o) = Len(d) - b
        /\ \A i \in 1..Len(o) : o[i] = d[b + i]
    BY BodyFacts DEF b
  <2> HIDE DEF s, o
  <2> DEFINE i == half + 1
  <2>4. i \in 1..(L - 2)
    BY <1>1
  <2>5. SubSeq(s, 1, i - 1) = SubSeq(o, 1, i - 1)
    <3>1. ASSUME NEW j \in 1..half PROVE s[j] = o[j]
      <4>1. j \in 1..L /\ j \in 1..Len(o) /\ b + j \in 1..(b + half)
        BY <1>1, <1>2, <2>3
      <4>2. s[j] = r[b + j] /\ o[j] = d[b + j] /\ r[b + j] = d[b + j]
        BY <1>8, <2>2, <2>3, <4>1
      <4> QED BY <4>2
    <3>2. i - 1 = half /\ half <= Len(s) /\ half <= Len(o)
      BY <1>1, <1>2, <2>2, <2>3
    <3> HIDE DEF i
    <3> QED BY <1>1, <2>2, <2>3, <3>1, <3>2
  <2>6. SubSeq(s, i, i + 2) = Dots
    <3>1. ASSUME NEW j \in 1..3 PROVE s[half + j] = "."
      <4>1. half + j \in 1..L /\ b + (half + j) = b + half + j
        BY <1>1, <1>2
      <4>2. s[half + j] = r[b + (half + j)] /\ r[b + half + j] = "."
        BY <1>8, <2>2, <4>1
      <4> QED BY <4>1, <4>2
    <3>2. i + 2 <= Len(s) /\ i \in Nat \ {0}
      BY <1>1, <2>2
    <3>3. \A j \in 1..3 : SubSeq(s, i, i + 2)[j] = "."
      BY <1>1, <2>2, <3>1, <3>2
    <3>4. SubSeq(s, i, i + 2) \in Seq(Tokens) /\ Len(SubSeq(s, i, i + 2)) = 3
      BY <1>1, <2>2, <3>2, SubSeqProperties
    <3> QED BY <1>7, <3>3, <3>4, SeqEqual
  <2>7. SubSeq(s, i + 3, L) = SubSeq(o, Len(o) - (L - i - 3), Len(o))
    <3> DEFINE m == Len(o) - (L - i - 3)
    <3>1. /\ m \in 1..(Len(o) + 1) /\ Len(o) - m + 1 = last
          /\ i + 3 \in 1..(L + 1) /\ L - (i + 3) + 1 = last
      BY <1>1, <1>2, <2>3
    <3>2. \A j \in 1..last : s[i + 3 + j - 1] = o[m + j - 1]
      <4> TAKE j \in 1..last
      <4>1. s[half + 3 + j] = d[Len(d) - last + j]
        <5>1. half + 3 + j \in 1..L /\ b + (half + 3 + j) = b + half + 3 + j
          BY <1>1, <1>2
        <5>2. s[half + 3 + j] = r[b + (half + 3 + j)]
          BY <2>2, <5>1
        <5>3. r[b + half + 3 + j] = d[Len(d) - last + j]
          BY <1>8
        <5> QED BY <5>1, <5>2, <5>3
      <4>2. m + j - 1 \in 1..Len(o) /\ b + (m + j - 1) = Len(d) - last + j
        <5>1. j \in Nat /\ 1 <= j /\ j <= last /\ Len(o) \in Nat /\ Len(o) > L
          BY <1>1, <1>2, <2>3
        <5>2. m = Len(o) - last + 1
          BY <1>1, <5>1
        <5> HIDE DEF m
        <5> QED BY <1>1, <1>2, <2>3, <5>1, <5>2
      <4>3. i + 3 + j - 1 = half + 3 + j
        BY <1>1
      <4> QED BY <2>3, <4>1, <4>2, <4>3
    <3> HIDE DEF m, i
    <3>3. /\ SubSeq(s, i + 3, L) \in Seq(Tokens) /\ Len(SubSeq(s, i + 3, L)) = last
          /\ \A j \in 1..last : SubSeq(s, i + 3, L)[j] = s[i + 3 + j - 1]
      BY <1>1, <2>2, <2>4, <3>1, SubSeqProperties
    <3>4. /\ SubSeq(o, m, Len(o)) \in Seq(Tokens) /\ Len(SubSeq(o, m, Len(o))) = last
          /\ \A j \in 1..last : SubSeq(o, m, Len(o))[j] = o[m + j - 1]
      BY <1>1, <2>3, <3>1, SubSeqProperties
    <3>5. SubSeq(s, i + 3, L) = SubSeq(o, m, Len(o))
      BY <3>2, <3>3, <3>4, SeqEqual
    <3> QED BY <3>5 DEF m
  <2> HIDE DEF i
  <2> QED BY <2>2, <2>4, <2>5, <2>6, <2>7 DEF IsElided, L
<1> QED BY <1>3, <1>8, <1>10, <1>11, <1>12 DEF b, e
(* The loop of HeaderAllowlist.Filter, f being what was kept before.       *)
KeptTo(d, f, i) ==
    IF i = 1 THEN <<d[1], CRLF>>
    ELSE IF Allowed(d[i]) THEN f[i - 1] \o <<d[i], CRLF>>
    ELSE f[i - 1]

(* The request line and the listed ones of the lines up to i, each with    *)
(* its line end, and no blank line.                                        *)
AreKept(k, d, i) ==
    /\ k \in Seq(Tokens)
    /\ Len(k) >= 2
    /\ k[Len(k)] = CRLF
    /\ \A j \in 1..(Len(k) - 1) : ~BlankAt(k, j)
    /\ {k[j] : j \in 2..Len(k)} \ {CRLF} = {d[j] : j \in 2..i} \cap Listed

LEMMA TwoTokens ==
    ASSUME NEW a \in Tokens
    PROVE  /\ <<a, CRLF>> \in Seq(Tokens) /\ Len(<<a, CRLF>>) = 2
           /\ <<a, CRLF>>[1] = a /\ <<a, CRLF>>[2] = CRLF
<1>1. \A b \in Tokens : /\ <<a, b>> \in Seq(Tokens) /\ Len(<<a, b>>) = 2
                        /\ <<a, b>>[1] = a /\ <<a, b>>[2] = b
  OBVIOUS
<1>2. CRLF \in Tokens
  BY DEF Tokens
<1> QED BY <1>1, <1>2

LEMMA KeptExist ==
    ASSUME NEW d \in Seq(Tokens), NEW n \in 1..Len(d)
    PROVE  \E f \in [1..n -> Seq(Tokens)] : f = [i \in 1..n |-> KeptTo(d, f, i)]
<1> DEFINE D == 1..n
           Done(f, k) == \A i \in 1..k : f[i] = KeptTo(d, f, i)
           T == {k \in D : \E f \in [D -> Seq(Tokens)] : Done(f, k)}
<1>1. n \in Nat /\ 1 \in D /\ n \in D /\ \A i \in D : d[i] \in Tokens
  BY LenProperties, ElementOfSeq
<1>2. 1 \in T
  <2> DEFINE f == [i \in D |-> <<d[1], CRLF>>]
  <2>1. f \in [D -> Seq(Tokens)]
    BY <1>1, TwoTokens
  <2>2. Done(f, 1)
    BY <1>1 DEF KeptTo
  <2> QED BY <1>1, <2>1, <2>2
<1>3. ASSUME NEW k \in 1..(n - 1), k \in T PROVE k + 1 \in T
  <2>1. PICK f \in [D -> Seq(Tokens)] : Done(f, k)
    BY <1>3
  <2> DEFINE next == KeptTo(d, f, k + 1)
             g == [f EXCEPT ![k + 1] = next]
  <2>2. k \in D /\ k + 1 \in D /\ k + 1 # 1 /\ (k + 1) - 1 = k
    BY <1>1
  <2>3. next \in Seq(Tokens)
    <3>1. f[k] \in Seq(Tokens) /\ d[k + 1] \in Tokens
      BY <1>1, <2>1, <2>2
    <3>2. f[k] \o <<d[k + 1], CRLF>> \in Seq(Tokens)
      BY <3>1, TwoTokens, ConcatProperties
    <3> QED BY <2>2, <3>1, <3>2 DEF KeptTo
  <2> HIDE DEF next
  <2>4. g \in [D -> Seq(Tokens)] /\ g[k + 1] = next /\ \A i \in 1..k : g[i] = f[i]
    BY <2>1, <2>2, <2>3
  <2> HIDE DEF g
  <2>5. ASSUME NEW i \in 1..(k + 1) PROVE g[i] = KeptTo(d, g, i)
    <3>1. KeptTo(d, g, i) = KeptTo(d, f, i)
      <4>1. i # 1 => i - 1 \in 1..k
        BY <2>2
      <4>2. i # 1 => g[i - 1] = f[i - 1]
        BY <2>4, <4>1
      <4> QED BY <4>2 DEF KeptTo
    <3>2. CASE i = k + 1
      BY <2>4, <3>1, <3>2 DEF next
    <3>3. CASE i # k + 1
      <4>1. i \in 1..k
        BY <2>2, <3>3
      <4> QED BY <2>1, <2>4, <3>1, <4>1
    <3> QED BY <3>2, <3>3
  <2> QED BY <2>2, <2>4, <2>5
<1>4. n \in T
  <2> HIDE DEF T
  <2> QED BY <1>1, <1>2, <1>3, UpTo
<1>5. PICK f \in [D -> Seq(Tokens)] : Done(f, n)
  BY <1>4
<1> QED BY <1>5

LEMMA KeptFacts ==
    ASSUME NEW d \in Seq(Tokens), NEW n \in 1..Len(d), d[1] # CRLF
    PROVE  AreKept(Kept(d, n), d, n)
<1> DEFINE kept == CHOOSE f : f = [i \in 1..n |-> KeptTo(d, f, i)]
           T == {i \in 1..n : AreKept(kept[i], d, i)}
<1>1. kept = [i \in 1..n |-> KeptTo(d, kept, i)]
  BY KeptExist
<1>2. Kept(d, n) = kept[n]
  BY DEF Kept, KeptTo
<1> HIDE DEF kept
<1>3. n \in Nat /\ 1 \in 1..n /\ n \in 1..n /\ \A i \in 1..n : d[i] \in Tokens
  BY LenProperties, ElementOfSeq
<1>4. 1 \in T
  <2> DEFINE k == <<d[1], CRLF>>
  <2>1. kept[1] = k
    BY <1>1, <1>3 DEF KeptTo
  <2>2. k \in Seq(Tokens) /\ Len(k) = 2 /\ k[1] = d[1] /\ k[2] = CRLF
    BY <1>3, TwoTokens
  <2> HIDE DEF k
  <2>3. \A j \in 1..(Len(k) - 1) : ~BlankAt(k, j)
    BY <2>2 DEF BlankAt
  <2>4. {k[j] : j \in 2..Len(k)} \ {CRLF} = {}
    BY <2>2
  <2>5. {d[j] : j \in 2..1} = {}
    OBVIOUS
  <2>6. AreKept(k, d, 1)
    BY <2>2, <2>3, <2>4, <2>5 DEF AreKept
  <2> QED BY <1>3, <2>1, <2>6
<1>5. ASSUME NEW i \in 1..(n - 1), i \in T PROVE i + 1 \in T
  <2> DEFINE k == kept[i]
             line == d[i + 1]
             pair == <<line, CRLF>>
             new == k \o pair
  <2>1. i \in 1..n /\ i + 1 \in 1..n /\ i + 1 # 1 /\ (i + 1) - 1 = i /\ line \in Tokens
    BY <1>3
  <2>2. AreKept(k, d, i)
    BY <1>5
  <2>3. kept[i + 1] = IF Allowed(line) THEN new ELSE k
    BY <1>1, <2>1 DEF KeptTo
  <2>4. {d[j] : j \in 2..(i + 1)} = {d[j] : j \in 2..i} \cup {line}
    <3>1. \A j : j \in 2..(i + 1) <=> j \in 2..i \/ j = i + 1
      BY <2>1
    <3> QED BY <3>1
  <2> HIDE DEF k, line
  <2>5. CASE ~Allowed(line)
    <3>1. AreKept(k, d, i + 1)
      BY <2>2, <2>4, <2>5 DEF AreKept, Allowed
    <3> QED BY <2>1, <2>3, <2>5, <3>1
  <2>6. CASE Allowed(line)
    <3>1. line # CRLF /\ line \in Listed
      BY <2>6, ListedAssumption DEF Allowed
    <3>2. k \in Seq(Tokens) /\ Len(k) \in Nat /\ Len(k) >= 2 /\ k[Len(k)] = CRLF
      BY <2>2, LenProperties DEF AreKept
    <3> DEFINE m == Len(k)
    <3>3. pair \in Seq(Tokens) /\ Len(pair) = 2 /\ pair[1] = line /\ pair[2] = CRLF
      BY <2>1, TwoTokens
    <3> HIDE DEF pair
    <3>4. /\ new \in Seq(Tokens) /\ Len(new) = m + Len(pair)
          /\ \A j \in 1..m : new[j] = k[j]
          /\ \A j \in 1..Len(pair) : new[m + j] = pair[j]
      BY <3>2, <3>3, Joined
    <3> HIDE DEF new
    <3>5. /\ Len(new) = m + 2 /\ m \in Nat /\ m >= 2
          /\ new[m + 1] = line /\ new[m + 2] = CRLF /\ new[m] = CRLF
      BY <3>2, <3>3, <3>4
    <3>6. ASSUME NEW j \in 1..(Len(new) - 1) PROVE ~BlankAt(new, j)
      <4>1. CASE j \in 1..(m - 1)
        <5>1. new[j] = k[j] /\ new[j + 1] = k[j + 1]
          BY <3>4, <3>5, <4>1
        <5>2. ~BlankAt(k, j)
          BY <2>2, <4>1 DEF AreKept
        <5> QED BY <5>1, <5>2 DEF BlankAt
      <4>2. CASE j = m \/ j = m + 1
        BY <3>1, <3>5, <4>2 DEF BlankAt
      <4> QED BY <3>5, <4>1, <4>2
    <3>7. {new[j] : j \in 2..Len(new)} = {k[j] : j \in 2..m} \cup {line, CRLF}
      <4>1. \A j : j \in 2..Len(new) <=> j \in 2..m \/ j = m + 1 \/ j = m + 2
        BY <3>5
      <4>2. \A j \in 2..m : new[j] = k[j]
        BY <3>4, <3>5
      <4>3. {new[j] : j \in 2..Len(new)} \subseteq {k[j] : j \in 2..m} \cup {line, CRLF}
        BY <3>5, <4>1, <4>2
      <4>4. {k[j] : j \in 2..m} \subseteq {new[j] : j \in 2..Len(new)}
        BY <4>1, <4>2
      <4>5. {line, CRLF} \subseteq {new[j] : j \in 2..Len(new)}
        BY <3>5
      <4> QED BY <4>3, <4>4, <4>5
    <3>8. {k[j] : j \in 2..m} \ {CRLF} = {d[j] : j \in 2..i} \cap Listed
      BY <2>2 DEF AreKept
    <3>9. {new[j] : j \in 2..Len(new)} \ {CRLF} = {d[j] : j \in 2..(i + 1)} \cap Listed
      <4> DEFINE A == {new[j] : j \in 2..Len(new)}
                 B == {k[j] : j \in 2..m}
                 C == {d[j] : j \in 2..(i + 1)}
                 E == {d[j] : j \in 2..i}
      <4>1. A = B \cup {line, CRLF} /\ C = E \cup {line} /\ B \ {CRLF} = E \cap Listed
        BY <2>4, <3>7, <3>8
      <4> HIDE DEF A, B, C, E
      <4>2. A \ {CRLF} = C \cap Listed
        BY <3>1, <4>1
      <4> QED BY <4>2 DEF A, C
    <3>10. Len(new) >= 2 /\ new[Len(new)] = CRLF
      BY <3>5
    <3>11. AreKept(new, d, i + 1)
      BY <3>4, <3>6, <3>9, <3>10 DEF AreKept
    <3> QED BY <2>1, <2>3, <2>6, <3>11
  <2> QED BY <2>5, <2>6
<1>6. n \in T
  <2> HIDE DEF T
  <2> QED BY <1>3, <1>4, <1>5, UpTo
<1> QED BY <1>2, <1>6

LEMMA AllowlistFacts ==
    ASSUME NEW d \in Seq(Tokens), EndHeaders(d) # 0, d[1] # CRLF
    PROVE  /\ HeaderLines(HeaderAllowlist(d)) = HeaderLines(d) \cap Listed
           /\ Body(HeaderAllowlist(d)) = Body(d)
<1> DEFINE e == EndHeaders(d)
           n == e - 1
           k == Kept(d, n)
           m == Len(k)
           body == Body(d)
           out == k \o <<CRLF>> \o body
<1>1. HeaderAllowlist(d) = out
  BY DEF HeaderAllowlist
<1>2. e \in 1..(Len(d) - 1) /\ d[e] = CRLF
  BY EndHeadersFacts DEF BlankAt
<1>3. e # 1 /\ Len(d) \in Nat
  BY <1>2, LenProperties
<1>4. n \in 1..Len(d)
  BY <1>2, <1>3
<1>5. AreKept(k, d, n)
  BY <1>4, KeptFacts
<1>6. body \in Seq(Tokens) /\ Len(body) \in Nat
  BY BodyFacts, LenProperties
<1> HIDE DEF k, body, e
<1>7. /\ k \in Seq(Tokens) /\ m \in Nat /\ m >= 2 /\ k[m] = CRLF
      /\ \A j \in 1..(m - 1) : ~BlankAt(k, j)
      /\ {k[j] : j \in 2..m} \ {CRLF} = {d[j] : j \in 2..n} \cap Listed
  BY <1>5, LenProperties DEF AreKept
<1>8. /\ out \in Seq(Tokens) /\ Len(out) = m + 1 + Len(body)
      /\ \A j \in 1..m : out[j] = k[j]
      /\ out[m + 1] = CRLF
      /\ \A j \in 1..Len(body) : out[m + 1 + j] = body[j]
  <2> DEFINE one == <<CRLF>>
             x == k \o one
  <2>1. one \in Seq(Tokens) /\ Len(one) = 1 /\ one[1] = CRLF
    <3>1. \A t \in Tokens : <<t>> \in Seq(Tokens) /\ Len(<<t>>) = 1 /\ <<t>>[1] = t
      OBVIOUS
    <3>2. CRLF \in Tokens
      BY DEF Tokens
    <3> QED BY <3>1, <3>2
  <2> HIDE DEF one
  <2>2. /\ x \in Seq(Tokens) /\ Len(x) = m + Len(one)
        /\ \A j \in 1..m : x[j] = k[j]
        /\ \A j \in 1..Len(one) : x[m + j] = one[j]
    BY <1>7, <2>1, Joined
  <2>3. out = x \o body
    BY DEF one
  <2> HIDE DEF x, out
  <2>4. /\ out \in Seq(Tokens) /\ Len(out) = Len(x) + Len(body)
        /\ \A j \in 1..Len(x) : out[j] = x[j]
        /\ \A j \in 1..Len(body) : out[Len(x) + j] = body[j]
    BY <1>6, <2>2, <2>3, Joined
  <2>5. Len(x) = m + 1 /\ x[m + 1] = CRLF
    BY <1>7, <2>1, <2>2
  <2>6. \A j \in 1..m : out[j] = k[j]
    BY <1>7, <2>2, <2>4, <2>5
  <2>7. m + 1 \in 1..Len(x)
    BY <1>7, <2>5
  <2> QED BY <2>4, <2>5, <2>6, <2>7
<1> HIDE DEF out
<1>9. EndHeaders(out) = m
  <2>1. m \in 1..(Len(out) - 1)
    BY <1>6, <1>7, <1>8
  <2>2. BlankAt(out, m)
    <3>1. m \in 1..m
      BY <1>7
    <3>2. out[m] = CRLF
      BY <1>7, <1>8, <3>1
    <3> QED BY <1>8, <3>2 DEF BlankAt
  <2>3. ASSUME NEW j \in 1..(m - 1) PROVE ~BlankAt(out, j)
    <3>1. out[j] = k[j] /\ out[j + 1] = k[j + 1]
      BY <1>7, <1>8
    <3> QED BY <1>7, <3>1 DEF BlankAt
  <2> QED BY <1>8, <2>1, <2>2, <2>3, EndHeadersIs
<1>10. Body(out) = body
  <2> DEFINE b == Body(out)
  <2>1. BeforeBody(out) = m + 1
    BY <1>7, <1>9 DEF BeforeBody
  <2>2. /\ b \in Seq(Tokens) /\ Len(b) = Len(out) - BeforeBody(out)
        /\ \A j \in 1..Len(b) : b[j] = out[BeforeBody(out) + j]
    BY <1>8, BodyFacts
  <2> HIDE DEF b
  <2>3. Len(b) = Len(body)
    BY <1>6, <1>7, <1>8, <2>1, <2>2
  <2>4. \A j \in 1..Len(b) : b[j] = body[j]
    BY <1>8, <2>1, <2>2, <2>3
  <2>5. b = body
    BY <1>6, <2>2, <2>3, <2>4, SeqEqual
  <2> QED BY <2>5 DEF b
<1>11. HeaderLines(out) = HeaderLines(d) \cap Listed
  <2>1. HeaderLines(out) = {out[j] : j \in 2..(m - 1)} \ {CRLF}
    BY <1>9 DEF HeaderLines
  <2>2. HeaderLines(d) = {d[j] : j \in 2..n} \ {CRLF}
    BY DEF HeaderLines, e
  <2>3. {out[j] : j \in 2..(m - 1)} \ {CRLF} = {k[j] : j \in 2..m} \ {CRLF}
    <3>1. \A j \in 2..(m - 1) : j \in 2..m /\ out[j] = k[j]
      BY <1>7, <1>8
    <3>2. \A j \in 2..m : j \in 2..(m - 1) \/ k[j] = CRLF
      BY <1>7
    <3> QED BY <3>1, <3>2
  <2>4. CRLF \notin Listed
    BY ListedAssumption
  <2> DEFINE A == {d[j] : j \in 2..n}
  <2>5. HeaderLines(out) = A \cap Listed /\ HeaderLines(d) = A \ {CRLF}
    BY <1>7, <2>1, <2>2, <2>3
  <2> HIDE DEF A
  <2> QED BY <2>4, <2>5
<1>12. HeaderLines(HeaderAllowlist(d)) = HeaderLines(d) \cap Listed
  BY <1>1, <1>11
<1>13. Body(HeaderAllowlist(d)) = Body(d)
  BY <1>1, <1>10 DEF body
<1> QED BY <1>12, <1>13

(* The filters are applied in the order in which they are installed.       *)
LEMMA FilterFacts ==
    ASSUME NEW d
    PROVE  /\ Filters = <<>> => Filter(d) = d
           /\ Filters = Installed => Filter(d) = HeaderAllowlist(BodyElider(d))
<1> DEFINE filtered == CHOOSE f : f = [n \in 0..Len(Filters) |->
                                         IF n = 0 THEN d ELSE Apply(Filters[n], f[n - 1])]
<1>1. Filter(d) = filtered[Len(Filters)]
  BY DEF Filter
<1>2. CASE Filters = <<>>
  <2> DEFINE f == [n \in 0..Len(Filters) |-> d]
  <2>1. Len(Filters) = 0
    BY <1>2
  <2>2. f = [n \in 0..Len(Filters) |-> IF n = 0 THEN d ELSE Apply(Filters[n], f[n - 1])]
    BY <2>1
  <2> HIDE DEF f
  <2>3. filtered = [n \in 0..Len(Filters) |->
                      IF n = 0 THEN d ELSE Apply(Filters[n], filtered[n - 1])]
    BY <2>2
  <2> HIDE DEF filtered
  <2>4. filtered[0] = d
    BY <2>1, <2>3
  <2> QED BY <1>1, <1>2, <2>1, <2>4 DEF Installed
<1>3. CASE Filters = Installed
  <2> DEFINE e == BodyElider(d)
             a == HeaderAllowlist(e)
             f == [n \in 0..Len(Filters) |-> IF n = 0 THEN d ELSE IF n = 1 THEN e ELSE a]
  <2>1. Len(Filters) = 2 /\ Filters[1] = "BodyElider" /\ Filters[2] = "HeaderAllowlist"
    BY <1>3 DEF Installed
  <2>2. \A x : Apply(Filters[1], x) = BodyElider(x) /\ Apply(Filters[2], x) = HeaderAllowlist(x)
    BY <2>1 DEF Apply
  <2>3. Apply(Filters[1], d) = e /\ Apply(Filters[2], e) = a
    BY <2>2
  <2> HIDE DEF e, a
  <2>4. f = [n \in 0..Len(Filters) |-> IF n = 0 THEN d ELSE Apply(Filters[n], f[n - 1])]
    <3>1. \A n \in 0..Len(Filters) : n = 0 \/ n = 1 \/ n = 2
      BY <2>1
    <3>2. f[0] = d /\ f[1] = e /\ f[2] = a
      BY <2>1
    <3> QED BY <2>3, <3>1, <3>2
  <2> HIDE DEF f
  <2>5. filtered = [n \in 0..Len(Filters) |->
                      IF n = 0 THEN d ELSE Apply(Filters[n], filtered[n - 1])]
    BY <2>4
  <2> HIDE DEF filtered
  <2>6. filtered[0] = d
    BY <2>1, <2>5
  <2>7. filtered[1] = e
    BY <2>1, <2>3, <2>5, <2>6
  <2>8. filtered[2] = a
    BY <2>1, <2>3, <2>5, <2>7
  <2>9. Filters # <<>>
    BY <2>1
  <2> QED BY <1>1, <2>1, <2>8, <2>9 DEF e, a
<1> QED BY <1>2, <1>3

(* What is logged of a request is trimmed, for dumps of any length.        *)
LEMMA FilterTrims ==
    ASSUME Filters = Installed, NEW d \in Seq(Tokens), d = <<>> \/ d[1] # CRLF
    PROVE  IsTrimmed(Filter(d), d)
<1> DEFINE x == BodyElider(d)
           e == EndHeaders(d)
<1>1. \/ Len(Body(d)) <= ElideTo /\ x = d
      \/ Len(Body(d)) > ElideTo
  <2>1. Len(Body(d)) \in Nat
    BY BodyFacts, LenProperties
  <2> QED BY <2>1, ElideToFacts DEF BodyElider
<1>2. /\ x \in Seq(Tokens) /\ EndHeaders(x) = e
      /\ \A i \in 1..BeforeBody(d) : x[i] = d[i]
      /\ \/ Len(Body(d)) <= ElideTo /\ Body(x) = Body(d)
         \/ Len(Body(d)) > ElideTo /\ IsElided(Body(x), Body(d))
  BY <1>1, ElidedFacts
<1>3. Filter(d) = HeaderAllowlist(x)
  BY FilterFacts
<1> HIDE DEF x
<1>4. CASE e = 0
  <2>1. HeaderAllowlist(x) = x
    BY <1>2, <1>4 DEF HeaderAllowlist
  <2>2. HeaderLines(x) = {} /\ HeaderLines(d) = {}
    <3>1. 2..(0 - 1) = {}
      OBVIOUS
    <3> QED BY <1>2, <1>4, <3>1 DEF HeaderLines
  <2> QED BY <1>2, <1>3, <2>1, <2>2 DEF IsTrimmed
<1>5. CASE e # 0
  <2>1. e \in 1..(Len(d) - 1) /\ Len(d) \in Nat /\ BeforeBody(d) = e + 1
    BY <1>5, EndHeadersFacts, LenProperties DEF BeforeBody
  <2>2. d # <<>>
    BY <2>1, EmptySeq
  <2>3. x[1] # CRLF
    <3>1. 1 \in 1..BeforeBody(d)
      BY <2>1
    <3>2. x[1] = d[1]
      BY <1>2, <3>1
    <3> QED BY <2>2, <3>2
  <2>4. /\ HeaderLines(HeaderAllowlist(x)) = HeaderLines(x) \cap Listed
        /\ Body(HeaderAllowlist(x)) = Body(x)
    BY <1>2, <1>5, <2>3, AllowlistFacts
  <2>5. HeaderLines(x) = HeaderLines(d)
    <3>1. \A i \in 2..(e - 1) : x[i] = d[i]
      BY <1>2, <2>1
    <3> HIDE DEF e
    <3>2. {x[i] : i \in 2..(e - 1)} = {d[i] : i \in 2..(e - 1)}
      BY <3>1
    <3>3. EndHeaders(x) = e /\ EndHeaders(d) = e
      BY <1>2 DEF e
    <3> QED BY <3>2, <3>3 DEF HeaderLines
  <2> QED BY <1>2, <1>3, <2>4, <2>5 DEF IsTrimmed
<1> QED BY <1>4, <1>5

LEMMA MoreTokens ==
    ASSUME NEW S, NEW T, NEW s \in Seq(S)
    PROVE  s \in Seq(S \cup T)
OBVIOUS

(* Lines of requests are made of what was asked.                           *)
RequestsLogged == \A l \in log : l.kind = "request" => l.text = Filter(req[l.of].dump)

LEMMA KeepsDumps ==
    ASSUME HTTPServerInv, NEW r \in Requests, Step(r) \/ Hangup(r)
    PROVE  \A q \in Requests : req'[q].dump = req[q].dump
<1>1. req \in [Requests -> Request] /\ req[r] \in Request
  BY DEF HTTPServerInv, ProcessInv
<1> SUFFICES ASSUME NEW q \in Requests PROVE req'[q].dump = req[q].dump
  OBVIOUS
<1>2. CASE ContextLogger(r)
  BY <1>1, <1>2 DEF ContextLogger, Request
<1>3. CASE DumpFails(r)
  <2> DEFINE w == Written(Headed(req[r].w, 500), Plain(ErrorText))
  <2>1. req' = [req EXCEPT ![r].pc = "finish", ![r].outcome = "failed", ![r].w = w]
    BY <1>1, <1>3 DEF DumpFails
  <2> HIDE DEF w
  <2> QED BY <1>1, <2>1 DEF Request
<1>4. CASE LogRequest(r)
  BY <1>1, <1>4 DEF LogRequest, Request
<1>5. CASE Handle(r)
  BY <1>1, <1>5 DEF Handle, Request
<1>6. CASE Panic(r)
  BY <1>1, <1>6 DEF Panic, Request
<1>7. CASE CallHeader(r)
  <2> DEFINE status == Head(req[r].calls).status
             calls == Tail(req[r].calls)
             w == Headed(req[r].w, status)
             seen == SeenHeader(req[r].seen, status)
  <2>1. req' = [req EXCEPT ![r].calls = calls, ![r].w = w, ![r].seen = seen]
    BY <1>1, <1>7 DEF CallHeader
  <2> HIDE DEF calls, w, seen
  <2> QED BY <1>1, <2>1 DEF Request
<1>8. CASE CallWrite(r)
  <2> DEFINE body == Head(req[r].calls).body
             calls == Tail(req[r].calls)
             w == Written(req[r].w, body)
             seen == SeenBody(req[r].seen, body)
  <2>1. req' = [req EXCEPT ![r].calls = calls, ![r].w = w, ![r].seen = seen]
    BY <1>1, <1>8 DEF CallWrite
  <2> HIDE DEF calls, w, seen
  <2> QED BY <1>1, <2>1 DEF Request
<1>9. CASE WriteFails(r)
  <2> DEFINE failed == Head(req[r].calls)
             calls == IF failed.checked THEN ServerError ELSE Tail(req[r].calls)
             w == Headed(req[r].w, 200)
  <2>1. PICK noted : req' = [req EXCEPT ![r].calls = calls, ![r].w = w,
                                        ![r].seen = SeenBody(req[r].seen, noted)]
    BY <1>1, <1>9 DEF WriteFails
  <2> DEFINE seen == SeenBody(req[r].seen, noted)
  <2> HIDE DEF calls, w, seen
  <2> QED BY <1>1, <2>1 DEF Request
<1>10. CASE Return(r)
  BY <1>1, <1>10 DEF Return, Goto, Request
<1>11. CASE LogResponse(r)
  BY <1>1, <1>11 DEF LogResponse, Goto, Request
<1>12. CASE PanicCatcher(r)
  <2> DEFINE w == Headed(req[r].w, 500)
  <2>1. req' = [req EXCEPT ![r].pc = "finish", ![r].w = w]
    BY <1>1, <1>12 DEF PanicCatcher
  <2> HIDE DEF w
  <2> QED BY <1>1, <2>1 DEF Request
<1>13. CASE Finish(r)
  BY <1>1, <1>13 DEF Finish, Goto, Request
<1>14. CASE Hangup(r)
  BY <1>1, <1>14 DEF Hangup, Request
<1> QED BY <1>2, <1>3, <1>4, <1>5, <1>6, <1>7, <1>8, <1>9, <1>10, <1>11, <1>12, <1>13, <1>14
        DEF Step

(* Only LogRequest writes a line with what was asked.                      *)
LEMMA NewLines ==
    ASSUME NEW r \in Requests, Step(r) \/ Hangup(r), NEW l \in log', l \notin log,
           l.kind = "request"
    PROVE  l.of = r /\ l.text = Filter(req[r].dump)
<1>1. CASE LogRequest(r)
  <2>1. l = Line(r, "request", 0, Filter(req[r].dump))
    BY <1>1 DEF LogRequest, Log
  <2> QED BY <2>1 DEF Line
<1>2. CASE DumpFails(r)
  <2>1. l = Line(r, "no dump", 0, <<>>)
    BY <1>2 DEF DumpFails, Log
  <2> QED BY <2>1 DEF Line
<1>3. CASE LogResponse(r)
  <2>1. l = Line(r, "response", req[r].seen.status, Filter(MaybeUnzip(req[r].seen.body)))
    BY <1>3 DEF LogResponse, Log
  <2> QED BY <2>1 DEF Line
<1>4. CASE PanicCatcher(r)
  <2>1. l = Line(r, "panic", 0, <<>>)
    BY <1>4 DEF PanicCatcher, Log
  <2> QED BY <2>1 DEF Line
<1>5. CASE ContextLogger(r) \/ Handle(r) \/ Panic(r) \/ CallHeader(r) \/ CallWrite(r)
           \/ WriteFails(r) \/ Return(r) \/ Finish(r) \/ Hangup(r)
  <2>1. log' = log
    BY <1>5 DEF ContextLogger, Handle, Panic, CallHeader, CallWrite, WriteFails, Return,
                Finish, Hangup
  <2> QED BY <2>1
<1> QED BY <1>1, <1>2, <1>3, <1>4, <1>5 DEF Step

LEMMA KeepsRequestsLogged ==
    ASSUME HTTPServerInv, RequestsLogged, [Next]_vars
    PROVE  RequestsLogged'
<1> SUFFICES ASSUME NEW l \in log', l.kind = "request"
             PROVE  l.text = Filter(req'[l.of].dump)
  BY DEF RequestsLogged
<1>1. req \in [Requests -> Request] /\ \A k \in log : k.of \in Requests
  BY DEF HTTPServerInv, ProcessInv
<1>2. l \in log => l.of \in Requests /\ l.text = Filter(req[l.of].dump)
  BY <1>1 DEF RequestsLogged
<1>3. CASE Start \/ UNCHANGED vars
  BY <1>2, <1>3 DEF Start, vars
<1>4. CASE \E panicked : Exit(panicked)
  <2>1. PICK panicked : Exit(panicked)
    BY <1>4
  <2>2. l \in log
    BY <2>1 DEF Exit
  <2>3. req'[l.of].dump = req[l.of].dump
    <3> DEFINE q == l.of
               outcome == IF q \in panicked THEN "panicked" ELSE req[q].outcome
    <3>1. q \in Requests /\ req[q] \in Request
      BY <1>1, <1>2, <2>2
    <3>2. req'[q] = IF ~Running(q) THEN req[q]
                    ELSE [req[q] EXCEPT !.pc = "cut", !.outcome = outcome]
      BY <2>1, <3>1 DEF Exit, Request
    <3> HIDE DEF outcome, q
    <3>3. req'[q].dump = req[q].dump
      BY <3>1, <3>2 DEF Request
    <3> QED BY <3>3 DEF q
  <2> QED BY <1>2, <2>2, <2>3
<1>5. CASE \E r \in Requests, route \in Routes : \E dump \in DumpsOf(route) : Accept(r, route, dump)
  <2>1. PICK r \in Requests, route \in Routes :
                \E dump \in DumpsOf(route) : Accept(r, route, dump)
    BY <1>5
  <2>2. l \in log /\ req[r].pc = "new"
    BY <2>1 DEF Accept
  <2>3. l.of # r
    BY <2>2 DEF HTTPServerInv, RequestInv, LinesInv
  <2>4. req'[l.of] = req[l.of]
    BY <1>1, <1>2, <2>1, <2>2, <2>3 DEF Accept
  <2> QED BY <1>2, <2>2, <2>4
<1>6. CASE \E r \in Requests : Step(r) \/ Hangup(r)
  <2>1. PICK r \in Requests : Step(r) \/ Hangup(r)
    BY <1>6
  <2>2. CASE l \in log
    BY <1>2, <2>1, <2>2, KeepsDumps
  <2>3. CASE l \notin log
    BY <2>1, <2>3, NewLines, KeepsDumps
  <2> QED BY <2>2, <2>3
<1> QED BY <1>3, <1>4, <1>5, <1>6 DEF Next, Signal, DiffPanic

(* With the filters of api/diff-service.go, what is logged of a request    *)
(* has the listed headers and no other, and no more of its body than the   *)
(* two ends that fit the maximum (HeaderAllowlist.Filter,                  *)
(* BodyElider.Filter); without filters, as in cmd/diffs, all of it is      *)
(* logged.                                                                 *)
THEOREM RequestsTrimmed == Spec => []RequestsAreTrimmed
<1>1. Init => RequestsLogged
  BY DEF Init, RequestsLogged
<1>2. HTTPServerInv /\ RequestsLogged => RequestsAreTrimmed
  <2> SUFFICES ASSUME HTTPServerInv, RequestsLogged, NEW l \in log, l.kind = "request"
               PROVE  IF Filters = <<>> THEN l.text = req[l.of].dump
                      ELSE IsTrimmed(l.text, req[l.of].dump)
    BY DEF RequestsAreTrimmed
  <2> DEFINE d == req[l.of].dump
  <2>1. d \in AnyDump
    BY RequestType DEF HTTPServerInv, ProcessInv
  <2>2. l.text = Filter(d)
    BY DEF RequestsLogged
  <2> HIDE DEF d
  <2>3. d \in Seq(Tokens) /\ (d = <<>> \/ d[1] # CRLF)
    <3>1. CASE d = <<>>
      BY <3>1
    <3>2. CASE d \in Dumps
      <4>1. d \in Seq(STRING) /\ d[1] # CRLF
        BY <3>2, DumpsAssumption
      <4>2. d \in Seq(Tokens)
        BY <4>1, MoreTokens DEF Tokens
      <4> QED BY <4>1, <4>2
    <3> QED BY <2>1, <3>1, <3>2 DEF AnyDump
  <2>4. IF Filters = <<>> THEN Filter(d) = d ELSE IsTrimmed(Filter(d), d)
    BY <2>3, FilterTrims, FilterFacts, FiltersAssumption
  <2> QED BY <2>2, <2>4 DEF d
<1> QED BY <1>1, <1>2, KeepsRequestsLogged, Invariant, PTL DEF Spec
===============================================================================
