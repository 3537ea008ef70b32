----------------------------- MODULE HttpRequest -----------------------------
(***************************************************************************)
(* The parser of HTTP requests (src/src/Http/httpRequest.cpp): a line at a *)
(* time, by regular expressions, over whatever has been received.          *)
(*                                                                         *)
(* Abstractions.  A line is a sequence of letters, and a letter stands for *)
(* a piece of text that the parser tells apart from others, so that a read *)
(* may end within a line and within a value:                               *)
(*   "GET"   GET / HT                  "CR", "LF"  the two bytes of CRLF   *)
(*   "POST"  POST /login HT            "user"      username=...            *)
(*   "TP"    TP/1.1                    "pass"      &password=...           *)
(*   "type"  Content-Type:             "word"      the password's end      *)
(*   "form"  application/x-www-form-urlencoded                             *)
(*   "host"  Host:   "name"  its value   "junk"  text without a space      *)
(* /register is handled as /login is.  Other pages and headers, the        *)
(* version and the decoding of % and + are left out.                       *)
(***************************************************************************)
EXTENDS Naturals, SequencesExt, FiniteSetsExt

\* What a client sends, by the kind of the request.
Letters(kind) ==
  CASE kind = "get" -> <<"GET", "TP", "CR", "LF", "host", "name", "CR", "LF",
                         "CR", "LF">>
    [] kind = "login" -> <<"POST", "TP", "CR", "LF", "type", "form", "CR", "LF",
                           "CR", "LF", "user", "pass", "word">>
    [] kind = "bad" -> <<"junk", "CR", "LF", "CR", "LF">>

\* A new HttpRequest.  asked is what UserVerify was asked and has answered.
NewRequest ==
  [state |-> "REQUEST_LINE", method |-> "", path |-> "", form |-> FALSE,
   asked |-> <<>>]

------------------------------------------------------------------------------
\* findCRLF: where a CRLF of text begins.
CRLFs(text) ==
  {i \in 1..(Len(text) - 1) : text[i] = "CR" /\ text[i + 1] = "LF"}

\* The letters before every CRLF.
FirstLine(text) ==
  LET ends == CRLFs(text)
  IN  SubSeq(text, 1, Cardinality({i \in DOMAIN text : \A j \in ends : i < j}))

\* ParseRequestLine_ takes a line with two spaces and HTTP/ after the second;
\* anything else without a space may surround that, a CR or an LF too.
Targets == {"GET", "POST"}

IsRequestLine(line) ==
  \E i \in 1..(Len(line) - 1) :
    /\ line[i] \in Targets /\ line[i + 1] = "TP"
    /\ \A j \in DOMAIN line \ {i} : line[j] \notin Targets

\* The method is all that precedes the first space.
ParseRequestLine(req, line) ==
  [req EXCEPT !.state = "HEADERS",
              !.method = IF line[1] = "POST" THEN "POST" ELSE "other",
              !.path = IF Contains(line, "POST") THEN "login" ELSE "index"]

\* The pattern of a header wants a colon, and after it no CR and no LF.
IsHeader(line) ==
  \E i \in DOMAIN line :
    /\ line[i] \in {"host", "type"}
    /\ \A j \in (i + 1)..Len(line) : line[j] \notin {"CR", "LF"}

\* ParseHeader_, and the test that ends a request without a body: readable
\* bytes, the line's included, are what the buffer holds.
ParseHeader(req, line, readable) ==
  [req EXCEPT !.state = IF readable <= 2 THEN "FINISH"
                        ELSE IF IsHeader(line) THEN "HEADERS" ELSE "BODY",
              !.form = @ \/ line = <<"type", "form">>]

\* Mutant: the last value is taken from j to i - 1, one short.
Credentials_Short(line) == Front(line)

\* What ParseFromUrlencoded_ finds in the line; nothing but the line's end ends
\* the last value.
Credentials(line) == line

\* ParseBody_ and ParsePost_; UserVerify refuses an empty password, and asks
\* the database otherwise.
ParseBody(req, line, verified) ==
  IF req.method = "POST" /\ req.form
  THEN [req EXCEPT !.state = "FINISH",
                   !.path = IF verified THEN "welcome" ELSE "error",
                   !.asked = Credentials(line)]
  ELSE [req EXCEPT !.state = "FINISH"]

Verdicts(line) == IF Contains(line, "pass") THEN BOOLEAN ELSE {FALSE}
==============================================================================
