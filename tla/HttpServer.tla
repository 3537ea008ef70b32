----------------------------- MODULE HttpServer ------------------------------
(***************************************************************************)
(* One connection of the HttpServer (src/src/Http/httpServer.cpp): what    *)
(* the client sends is read into the connection's input Buffer, onMessage  *)
(* parses it with a new HttpRequest each time, makes the HttpResponse      *)
(* (src/src/Http/httpResponse.cpp) from a file and sends it, and the       *)
(* write-complete callback shuts the connection down.  The loop's thread   *)
(* does all this; another process may change the files meanwhile.          *)
(*                                                                         *)
(* Abstractions.  A file has a size in pages, is missing or not, and is    *)
(* readable for others or not.  Of an answer only the page is kept, its    *)
(* declared length and what UserVerify was asked; the verdict is either of *)
(* the two that the database may give.  TcpConnection and SqlConnPool have *)
(* modules of their own: here a connected connection sends everything.     *)
(* A Buffer without a client, in which all its functions are called in any *)
(* order, is the case script = <<>>.                                       *)
(***************************************************************************)
EXTENDS Buffer, HttpRequest

CONSTANTS
  Scripts,    \* what clients send: sequences of kinds of requests
  FreeBytes,  \* bound: bytes put into a Buffer that has no client
  Edits,      \* what others do: <<page, file>> pairs
  MaxReads,   \* bound: reads that have brought bytes
  MaxEdits    \* bound: changes of the files

VARIABLES
  script,       \* what this client sends
  phase,        \* where onMessage is: idle, parse, stat, content or crashed
  req,          \* onMessage's HttpRequest
  response,     \* onMessage's HttpResponse: the page and mmFileStat_.st_size
  state,        \* the connection's: connected or disconnecting
  completing,   \* a write-complete callback is queued
  site,         \* the files
  edits,        \* history: how often they have been changed
  reads,        \* history: the number of reads
  whole,        \* history: each read so far has brought exactly one request
  answers       \* history: what has been sent

connVars == <<script, state, completing, reads, whole, answers>>
siteVars == <<site, edits>>
sessionVars == <<vars, phase, req, response, connVars, siteVars>>

\* The bytes of a client, which the Buffer numbers 1, 2, 3, ...
Streams ==
  [s \in Scripts |-> FlattenSeq([i \in DOMAIN s |-> Letters(s[i])])]

stream == Streams[script]

Pages == {"index", "login", "welcome", "error", "404", "403"}
Missing == [there |-> FALSE, public |-> FALSE, size |-> 0]
File(public, size) == [there |-> TRUE, public |-> public, size |-> size]

ASSUME HttpAssumption ==
  /\ Scripts \subseteq Seq({"get", "login", "bad"})
  /\ \A e \in Edits : /\ e[1] \in Pages
                      /\ e[2].size \in Nat
                      /\ e[2] \in {Missing, File(e[2].public, e[2].size)}
  /\ FreeBytes \in Nat /\ MaxReads \in Nat /\ MaxEdits \in Nat

NoResponse == [page |-> "", size |-> 0]

SessionInit ==
  /\ Init
  /\ script \in Scripts
  /\ phase = "idle"
  /\ req = NewRequest
  /\ response = NoResponse
  /\ state = "connected"
  /\ completing = FALSE
  /\ site = [p \in Pages |-> File(TRUE, 1)]
  /\ edits = 0
  /\ reads = 0
  /\ whole = TRUE
  /\ answers = <<>>

------------------------------------------------------------------------------
\* handleRead: n bytes arrive, and onMessage begins.
Read(n) ==
  /\ phase = "idle"
  /\ n > 0
  /\ reads < MaxReads
  /\ appended + n <= Len(stream)
  /\ ReadFd(n)
  /\ reads' = reads + 1
  /\ whole' = (whole /\ n = Len(Letters(script[reads + 1])))
  /\ phase' = "parse"
  /\ req' = NewRequest
  /\ UNCHANGED <<script, response, state, completing, answers, siteVars>>

\* send by a connected connection; one that is shut down sends nothing.
Send(answer) ==
  IF state = "connected"
  THEN answers' = Append(answers, answer) /\ completing' = TRUE
  ELSE UNCHANGED <<answers, completing>>

BadRequest == [page |-> "bad", size |-> 0, asked |-> <<>>]

Text == [i \in 1..ReadableBytes(buf) |-> stream[buf.data[buf.reader + i - 1]]]

\* A request line that does not match stays in the buffer.  onMessage goes on
\* and makes a response, for the path "", which send then drops.
Refuse(line) ==
  /\ req.state = "REQUEST_LINE"
  /\ ~IsRequestLine(line)
  /\ Send(BadRequest)
  /\ state' = "disconnecting"
  /\ phase' = "stat"
  /\ UNCHANGED <<vars, req, response, script, reads, whole, siteVars>>

\* One turn of the loop in parse.
ParseLine(text, line) ==
  /\ \/ /\ req.state = "REQUEST_LINE"
        /\ IsRequestLine(line)
        /\ req' = ParseRequestLine(req, line)
     \/ /\ req.state = "HEADERS"
        /\ req' = ParseHeader(req, line, Len(text))
     \/ /\ req.state = "BODY"
        /\ \E verified \in Verdicts(line) : req' = ParseBody(req, line, verified)
  /\ IF line = text THEN Take(Len(text)) /\ phase' = "stat"
                    ELSE Take(Len(line) + 2) /\ UNCHANGED phase
  /\ UNCHANGED <<response, connVars, siteVars>>

\* The loop in parse.
Parse ==
  /\ phase = "parse"
  /\ IF ReadableBytes(buf) > 0 /\ req.state # "FINISH"
     THEN \E text \in {Text} : \E line \in {FirstLine(text)} :
            Refuse(line) \/ ParseLine(text, line)
     ELSE /\ phase' = "stat"
          /\ UNCHANGED <<vars, req, response, connVars, siteVars>>

------------------------------------------------------------------------------
\* The file of path p; "" is the directory of the pages, which has a size but
\* is no file.
FileAt(p) == IF p = "" THEN [Missing EXCEPT !.size = 1] ELSE site[p]

\* ErrorHtml_: a stat that fails leaves the size of before.
ErrorHtml(page, size) ==
  [page |-> page, size |-> IF site[page].there THEN site[page].size ELSE size]

\* The first part of MakeResponse, up to the call of AddContent_.
Stat ==
  /\ phase = "stat"
  /\ LET file == FileAt(req.path)
     IN  response' = CASE ~file.there -> ErrorHtml("404", file.size)
                       [] file.there /\ ~file.public -> ErrorHtml("403", file.size)
                       [] OTHER -> [page |-> req.path, size |-> file.size]
  /\ phase' = "content"
  /\ UNCHANGED <<vars, req, connVars, siteVars>>

\* AddContent_ when the file cannot be opened, which for one that others may
\* not read depends on its owner: ErrorContent.
Unopened ==
  /\ phase = "content"
  /\ ~site[response.page].public
  /\ Send([page |-> "none", size |-> 1, asked |-> req.asked])
  /\ phase' = "idle"
  /\ UNCHANGED <<vars, req, response, script, state, reads, whole, siteVars>>

\* Mapping no page fails, and what mmap returns then is dereferenced; a page
\* beyond the end of the file cannot be read.
Crash ==
  /\ phase = "content"
  /\ site[response.page].there
  /\ response.size = 0 \/ site[response.page].size < response.size
  /\ phase' = "crashed"
  /\ UNCHANGED <<vars, req, response, connVars, siteVars>>

\* AddContent_ and the end of onMessage.
SendPage ==
  /\ phase = "content"
  /\ site[response.page].there
  /\ response.size > 0
  /\ site[response.page].size >= response.size
  /\ Send([page |-> response.page, size |-> response.size, asked |-> req.asked])
  /\ phase' = "idle"
  /\ UNCHANGED <<vars, req, response, script, state, reads, whole, siteVars>>

\* Mutant: the connection stays open for the next request.
OnDestroy_KeepsAlive ==
  /\ phase = "idle"
  /\ completing
  /\ completing' = FALSE
  /\ UNCHANGED <<vars, phase, req, response, script, state, reads, whole,
                 answers, siteVars>>

\* onDestroy, once everything is sent.
OnDestroy ==
  /\ phase = "idle"
  /\ completing
  /\ completing' = FALSE
  /\ state' = "disconnecting"
  /\ UNCHANGED <<vars, phase, req, response, script, reads, whole, answers,
                 siteVars>>

\* A file is removed, replaced or given another mode by somebody else.
Edit ==
  /\ script # <<>>
  /\ edits < MaxEdits
  /\ edits' = edits + 1
  /\ \E e \in Edits : site' = [site EXCEPT ![e[1]] = e[2]]
  /\ UNCHANGED <<vars, phase, req, response, connVars>>

------------------------------------------------------------------------------
OnMessage ==
  Parse \/ Stat \/ Unopened \/ Crash \/ SendPage

NoClient ==
  /\ script = <<>>
  /\ Next
  /\ appended' <= FreeBytes
  /\ UNCHANGED <<phase, req, response, connVars, siteVars>>

SessionNext ==
  \/ OnMessage \/ OnDestroy \/ Edit \/ NoClient
  \/ \E n \in 1..Len(stream) : Read(n)

SessionSpec == SessionInit /\ [][SessionNext]_sessionVars

\* The loop goes on, and the client reads what it is sent.
SessionFairSpec == SessionSpec /\ WF_sessionVars(OnMessage \/ OnDestroy)

------------------------------------------------------------------------------
\* Whether an answer is the one to a request of that kind, as far as the files
\* matter if they have been left alone.
Answers(answer, kind) ==
  /\ answer.asked = IF kind = "login" THEN <<"user", "pass", "word">> ELSE <<>>
  /\ edits = 0 =>
       /\ answer.size = IF kind = "bad" THEN 0 ELSE 1
       /\ answer.page \in CASE kind = "get" -> {"index"}
                            [] kind = "login" -> {"welcome", "error"}
                            [] kind = "bad" -> {"bad"}

\* As long as each read brings one request, each answer is the right one to its
\* request: the page, all of it, and a login is decided on the credentials it
\* came with, however the buffer has moved and whatever was left in it.
AnswersMatch ==
  whole => /\ \A i \in DOMAIN answers : Answers(answers[i], script[i])
           /\ edits = 0 => phase # "crashed"

\* Whatever a client sends and however it is cut, the connection is shut down
\* after the answer: a client that keeps it open does not hold it.
ClosedAfterAnswer ==
  phase = "parse" ~> (state = "disconnecting" \/ phase = "crashed")
==============================================================================
