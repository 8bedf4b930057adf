----------------------------- MODULE HttpServer -----------------------------
(***************************************************************************)
(* muduo::net::HttpServer with HttpContext, HttpRequest and HttpResponse,  *)
(* on one connection, and Inspector as its callback.  The peer's bytes     *)
(* come in arbitrary pieces.  A line is one unit of text and the two bytes *)
(* of its CRLF.  The text of a request line is a record of its three       *)
(* words, that of a header a record of its field and value.                *)
(***************************************************************************)
EXTENDS Integers, Sequences, FiniteSets, SequencesExt

CONSTANTS HttpRequests,  \* requests a peer may send: a line and headers
          MaxHttp,       \* bound: requests on the connection
          Commands       \* modules_ of the Inspector: pairs of module and command

(* A request line is read as one, and what has a colon as a header. *)
ASSUME HttpAssumption ==
  /\ MaxHttp \in Nat
  /\ \A r \in HttpRequests : /\ r.line.kind = "request"
                             /\ r.headers \in Seq({h \in ToSet(r.headers) : h.kind = "header"})

VARIABLES script,    \* the requests the peer has begun to send
          lines,     \* their lines, as pairs of a request and a line of it: those it
                     \* has sent and, last, the one it sends next
          unsent,    \* what it has sent and has not arrived
          input,     \* inputBuffer_
          parse,     \* HttpContext::state_
          request,   \* HttpContext::request_
          handling,  \* the loop thread is in onMessage()
          conn,      \* the connection is up, or shutdown() was called
          replies,   \* what was sent
          aborted,   \* history: assert(method_ == kInvalid) failed
          burst      \* history: a piece ended more than one request

httpVars == <<script, lines, unsent, input, parse, request, handling, conn, replies, aborted, burst>>

Text(line) == [unit |-> "text", line |-> line]
CR == [unit |-> "CR"]
LF == [unit |-> "LF"]

EmptyLine == [kind |-> "empty"]
LineUnits(line) == IF line = EmptyLine THEN <<CR, LF>> ELSE <<Text(line), CR, LF>>

(* Line w[2] of request w[1] of the requests s: the request line is line 0 *)
(* and the empty line the one behind the headers.                          *)
LineOf(s, w) ==
  LET r == s[w[1]]
  IN  IF w[2] = 0 THEN r.line ELSE IF w[2] <= Len(r.headers) THEN r.headers[w[2]] ELSE EmptyLine
Following(s, w) == IF w[2] <= Len(s[w[1]].headers) THEN <<w[1], w[2] + 1>> ELSE <<w[1] + 1, 0>>

(* headers_ is a map from the fields it has. *)
NoRequest == [method |-> "kInvalid", version |-> "kUnknown", path |-> <<>>, headers |-> [f \in {} |-> ""]]

HttpInit ==
  /\ script = <<>> /\ lines = <<<<1, 0>>>>
  /\ unsent = <<>> /\ input = <<>>
  /\ parse = "kExpectRequestLine" /\ request = NoRequest
  /\ handling = FALSE /\ conn = "up"
  /\ replies = <<>>
  /\ aborted = FALSE /\ burst = FALSE

-----------------------------------------------------------------------------
(* The peer sends the line w of its requests s. *)
SendLine(s, w) ==
  /\ script' = s
  /\ unsent' = unsent \o LineUnits(LineOf(s, w))
  /\ lines' = Append(lines, Following(s, w))
  /\ UNCHANGED <<input, parse, request, handling, conn, replies, aborted, burst>>

PeerBegins ==
  /\ ~aborted /\ Last(lines)[2] = 0 /\ Len(script) < MaxHttp
  /\ \E r \in HttpRequests : SendLine(Append(script, r), Last(lines))

PeerGoesOn ==
  /\ ~aborted /\ Last(lines)[2] > 0
  /\ SendLine(script, Last(lines))

-----------------------------------------------------------------------------
(* Buffer::findCRLF(), 0 when there is none *)
Breaks(units) == {i \in 1..(Len(units) - 1) : units[i] = CR /\ units[i + 1] = LF}
FindCRLF == IF Breaks(input) = {} THEN 0
            ELSE CHOOSE i \in Breaks(input) : \A j \in Breaks(input) : i <= j

(* The line before it: its text, or nothing. *)
Line == IF FindCRLF = 1 THEN EmptyLine ELSE input[1].line
RetrieveLine == input' = SubSeq(input, FindCRLF + 2, Len(input))

(* HttpRequest::setMethod(), which asserts that no method is set *)
Methods == {"GET", "POST", "HEAD", "PUT", "DELETE"}
SetMethod(line) == IF line.kind = "request" /\ line.method \in Methods THEN line.method ELSE "kInvalid"

(* processRequestLine(): what it leaves in request_, and its answer *)
ProcessRequestLine(line) ==
  LET method == SetMethod(line)
      words == method # "kInvalid" /\ line.words = 3
      version == words /\ line.version \in {"1.0", "1.1"}
  IN  [ok |-> version,
       request |-> [request EXCEPT !.method = method,
                                   !.path = IF words THEN line.path ELSE @,
                                   !.version = IF version THEN line.version ELSE @]]

(* HttpRequest::addHeader(): the last value of a field stays. *)
AddHeader(line) ==
  [request EXCEPT !.headers =
     [f \in DOMAIN @ \cup {line.field} |-> IF f = line.field THEN line.value ELSE @[f]]]

GetHeader(req, field) == IF field \in DOMAIN req.headers THEN req.headers[field] ELSE ""

-----------------------------------------------------------------------------
(* Inspector::onRequest().  The path is the sequence of its segments.      *)

(* split() drops the empty segments. *)
SplitPath(path) == SelectSeq(path, LAMBDA s : s # "")

InspectorOnRequest(path) ==
  LET result == SplitPath(path)
  IN  IF path = <<>> \/ result = <<"favicon.ico">>
         \/ (Len(result) >= 2 /\ <<result[1], result[2]>> \in Commands)
      THEN 200 ELSE 404

-----------------------------------------------------------------------------
(* send() and shutdown() do nothing once shutdown() was called. *)
Send(reply) == replies' = IF conn = "up" THEN Append(replies, reply) ELSE replies

(* onRequest(): close after the response? *)
WantsClose(req) ==
  LET connection == GetHeader(req, "Connection")
  IN  connection = "close" \/ (req.version = "1.0" /\ connection # "Keep-Alive")

(* HttpResponse::appendToBuffer(): the length is told unless the end of    *)
(* the connection ends the body.                                           *)
Response(req) == [status |-> InspectorOnRequest(req.path), close |-> WantsClose(req)]
BadRequest == [status |-> 400, close |-> TRUE]

(* Bytes arrive: TcpConnection::handleRead() calls onMessage(). *)
EmptyLines(units) == {i \in Breaks(units) : i = 1 \/ units[i - 1].unit # "text"}
RequestEnds(units) == Cardinality(EmptyLines(units))
Arrive ==
  \E n \in 1..Len(unsent) :
    /\ ~handling /\ ~aborted
    /\ input' = input \o SubSeq(unsent, 1, n)
    /\ unsent' = SubSeq(unsent, n + 1, Len(unsent))
    /\ handling' = TRUE
    /\ burst' = (burst \/ RequestEnds(input') - RequestEnds(input) > 1)
    /\ UNCHANGED <<script, lines, parse, request, conn, replies, aborted>>

(* parseRequest(), the loop at a good request line *)
ParseRequestLine ==
  /\ handling /\ parse = "kExpectRequestLine" /\ FindCRLF > 0
  /\ request.method = "kInvalid"
  /\ ProcessRequestLine(Line).ok
  /\ request' = ProcessRequestLine(Line).request
  /\ RetrieveLine
  /\ parse' = "kExpectHeaders"
  /\ UNCHANGED <<script, lines, unsent, handling, conn, replies, aborted, burst>>

(* A bad one: parseRequest() returns false and leaves the line where it is. *)
ParseBadLine ==
  /\ handling /\ parse = "kExpectRequestLine" /\ FindCRLF > 0
  /\ request.method = "kInvalid"
  /\ ~ProcessRequestLine(Line).ok
  /\ request' = ProcessRequestLine(Line).request
  /\ Send(BadRequest)
  /\ conn' = "shutdown"
  /\ handling' = FALSE
  /\ UNCHANGED <<script, lines, unsent, input, parse, aborted, burst>>

(* The bad line again, with the bytes that follow it: setMethod() asserts  *)
(* when the line had a method.                                             *)
ParseAborts ==
  /\ handling /\ parse = "kExpectRequestLine" /\ FindCRLF > 0
  /\ request.method # "kInvalid"
  /\ aborted' = TRUE /\ handling' = FALSE
  /\ UNCHANGED <<script, lines, unsent, input, parse, request, conn, replies, burst>>

(* Mutant: parseRequest() returns after each header. *)
ParseHeaderOnce ==
  /\ handling /\ parse = "kExpectHeaders" /\ FindCRLF > 0
  /\ Line.kind = "header"
  /\ request' = AddHeader(Line)
  /\ RetrieveLine
  /\ handling' = FALSE
  /\ UNCHANGED <<script, lines, unsent, parse, conn, replies, aborted, burst>>

ParseHeader ==
  /\ handling /\ parse = "kExpectHeaders" /\ FindCRLF > 0
  /\ Line.kind = "header"
  /\ request' = AddHeader(Line)
  /\ RetrieveLine
  /\ UNCHANGED <<script, lines, unsent, parse, handling, conn, replies, aborted, burst>>

(* HttpContext::reset() *)
ResetContext == request' = NoRequest

(* A line without a colon ends the headers: the request is answered, and   *)
(* onMessage() returns with what follows it left in the buffer.            *)
ParseEnd ==
  /\ handling /\ parse = "kExpectHeaders" /\ FindCRLF > 0
  /\ Line.kind # "header"
  /\ RetrieveLine
  /\ Send(Response(request))
  /\ conn' = IF WantsClose(request) THEN "shutdown" ELSE conn
  /\ ResetContext
  /\ parse' = "kExpectRequestLine"
  /\ handling' = FALSE
  /\ UNCHANGED <<script, lines, unsent, aborted, burst>>

(* No whole line: wait for more bytes. *)
ParseWaits ==
  /\ handling /\ FindCRLF = 0
  /\ handling' = FALSE
  /\ UNCHANGED <<script, lines, unsent, input, parse, request, conn, replies, aborted, burst>>

HttpNext == PeerBegins \/ PeerGoesOn \/ Arrive \/ ParseRequestLine \/ ParseBadLine \/ ParseAborts
              \/ ParseHeader \/ ParseEnd \/ ParseWaits

HttpSpec == HttpInit /\ [][HttpNext]_httpVars

-----------------------------------------------------------------------------
(* What the peer should read for the request r, from its own text alone *)
LastValue(r, field) ==
  LET at == {i \in DOMAIN r.headers : r.headers[i].field = field}
  IN  IF at = {} THEN "" ELSE r.headers[CHOOSE i \in at : \A j \in at : j <= i].value
WellFormed(r) == r.line.method \in Methods /\ r.line.words = 3 /\ r.line.version \in {"1.0", "1.1"}
Expected(r) ==
  IF ~WellFormed(r) THEN BadRequest
  ELSE [status |-> InspectorOnRequest(r.line.path),
        close |-> \/ LastValue(r, "Connection") = "close"
                  \/ r.line.version = "1.0" /\ LastValue(r, "Connection") # "Keep-Alive"]

(* The replies are those of the requests, in order, however the bytes were *)
(* cut and whatever other requests came before on the connection; none     *)
(* follows the one that closes.                                            *)
RepliesInOrder ==
  /\ Len(replies) <= Len(script)
  /\ \A i \in DOMAIN replies : replies[i] = Expected(script[i])
  /\ \A i \in DOMAIN replies : replies[i].close => i = Len(replies)

(* A request whose last byte is there is answered, unless it came in the   *)
(* same piece as the end of another: onMessage() takes one request, and    *)
(* the next waits for more bytes.                                          *)
AnswersWhatIsThere ==
  ~handling /\ ~burst /\ conn = "up" => RequestEnds(input) = 0

(* The assertion of setMethod() fails only when a peer goes on sending     *)
(* after a request line that parseRequest() refused: one that is answered  *)
(* leaves nothing behind for the next.                                     *)
AbortsOnlyAfterBad == aborted => conn = "shutdown" /\ \E i \in DOMAIN script : ~WellFormed(script[i])

(* However the bytes are cut, requests get their own replies, in order and *)
(* as soon as they are there, and only a peer that goes on after a refused *)
(* line meets an assertion.                                                *)
HttpSound == RepliesInOrder /\ AnswersWhatIsThere /\ AbortsOnlyAfterBad
=============================================================================
