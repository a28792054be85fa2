----------------------------- MODULE HttpContext ------------------------------
(***************************************************************************)
(* HttpContext (reactor/src/HttpContext.cpp) as main's message callback    *)
(* uses it: each call of handleRead appends what the socket holds to       *)
(* inputBuffer_ and parses at most one request, into an HttpRequest that   *)
(* is local to the callback.                                               *)
(*                                                                         *)
(* The input is a sequence of tokens, one for a line with its CRLF and one *)
(* for a unit of a body; it arrives cut anywhere, and a line of which only *)
(* a part has arrived is not in the buffer yet.  A step is what the parser *)
(* does with one line or one body: nobody else sees the connection then.   *)
(***************************************************************************)
EXTENDS Naturals, Sequences, SequencesExt

CONSTANTS Paths,         \* the paths that are asked for
          Shapes,        \* the requests a client may send, see Shape
          MaxRequests    \* BOUND: requests on the connection

Methods == {"kGet", "kPost", "kHead"}

Verdicts == {"ok", "bad", "method", "version"}

\* Header lines that parseRequestLine would accept, like "GET /a:b HTTP/1.1" and,
\* without the colon of a header, "GET /a HTTP/1.1".
Lookalikes == {"alike", "alikeBroken"}

HeaderKinds == {"plain", "length", "broken", "notANumber"} \cup Lookalikes

\* line is what parseRequestLine says of the request line, headers the lines
\* after it, body the length of the body; "length" is a true Content-Length.
\* method and path are what the line sets that is taken for the request line.
\* BOUND: no body holds a CRLF, or makes a request line of the line behind it.
Shape == [line : Verdicts, method : Methods, path : Paths,
          headers : Seq(HeaderKinds), body : Nat]

ASSUME ShapesAssumption ==
    \A s \in Shapes : s \in Shape /\ (s.body > 0) = ("length" \in ToSet(s.headers))
ASSUME MaxAssumption == MaxRequests \in Nat

VARIABLES
    sent,      \* the requests the client has sent
    piped,     \* it has sent one before the one before was answered
    wire,      \* tokens on their way
    cut,       \* a part of the first of them has been read by itself
    buf,       \* inputBuffer_
    state, error, contentLength,   \* state_, error_, contentLength_
    parsing,   \* the message callback is on the stack
    req,       \* its req: the tokens that went into it
    served,    \* the requests handed to the ThreadPool
    responses, \* the responses handed to send(), each [to, code, body]; to is 0
               \* when it answers no request that was handed to the pool
    fate       \* "open", "closed", or "thrown": std::stoul threw in the loop thread

clientVars == <<sent, piped, wire, cut>>
ctxVars    == <<state, error, contentLength>>
outVars    == <<served, responses, fate>>
vars       == <<clientVars, buf, ctxVars, parsing, req, outVars>>

Token(r, part, says) == [req |-> r, part |-> part, says |-> says]

\* What the client writes for its r-th request, of shape s.
Tokens(r, s) ==
    <<Token(r, "line", s.line)>>
      \o [i \in 1 .. Len(s.headers) |-> Token(r, "header", s.headers[i])]
      \o <<Token(r, "blank", "")>>
      \o [i \in 1 .. s.body |-> Token(r, "body", "")]

Init ==
    /\ sent = <<>> /\ piped = FALSE /\ wire = <<>> /\ cut = FALSE /\ buf = <<>>
    /\ state = "kExpectRequestLine" /\ error = "none" /\ contentLength = 0
    /\ parsing = FALSE /\ req = {}
    /\ served = <<>> /\ responses = <<>> /\ fate = "open"

Unanswered == Len(sent) > Len(responses)

ClientSends(s) ==
    /\ fate = "open" /\ Len(sent) < MaxRequests
    /\ sent' = Append(sent, s)
    /\ wire' = wire \o Tokens(Len(sent) + 1, s)
    /\ piped' = (piped \/ Unanswered)
    /\ UNCHANGED <<cut, buf, ctxVars, parsing, req, outVars>>

\* handleRead: the next n tokens, or only a part of one.
\* BOUND: one read in a row brings only a part.
HandleRead(n) ==
    /\ fate = "open" /\ ~parsing /\ wire # <<>> /\ n \in 0 .. Len(wire)
    /\ n = 0 => ~cut
    /\ cut' = (n = 0)
    /\ buf' = buf \o SubSeq(wire, 1, n)
    /\ wire' = SubSeq(wire, n + 1, Len(wire))
    /\ parsing' = TRUE /\ req' = {}
    /\ UNCHANGED <<sent, piped, ctxVars, outVars>>

-------------------------------------------------------------------------------
(* The parser. *)

IsLine(t) == t.part # "body"
HasLine == \E i \in 1 .. Len(buf) : IsLine(buf[i])

\* findCrlf: a line begins at the read index, whatever was meant to be there.
LineEnd == SelectInSeq(buf, IsLine)
Line == buf[LineEnd]
Whole == LineEnd = 1
Rest(n) == SubSeq(buf, n + 1, Len(buf))

\* It looks for two spaces, a method, a path and a version, whatever the line was
\* meant to be; an empty line has no space.
RequestLineSays ==
    CASE Whole /\ Line.part = "line"  -> {Line.says}
      [] Whole /\ Line.part = "blank" -> {"bad"}
      [] Whole /\ Line.part = "header" /\ Line.says \in Lookalikes -> {"ok"}
      [] OTHER -> {"bad", "method", "version"}

HeaderSays ==
    IF Whole /\ Line.part = "header" THEN {Line.says} ELSE {"plain", "broken"}

HasBody == Len(buf) >= contentLength

Insufficient ==
    \/ state \in {"kExpectRequestLine", "kExpectHeaders"} /\ ~HasLine
    \/ state = "kExpectBody" /\ ~HasBody

\* Mistakes: the length of a body, or the state, is left for the next request.
ResetKeepsLength == state' = "kExpectRequestLine" /\ UNCHANGED contentLength

ResetKeepsState == contentLength' = 0 /\ UNCHANGED state

\* reset() leaves error_ as it is.
Reset == state' = "kExpectRequestLine" /\ contentLength' = 0

Error(to, code) == [to |-> to, code |-> code, body |-> "error"]

\* The code main() gives to each error.
RefusalCode(e) == CASE e = "bad" -> 400 [] e = "method" -> 405 [] e = "version" -> 505

\* Mistake: a bad request does not close the connection.
RefuseGently(e) ==
    /\ responses' = Append(responses, Error(0, RefusalCode(e)))
    /\ Reset /\ UNCHANGED <<served, fate>>

\* parseRequest has returned false and error() is e.
Refuse(e) ==
    /\ responses' = Append(responses, Error(0, RefusalCode(e))) /\ UNCHANGED served
    /\ IF e = "bad"
       THEN fate' = "closed" /\ UNCHANGED <<state, contentLength>>
       ELSE Reset /\ UNCHANGED fate

\* It returns false for want of data: main looks at error() all the same.
NeedMore ==
    /\ parsing /\ Insufficient
    /\ parsing' = FALSE
    /\ IF error = "none" THEN UNCHANGED <<state, contentLength, outVars>> ELSE Refuse(error)
    /\ UNCHANGED <<clientVars, buf, error, req>>

TakeRequestLine ==
    /\ parsing /\ state = "kExpectRequestLine" /\ HasLine
    /\ buf' = Rest(LineEnd)
    /\ \E verdict \in RequestLineSays :
         IF verdict = "ok"
         THEN /\ state' = "kExpectHeaders" /\ req' = {Token(Line.req, "line", "ok")}
              /\ UNCHANGED <<error, contentLength, parsing, outVars>>
         ELSE /\ error' = verdict /\ Refuse(verdict)
              /\ parsing' = FALSE /\ UNCHANGED req
    /\ UNCHANGED clientVars

\* Content-Length is the number of body units of the request it belongs to.
TakeHeader ==
    /\ parsing /\ state = "kExpectHeaders" /\ HasLine
    /\ ~(Whole /\ Line.part = "blank")
    /\ buf' = Rest(LineEnd)
    /\ \E verdict \in HeaderSays :
         CASE verdict \in {"broken", "alikeBroken"} ->
                /\ error' = "bad" /\ Refuse("bad")
                /\ parsing' = FALSE /\ UNCHANGED req
           [] verdict = "notANumber" ->
                /\ fate' = "thrown" /\ parsing' = FALSE
                /\ UNCHANGED <<ctxVars, req, served, responses>>
           [] OTHER ->
                /\ req' = req \cup {Line}
                /\ contentLength' = IF verdict = "length" THEN sent[Line.req].body
                                                          ELSE contentLength
                /\ UNCHANGED <<state, error, parsing, outVars>>
    /\ UNCHANGED clientVars

\* Mistake: a request ends with its headers.
EndIgnoresBody ==
    /\ parsing /\ state = "kExpectHeaders" /\ HasLine
    /\ Whole /\ Line.part = "blank"
    /\ buf' = Rest(1)
    /\ state' = "KGotCompleteRequest"
    /\ UNCHANGED <<clientVars, error, contentLength, parsing, req, outVars>>

EndHeaders ==
    /\ parsing /\ state = "kExpectHeaders" /\ HasLine
    /\ Whole /\ Line.part = "blank"
    /\ buf' = Rest(1)
    /\ state' = IF contentLength > 0 THEN "kExpectBody" ELSE "KGotCompleteRequest"
    /\ UNCHANGED <<clientVars, error, contentLength, parsing, req, outVars>>

TakeBody ==
    /\ parsing /\ state = "kExpectBody" /\ HasBody
    /\ req' = req \cup ToSet(SubSeq(buf, 1, contentLength))
    /\ buf' = Rest(contentLength)
    /\ state' = "KGotCompleteRequest"
    /\ UNCHANGED <<clientVars, error, contentLength, parsing, outVars>>

\* parseRequest returns true: reset() and threadPool.run().
Dispatch ==
    /\ parsing /\ state = "KGotCompleteRequest"
    /\ Reset
    /\ served' = Append(served, req)
    /\ parsing' = FALSE
    /\ UNCHANGED <<clientVars, buf, error, req, responses, fate>>

-------------------------------------------------------------------------------
Parse == NeedMore \/ TakeRequestLine \/ TakeHeader \/ EndHeaders \/ TakeBody \/ Dispatch

Arrive == \E n \in 1 .. Len(wire) : HandleRead(n)

Next ==
    \/ \E s \in Shapes : ClientSends(s)
    \/ \E n \in 0 .. Len(wire) : HandleRead(n)
    \/ Parse

SafeSpec == Init /\ [][Next]_vars

-------------------------------------------------------------------------------
(* Properties. *)

States == {"kExpectRequestLine", "kExpectHeaders", "kExpectBody", "KGotCompleteRequest"}

AllTokens ==
    [req : 1 .. Len(sent), part : {"line"}, says : Verdicts]
      \cup [req : 1 .. Len(sent), part : {"header"}, says : HeaderKinds]
      \cup [req : 1 .. Len(sent), part : {"blank", "body"}, says : {""}]

\* The type invariant; between two reads no complete request waits in state_.
TypeOK ==
    /\ sent \in Seq(Shapes) /\ piped \in BOOLEAN
    /\ wire \in Seq(AllTokens) /\ cut \in BOOLEAN /\ buf \in Seq(AllTokens)
    /\ state \in States /\ (~parsing => state # "KGotCompleteRequest")
    /\ error \in {"none", "bad", "method", "version"}
    /\ contentLength \in Nat /\ parsing \in BOOLEAN
    /\ req \subseteq AllTokens /\ served \in Seq(SUBSET AllTokens)
    /\ responses \in Seq([to : Nat, code : {200, 400, 403, 404, 405, 413, 505},
                          body : {"error", "text", "file", ""}])
    /\ fate \in {"open", "closed", "thrown"}

Bodies(S) == {t \in S : t.part = "body"}

\* None of the client's header lines reads as a request line.
Conforming == \A r \in 1 .. Len(sent) : ToSet(sent[r].headers) \cap Lookalikes = {}

\* Whatever the reads cut the stream into, and however many requests are in the
\* buffer at once, nothing of one request gets into another: the k-th request
\* handed on is the k-th the client sent, with all of its body.  A client is
\* exempt once one of its header lines reads as a request line: such a line is
\* taken for one when it is left over from a refused request.
FramingExact ==
    Conforming =>
        \A k \in 1 .. Len(served) :
            /\ k =< Len(sent)
            /\ \A t \in served[k] : t.req = k
            /\ Bodies(served[k]) = Bodies(ToSet(Tokens(k, sent[k])))

\* Once a request line has been refused nothing more is served, unless a header
\* line reads as a request line: the lines left over from the refused request are
\* taken for request lines, and its empty line, which never is one, closes the
\* connection.
RefusalEndsService == [][Conforming /\ error # "none" => served' = served]_vars

\* "true = a complete request has been parsed into req": a request handed on has
\* the method and the path of its request line.
RequestWhole ==
    \A k \in 1 .. Len(served) : \E t \in served[k] : t.part = "line"
===============================================================================
