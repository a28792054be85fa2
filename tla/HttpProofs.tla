------------------------------ MODULE HttpProofs ------------------------------
(***************************************************************************)
(* For every set of requests a client may send, every way the stream is    *)
(* cut into reads, every number of workers and every change of the disk:   *)
(* the requests are told apart exactly, a refused one is the last that is  *)
(* looked at, and a client that waits is answered in order, unless one of  *)
(* its header lines reads as a request line.                               *)
(***************************************************************************)
EXTENDS HttpService, SequenceTheorems, WellFoundedInduction, TLAPS

-------------------------------------------------------------------------------
(* What the invariant is made of. *)

\* What the invariant rests on.  E says where the requests end in the stream of all
\* the tokens the client has sent; so many of them has the parser taken.
IsIndex(E) ==
    /\ E \in [0 .. Len(sent) -> Nat] /\ E[0] = 0
    /\ \A r \in 1 .. Len(sent) :
          E[r] = E[r - 1] + Len(Tokens(r, sent[r])) /\ E[r] =< E[Len(sent)]

Parsed(E) == E[Len(sent)] - Len(buf) - Len(wire)

\* inputBuffer_ and the wire hold the rest of the stream and nothing else.
Laid(E) ==
    \A r \in 1 .. Len(sent) : \A q \in 1 .. Len(Tokens(r, sent[r])) :
        LET i == E[r - 1] + q - Parsed(E) IN
        /\ i \in 1 .. Len(buf) => buf[i] = Tokens(r, sent[r])[q]
        /\ i > Len(buf) => wire[i - Len(buf)] = Tokens(r, sent[r])[q]

\* The parser is where its state says, in the request after those served: Into(E)
\* of the tokens of that request have been taken.
Current == Len(served) + 1
Into(E) == Parsed(E) - E[Len(served)]
OwnLines == (\A t \in req : t.req = Current) /\ Bodies(req) = {}

AtRequestLine(E) ==
    /\ error = "none" /\ state = "kExpectRequestLine" /\ contentLength = 0
    /\ Into(E) = 0 /\ (parsing => req = {})

AtHeaders(E) ==
    /\ error = "none" /\ state = "kExpectHeaders" /\ Current =< Len(sent)
    /\ Into(E) \in 1 .. Len(sent[Current].headers) + 1
    /\ contentLength = IF \E i \in 1 .. Into(E) - 1 : sent[Current].headers[i] = "length"
                       THEN sent[Current].body ELSE 0
    /\ parsing => OwnLines

AtBody(E) ==
    /\ error = "none" /\ state = "kExpectBody" /\ Current =< Len(sent)
    /\ Into(E) = Len(sent[Current].headers) + 2
    /\ contentLength = sent[Current].body /\ contentLength > 0
    /\ parsing => OwnLines

AtEnd(E) ==
    /\ error = "none" /\ state = "KGotCompleteRequest" /\ Current =< Len(sent)
    /\ Into(E) = Len(Tokens(Current, sent[Current]))
    /\ \A t \in req : t.req = Current
    /\ Bodies(req) = Bodies(ToSet(Tokens(Current, sent[Current])))

\* A refused request line leaves it among the headers that belong to the line.
Astray(E) ==
    /\ error \in {"method", "version"} /\ state = "kExpectRequestLine" /\ contentLength = 0
    /\ Current =< Len(sent) /\ Into(E) \in 1 .. Len(sent[Current].headers) + 1

Synced(E) == AtRequestLine(E) \/ AtHeaders(E) \/ AtBody(E) \/ AtEnd(E) \/ Astray(E)

\* The k-th request handed on is the k-th the client has sent.
Framed ==
    /\ Len(served) =< Len(sent)
    /\ \A k \in 1 .. Len(served) :
          /\ \A t \in served[k] : t.req = k
          /\ Bodies(served[k]) = Bodies(ToSet(Tokens(k, sent[k])))

ParserInv(E) ==
    /\ Framed /\ IsIndex(E) /\ Laid(E)
    /\ IF fate = "open" THEN Synced(E) ELSE ~parsing

\* What AnswersInOrder rests on: no more than one request is unanswered then, and none once
\* one has been refused.
OneAtATime ==
    /\ Len(sent) =< Len(responses) + 1
    /\ \A j \in 1 .. Len(responses) : responses[j].to = IF j =< Len(served) THEN j ELSE 0
    /\ error = "none" => Len(responses) =< Len(served)
    /\ taken = Len(served) /\ (\A w \in Workers : job[w] = Idle) => Len(served) =< Len(responses)
    /\ taken < Len(served) =>
          /\ error = "none" /\ taken = Len(responses) /\ Len(served) = taken + 1
          /\ \A w \in Workers : job[w] = Idle
    /\ \A w \in Workers : job[w] # Idle =>
          /\ error = "none" /\ job[w].to = Len(served)
          /\ Len(served) = taken /\ Len(served) = Len(responses) + 1
          /\ \A v \in Workers \ {w} : job[v] = Idle

\* What realpath and isWithinRoot have said to the worker with job j.
Knows(j) ==
    HasRequestLine(j.to) =>
        /\ disk[File(j.to)] \in j.saw
        /\ j.phase = "index" => Path(j.to) \in Directories \cap WithinRoot
        /\ j.phase \in {"stat", "read"} => Allowed(j.to)

\* What a worker knows of the file it is looking for.
Seen ==
    \A w \in Workers :
        /\ job[w].phase = "idle" => job[w] = Idle
        /\ job[w].phase # "idle" => job[w].to \in 1 .. taken /\ Knows(job[w])

-------------------------------------------------------------------------------
(* The tokens of one request. *)

TokensOf(r) ==
    [req : {r}, part : {"line"}, says : Verdicts]
      \cup [req : {r}, part : {"header"}, says : HeaderKinds]
      \cup [req : {r}, part : {"blank", "body"}, says : {""}]

LEMMA TokenFields ==
    \A t, r, p, x : t = Token(r, p, x) => t.req = r /\ t.part = p /\ t.says = x
BY DEF Token

LEMMA FunctionIsSeq ==
    ASSUME NEW S, NEW n \in Nat, NEW f \in [1 .. n -> S]
    PROVE  f \in Seq(S) /\ Len(f) = n
<1>1. f \in Seq(S)
  BY SeqDef
<1>2. Len(f) \in Nat /\ 1 .. Len(f) = 1 .. n
  BY <1>1, LenProperties
<1>3. Len(f) = n
  <2>1. CASE n < Len(f)
    <3>1. Len(f) \in 1 .. Len(f) /\ Len(f) \notin 1 .. n
      BY <1>2, <2>1
    <3> QED
      BY <1>2, <3>1
  <2>2. CASE Len(f) < n
    <3>1. n \in 1 .. n /\ n \notin 1 .. Len(f)
      BY <1>2, <2>2
    <3> QED
      BY <1>2, <3>1
  <2> QED
    BY <1>2, <2>1, <2>2
<1> QED
  BY <1>1, <1>3

\* Two sequences, each behind one element.
LEMMA Catenation ==
    ASSUME NEW X, NEW x \in X, NEW y \in X, NEW b \in Seq(X), NEW d \in Seq(X),
           NEW T, T = <<x>> \o b \o <<y>> \o d
    PROVE  /\ T \in Seq(X) /\ Len(T) = Len(b) + 2 + Len(d)
           /\ T[1] = x /\ T[Len(b) + 2] = y
           /\ \A q \in 2 .. Len(b) + 1 : T[q] = b[q - 1]
           /\ \A q \in Len(b) + 3 .. Len(b) + 2 + Len(d) : T[q] = d[q - (Len(b) + 2)]
<1> DEFINE a == <<x>>
           c == <<y>>
<1>1. /\ a \in Seq(X) /\ Len(a) = 1 /\ a[1] = x /\ c \in Seq(X) /\ Len(c) = 1 /\ c[1] = y
  OBVIOUS
<1>2. Len(b) \in Nat /\ Len(d) \in Nat
  BY LenProperties
<1> HIDE DEF a, c
<1> DEFINE ab == a \o b
           abc == ab \o c
<1>0. T = abc \o d
  BY DEF a, c
<1>3. /\ ab \in Seq(X) /\ Len(ab) = 1 + Len(b)
      /\ \A i \in 1 .. 1 + Len(b) : ab[i] = IF i <= 1 THEN a[i] ELSE b[i - 1]
  <2>1. /\ ab \in Seq(X) /\ Len(ab) = Len(a) + Len(b)
        /\ \A i \in 1 .. Len(a) + Len(b) : ab[i] = IF i <= Len(a) THEN a[i] ELSE b[i - Len(a)]
    BY <1>1, ConcatProperties
  <2> HIDE DEF ab
  <2> QED
    BY <1>1, <2>1
<1> HIDE DEF ab
<1>4. /\ abc \in Seq(X) /\ Len(abc) = 1 + Len(b) + 1
      /\ \A i \in 1 .. 1 + Len(b) + 1 : abc[i] = IF i <= 1 + Len(b) THEN ab[i] ELSE c[i - (1 + Len(b))]
  <2>1. /\ abc \in Seq(X) /\ Len(abc) = Len(ab) + Len(c)
        /\ \A i \in 1 .. Len(ab) + Len(c) : abc[i] = IF i <= Len(ab) THEN ab[i] ELSE c[i - Len(ab)]
    BY <1>1, <1>3, ConcatProperties
  <2> HIDE DEF abc
  <2> QED
    BY <1>1, <1>3, <2>1
<1> HIDE DEF abc
<1>5. /\ T \in Seq(X) /\ Len(T) = 1 + Len(b) + 1 + Len(d)
      /\ \A i \in 1 .. 1 + Len(b) + 1 + Len(d) :
            T[i] = IF i <= 1 + Len(b) + 1 THEN abc[i] ELSE d[i - (1 + Len(b) + 1)]
  <2> DEFINE U == abc \o d
  <2>1. /\ U \in Seq(X) /\ Len(U) = Len(abc) + Len(d)
        /\ \A i \in 1 .. Len(abc) + Len(d) : U[i] = IF i <= Len(abc) THEN abc[i] ELSE d[i - Len(abc)]
    <3>1. abc \in Seq(X)
      BY <1>4
    <3> QED
      BY <3>1, ConcatProperties
  <2> HIDE DEF U
  <2>2. T = U
    BY <1>0 DEF U
  <2> QED
    BY <1>4, <2>1, <2>2
<1>6. T[1] = x
  BY <1>1, <1>2, <1>3, <1>4, <1>5
<1>7. T[Len(b) + 2] = y
  <2>1. Len(b) + 2 = 1 + Len(b) + 1 /\ Len(b) + 2 - (1 + Len(b)) = 1
    BY <1>2
  <2> QED
    BY <1>1, <1>2, <1>4, <1>5, <2>1
<1>8. ASSUME NEW q \in 2 .. Len(b) + 1 PROVE T[q] = b[q - 1]
  BY <1>2, <1>3, <1>4, <1>5
<1>9. ASSUME NEW q \in Len(b) + 3 .. Len(b) + 2 + Len(d) PROVE T[q] = d[q - (Len(b) + 2)]
  <2>1. 1 + Len(b) + 1 = Len(b) + 2
    BY <1>2
  <2> QED
    BY <1>2, <1>5, <2>1
<1> QED
  BY <1>2, <1>5, <1>6, <1>7, <1>8, <1>9

\* A line, the headers, an empty line and the body, in this order.
LEMMA TokensAre ==
    ASSUME NEW r \in Nat, NEW s \in Shape
    PROVE  /\ Tokens(r, s) \in Seq(TokensOf(r))
           /\ Len(Tokens(r, s)) = Len(s.headers) + 2 + s.body
           /\ Len(s.headers) \in Nat /\ s.body \in Nat
           /\ Tokens(r, s)[1] = Token(r, "line", s.line)
           /\ \A q \in 2 .. Len(s.headers) + 1 :
                 Tokens(r, s)[q] = Token(r, "header", s.headers[q - 1])
           /\ Tokens(r, s)[Len(s.headers) + 2] = Token(r, "blank", "")
           /\ \A q \in Len(s.headers) + 3 .. Len(s.headers) + 2 + s.body :
                 Tokens(r, s)[q] = Token(r, "body", "")
<1> DEFINE X == TokensOf(r)
           h == Len(s.headers)
           x == Token(r, "line", s.line)
           y == Token(r, "blank", "")
           z == Token(r, "body", "")
           b == [i \in 1 .. h |-> Token(r, "header", s.headers[i])]
           d == [i \in 1 .. s.body |-> z]
<1>1. /\ s.line \in Verdicts /\ s.headers \in Seq(HeaderKinds) /\ s.body \in Nat
  BY DEF Shape
<1>2. h \in Nat /\ \A i \in 1 .. h : s.headers[i] \in HeaderKinds
  BY <1>1, LenProperties, ElementOfSeq
<1>3. /\ x \in X /\ y \in X /\ z \in X
      /\ \A i \in 1 .. h : Token(r, "header", s.headers[i]) \in X
  BY <1>1, <1>2 DEF Token, TokensOf
<1>4. Tokens(r, s) = <<x>> \o b \o <<y>> \o d
  BY Zenon DEF Tokens
<1> HIDE DEF X, h, x, y, z
<1>5. b \in [1 .. h -> X] /\ d \in [1 .. s.body -> X]
  BY <1>3
<1>6. /\ \A i \in 1 .. h : b[i] = Token(r, "header", s.headers[i])
      /\ \A i \in 1 .. s.body : d[i] = z
  OBVIOUS
<1> HIDE DEF b, d
<1>7. b \in Seq(X) /\ Len(b) = h /\ d \in Seq(X) /\ Len(d) = s.body
  BY <1>1, <1>2, <1>5, FunctionIsSeq
<1> DEFINE T == <<x>> \o b \o <<y>> \o d
<1>8. /\ T \in Seq(X) /\ Len(T) = Len(b) + 2 + Len(d)
      /\ T[1] = x /\ T[Len(b) + 2] = y
      /\ \A q \in 2 .. Len(b) + 1 : T[q] = b[q - 1]
      /\ \A q \in Len(b) + 3 .. Len(b) + 2 + Len(d) : T[q] = d[q - (Len(b) + 2)]
  <2>1. x \in X /\ y \in X /\ b \in Seq(X) /\ d \in Seq(X)
    BY <1>3, <1>7
  <2>2. T = <<x>> \o b \o <<y>> \o d
    OBVIOUS
  <2> HIDE DEF T
  <2> QED
    BY <2>1, <2>2, Catenation
<1> HIDE DEF T
<1>9. \A q \in 2 .. h + 1 : T[q] = Token(r, "header", s.headers[q - 1])
  BY <1>2, <1>6, <1>7, <1>8
<1>10. ASSUME NEW q \in h + 3 .. h + 2 + s.body PROVE T[q] = z
  <2>1. q - (h + 2) \in 1 .. s.body
    BY <1>1, <1>2
  <2>2. T[q] = d[q - (h + 2)]
    BY <1>7, <1>8
  <2> QED
    BY <1>6, <2>1, <2>2
<1>11. Tokens(r, s) = T
  BY <1>4 DEF T
<1> QED
  BY <1>1, <1>2, <1>7, <1>8, <1>9, <1>10, <1>11 DEF X, h, x, y, z

\* The body of a request: its tokens are alike.
LEMMA BodiesAre ==
    ASSUME NEW r \in Nat, NEW s \in Shape
    PROVE  Bodies(ToSet(Tokens(r, s))) = IF s.body > 0 THEN {Token(r, "body", "")} ELSE {}
<1> DEFINE h == Len(s.headers)
           T == Tokens(r, s)
<1>0. /\ T \in Seq(TokensOf(r)) /\ Len(T) = h + 2 + s.body /\ h \in Nat /\ s.body \in Nat
  BY TokensAre
<1>1. \A q \in h + 3 .. h + 2 + s.body : T[q] = Token(r, "body", "")
  BY TokensAre
<1>2. T[1] = Token(r, "line", s.line) /\ T[h + 2] = Token(r, "blank", "")
  BY TokensAre
<1>c. \A q \in 2 .. h + 1 : T[q] = Token(r, "header", s.headers[q - 1])
  BY TokensAre
<1> HIDE DEF T, h
<1>a. DOMAIN T = 1 .. h + 2 + s.body
  BY <1>0, LenProperties
<1>b. h \in Nat /\ s.body \in Nat
  BY <1>0
<1>3. ASSUME NEW q \in 1 .. h + 2 + s.body
      PROVE  T[q].part = "body" => q \in h + 3 .. h + 2 + s.body
  <2>1. q = 1 \/ q \in 2 .. h + 1 \/ q = h + 2 \/ q \in h + 3 .. h + 2 + s.body
    BY <1>b
  <2>2. T[1].part = "line" /\ T[h + 2].part = "blank"
    <3>1. /\ \A p, x : T[1] = Token(r, p, x) => T[1].part = p
          /\ \A p, x : T[h + 2] = Token(r, p, x) => T[h + 2].part = p
      BY TokenFields
    <3> QED
      BY <1>2, <3>1
  <2>3. q \in 2 .. h + 1 => T[q].part = "header"
    BY <1>c, TokenFields
  <2> QED
    BY <2>1, <2>2, <2>3
<1>4. Token(r, "body", "").part = "body"
  BY DEF Token
<1>5. Bodies(ToSet(T)) \subseteq {Token(r, "body", "")}
  BY <1>1, <1>a, <1>3 DEF Bodies, ToSet
<1>6. CASE s.body > 0
  <2>1. h + 3 \in h + 3 .. h + 2 + s.body /\ h + 3 \in 1 .. h + 2 + s.body
    BY <1>6, <1>b
  <2>2. T[h + 3] = Token(r, "body", "") /\ T[h + 3] \in ToSet(T)
    BY <1>1, <1>a, <2>1 DEF ToSet
  <2>3. Token(r, "body", "") \in Bodies(ToSet(T))
    BY <1>4, <2>2 DEF Bodies
  <2> QED
    BY <1>5, <1>6, <2>3 DEF T
<1>7. CASE ~(s.body > 0)
  <2>0. h \in Nat /\ s.body = 0
    BY <1>b, <1>7
  <2>1. ASSUME NEW q \in 1 .. h + 2 + s.body PROVE T[q].part # "body"
    <3>1. h + 3 .. h + 2 + s.body = {}
      BY <2>0
    <3> QED
      BY <1>3, <3>1
  <2>2. Bodies(ToSet(T)) = {}
    BY <1>a, <2>1 DEF Bodies, ToSet
  <2> QED
    BY <1>7, <2>2 DEF T
<1> QED
  BY <1>6, <1>7

-------------------------------------------------------------------------------
(* The stream and the place of the parser in it. *)

LEMMA Lengths ==
    ASSUME TypeOK, NEW E, IsIndex(E), Framed
    PROVE  /\ Len(sent) \in Nat /\ Len(served) \in Nat /\ Len(buf) \in Nat /\ Len(wire) \in Nat
           /\ Len(served) =< Len(sent)
           /\ E[Len(served)] \in Nat /\ E[Len(sent)] \in Nat /\ Parsed(E) \in Int
<1>1. Len(sent) \in Nat /\ Len(served) \in Nat /\ Len(buf) \in Nat /\ Len(wire) \in Nat
  BY LenProperties DEF TypeOK
<1>2. Len(served) =< Len(sent)
  BY DEF Framed
<1>3. Len(served) \in 0 .. Len(sent) /\ Len(sent) \in 0 .. Len(sent)
  BY <1>1, <1>2
<1>4. E[Len(served)] \in Nat /\ E[Len(sent)] \in Nat
  BY <1>3 DEF IsIndex
<1> QED
  BY <1>1, <1>2, <1>4 DEF Parsed

\* One request of the client and its tokens.
LEMMA Requests ==
    ASSUME TypeOK, NEW E, IsIndex(E), NEW r \in 1 .. Len(sent)
    PROVE  /\ sent[r] \in Shapes /\ sent[r] \in Shape /\ r \in Nat
           /\ E[r - 1] \in Nat /\ E[r] = E[r - 1] + Len(Tokens(r, sent[r]))
           /\ E[r] =< E[Len(sent)]
           /\ Len(Tokens(r, sent[r])) = Len(sent[r].headers) + 2 + sent[r].body
           /\ Len(sent[r].headers) \in Nat /\ sent[r].body \in Nat
<1>1. Len(sent) \in Nat /\ sent[r] \in Shapes
  BY LenProperties, ElementOfSeq DEF TypeOK
<1>2. r \in Nat /\ r - 1 \in 0 .. Len(sent)
  BY <1>1
<1>3. sent[r] \in Shape
  BY <1>1, ShapesAssumption
<1>4. E[r - 1] \in Nat /\ E[r] = E[r - 1] + Len(Tokens(r, sent[r])) /\ E[r] =< E[Len(sent)]
  BY <1>2 DEF IsIndex
<1> QED
  BY <1>1, <1>2, <1>3, <1>4, TokensAre

\* Where a token of the stream is.
LEMMA Place ==
    ASSUME NEW E, Laid(E), NEW r \in 1 .. Len(sent), NEW q \in 1 .. Len(Tokens(r, sent[r])),
           NEW i, i = E[r - 1] + q - Parsed(E)
    PROVE  /\ i \in 1 .. Len(buf) => buf[i] = Tokens(r, sent[r])[q]
           /\ i > Len(buf) => wire[i - Len(buf)] = Tokens(r, sent[r])[q]
BY DEF Laid

\* What the buffer begins with.
LEMMA InFront ==
    ASSUME TypeOK, NEW E, IsIndex(E), Laid(E), Framed, Len(served) < Len(sent),
           NEW n \in Nat, Parsed(E) = E[Len(served)] + n,
           NEW i \in 1 .. Len(buf),
           n + i =< Len(Tokens(Len(served) + 1, sent[Len(served) + 1]))
    PROVE  buf[i] = Tokens(Len(served) + 1, sent[Len(served) + 1])[n + i]
<1> DEFINE r == Len(served) + 1
<1>1. /\ Len(sent) \in Nat /\ Len(served) \in Nat /\ Len(buf) \in Nat
      /\ E[Len(served)] \in Nat
  BY Lengths
<1>2. r \in 1 .. Len(sent) /\ r - 1 = Len(served) /\ n + i =< Len(Tokens(r, sent[r]))
  BY <1>1
<1>6. Parsed(E) = E[r - 1] + n /\ E[r - 1] \in Nat
  BY <1>1, <1>2
<1> HIDE DEF r
<1>3. Len(Tokens(r, sent[r])) \in Nat
  BY <1>2, Requests
<1>4. n + i \in 1 .. Len(Tokens(r, sent[r]))
  BY <1>1, <1>2, <1>3
<1>5. i = E[r - 1] + (n + i) - Parsed(E)
  BY <1>1, <1>6
<1>7. buf[i] = Tokens(r, sent[r])[n + i]
  BY ONLY <1>2, <1>4, <1>5, Laid(E), i \in 1 .. Len(buf), Place
<1> QED
  BY <1>7 DEF r

LEMMA RestIs ==
    ASSUME NEW X, NEW s \in Seq(X), NEW m \in 0 .. Len(s)
    PROVE  /\ SubSeq(s, m + 1, Len(s)) \in Seq(X)
           /\ Len(SubSeq(s, m + 1, Len(s))) = Len(s) - m
           /\ \A i \in 1 .. Len(s) - m : SubSeq(s, m + 1, Len(s))[i] = s[m + i]
<1> DEFINE b == SubSeq(s, m + 1, Len(s))
<1>1. Len(s) \in Nat /\ \A i \in m + 1 .. Len(s) : s[i] \in X
  BY LenProperties, ElementOfSeq
<1>2. /\ b \in Seq(X) /\ Len(b) = IF m + 1 <= Len(s) THEN Len(s) - (m + 1) + 1 ELSE 0
      /\ \A i \in 1 .. Len(s) - (m + 1) + 1 : b[i] = s[(m + 1) + i - 1]
  BY <1>1, SubSeqProperties
<1> HIDE DEF b
<1>3. \A i \in 1 .. Len(s) - m : i \in 1 .. Len(s) - (m + 1) + 1 /\ (m + 1) + i - 1 = m + i
  BY <1>1
<1>4. Len(b) = Len(s) - m
  BY <1>1, <1>2
<1> QED
  BY <1>2, <1>3, <1>4 DEF b

LEMMA FirstIs ==
    ASSUME NEW X, NEW s \in Seq(X), NEW m \in 0 .. Len(s)
    PROVE  /\ SubSeq(s, 1, m) \in Seq(X) /\ Len(SubSeq(s, 1, m)) = m
           /\ \A i \in 1 .. m : SubSeq(s, 1, m)[i] = s[i]
<1> DEFINE a == SubSeq(s, 1, m)
<1>1. Len(s) \in Nat /\ \A i \in 1 .. m : s[i] \in X
  BY LenProperties, ElementOfSeq
<1>2. /\ a \in Seq(X) /\ Len(a) = IF 1 <= m THEN m - 1 + 1 ELSE 0
      /\ \A i \in 1 .. m - 1 + 1 : a[i] = s[1 + i - 1]
  BY <1>1, SubSeqProperties
<1> HIDE DEF a
<1>3. \A i \in 1 .. m : i \in 1 .. m - 1 + 1 /\ 1 + i - 1 = i
  BY <1>1
<1>4. Len(a) = m
  BY <1>1, <1>2
<1> QED
  BY <1>2, <1>3, <1>4 DEF a

\* Arithmetic of places: e + q - p is where the q-th token of a request is that
\* begins at e, when p tokens have been taken.
LEMMA Bound ==
    \A i, p, x, y, z \in Int : i + p = x /\ x =< y /\ y =< p + z => i =< z
OBVIOUS

LEMMA Located ==
    \A e, q, p \in Int : /\ e + q - p \in Int /\ e + q \in Int
                         /\ (e + q - p) + p = e + q
OBVIOUS

LEMMA Shifted ==
    \A e, q, p, m \in Int : /\ e + q - (p + m) \in Int
                            /\ (e + q - (p + m)) + m = e + q - p
OBVIOUS

LEMMA Within ==
    \A e, q, t, z \in Int : q =< t /\ e + t =< z => e + q =< z
OBVIOUS

LEMMA Nearer ==
    \A i, b, m \in Int : m >= 0 /\ i \in 1 .. b - m =>
        i + m \in 1 .. b /\ m + i = i + m
OBVIOUS

LEMMA FartherBack ==
    \A i, b, m \in Int : i > b - m => i + m > b /\ i + m - b = i - (b - m)
OBVIOUS

LEMMA StillOnTheWire ==
    \A i, b, w, m \in Int : m >= 0 /\ i > b + m =>
        /\ i > b /\ i - b = m + (i - (b + m))
        /\ i =< b + w => i - (b + m) \in 1 .. w - m
OBVIOUS

\* Tokens move from the front of the buffer into the parser, or from the wire
\* to the back of the buffer: the rest of the stream stays what it was.
LEMMA Taken ==
    ASSUME TypeOK, NEW E, IsIndex(E), Laid(E), Framed, NEW m \in 0 .. Len(buf),
           Len(buf') = Len(buf) - m, \A i \in 1 .. Len(buf) - m : buf'[i] = buf[m + i],
           UNCHANGED sent, UNCHANGED wire
    PROVE  /\ IsIndex(E)' /\ Laid(E)' /\ Parsed(E)' = Parsed(E) + m
<1>1. /\ Len(sent) \in Nat /\ Len(served) \in Nat /\ Len(buf) \in Nat /\ Len(wire) \in Nat
      /\ E[Len(sent)] \in Nat /\ Parsed(E) \in Int
  BY Lengths
<1>4. Parsed(E)' = Parsed(E) + m
  BY <1>1 DEF Parsed
<1>5. Laid(E)'
  <2> SUFFICES ASSUME NEW r \in 1 .. Len(sent), NEW q \in 1 .. Len(Tokens(r, sent[r])),
                      NEW i, i = E[r - 1] + q - Parsed(E)'
               PROVE  /\ i \in 1 .. Len(buf') => buf'[i] = Tokens(r, sent[r])[q]
                      /\ i > Len(buf') => wire[i - Len(buf')] = Tokens(r, sent[r])[q]
    BY DEF Laid
  <2>1. E[r - 1] \in Nat /\ Len(Tokens(r, sent[r])) \in Nat
    BY Requests
  <2>2. i \in Int /\ i + m = E[r - 1] + q - Parsed(E)
    <3>1. E[r - 1] \in Int /\ q \in Int /\ m \in Int /\ Parsed(E) \in Int
      BY <1>1, <2>1
    <3>2. i = E[r - 1] + q - (Parsed(E) + m)
      BY <1>4
    <3> QED
      BY ONLY <3>1, <3>2, Shifted
  <2>3. /\ i + m \in 1 .. Len(buf) => buf[i + m] = Tokens(r, sent[r])[q]
        /\ i + m > Len(buf) => wire[i + m - Len(buf)] = Tokens(r, sent[r])[q]
    <3> DEFINE j == i + m
    <3>1. j = E[r - 1] + q - Parsed(E)
      BY <2>2
    <3> HIDE DEF j
    <3>2. /\ j \in 1 .. Len(buf) => buf[j] = Tokens(r, sent[r])[q]
          /\ j > Len(buf) => wire[j - Len(buf)] = Tokens(r, sent[r])[q]
      BY <3>1 DEF Laid
    <3> QED
      BY <3>2 DEF j
  <2>4. ASSUME i \in 1 .. Len(buf') PROVE buf'[i] = Tokens(r, sent[r])[q]
    <3>1. i + m \in 1 .. Len(buf) /\ i \in 1 .. Len(buf) - m /\ m + i = i + m
      <4>1. i \in Int /\ Len(buf) \in Int /\ m \in Int /\ m >= 0 /\ i \in 1 .. Len(buf) - m
        BY <1>1, <2>2, <2>4
      <4> QED
        BY ONLY <4>1, Nearer
    <3> QED
      BY <2>3, <3>1
  <2>5. ASSUME i > Len(buf') PROVE wire[i - Len(buf')] = Tokens(r, sent[r])[q]
    <3>1. i + m > Len(buf) /\ i + m - Len(buf) = i - Len(buf')
      <4>1. i \in Int /\ Len(buf) \in Int /\ m \in Int /\ Len(buf') = Len(buf) - m
        BY <1>1, <2>2
      <4> QED
        BY ONLY <2>5, <4>1, FartherBack
    <3> QED
      BY <2>3, <3>1
  <2> QED
    BY <2>4, <2>5
<1>6. IsIndex(E)'
  BY DEF IsIndex
<1> QED
  BY <1>4, <1>5, <1>6

LEMMA Arrived ==
    ASSUME TypeOK, NEW E, IsIndex(E), Laid(E), Framed, NEW m \in 0 .. Len(wire),
           Len(buf') = Len(buf) + m, Len(wire') = Len(wire) - m,
           \A i \in 1 .. Len(buf) : buf'[i] = buf[i],
           \A i \in Len(buf) + 1 .. Len(buf) + m : buf'[i] = wire[i - Len(buf)],
           \A i \in 1 .. Len(wire) - m : wire'[i] = wire[m + i],
           UNCHANGED sent
    PROVE  IsIndex(E)' /\ Laid(E)' /\ Parsed(E)' = Parsed(E)
<1>1. /\ Len(sent) \in Nat /\ Len(served) \in Nat /\ Len(buf) \in Nat /\ Len(wire) \in Nat
      /\ E[Len(sent)] \in Nat /\ Parsed(E) \in Int
  BY Lengths
<1>0. E[Len(sent)] =< Parsed(E) + (Len(buf) + Len(wire))
  BY <1>1 DEF Parsed
<1>8. Parsed(E)' = Parsed(E)
  BY <1>1 DEF Parsed
<1>9. Laid(E)'
  <2> SUFFICES ASSUME NEW r \in 1 .. Len(sent), NEW q \in 1 .. Len(Tokens(r, sent[r])),
                      NEW i, i = E[r - 1] + q - Parsed(E)'
               PROVE  /\ i \in 1 .. Len(buf') => buf'[i] = Tokens(r, sent[r])[q]
                      /\ i > Len(buf') => wire'[i - Len(buf')] = Tokens(r, sent[r])[q]
    BY DEF Laid
  <2>1. E[r - 1] \in Nat /\ Len(Tokens(r, sent[r])) \in Nat
    BY Requests
  <2>0. E[r - 1] + Len(Tokens(r, sent[r])) =< E[Len(sent)]
    <3>1. r - 1 \in 0 .. Len(sent) /\ r \in 0 .. Len(sent)
      BY <1>1
    <3>2. E[r] \in Nat
      BY <3>1 DEF IsIndex
    <3> QED
      BY <3>2, Requests
  <2>q. /\ E[r - 1] \in Int /\ Parsed(E) \in Int /\ E[Len(sent)] \in Int
        /\ q \in Int /\ Len(Tokens(r, sent[r])) \in Int /\ q =< Len(Tokens(r, sent[r]))
    BY <1>1, <2>1
  <2>i. i = E[r - 1] + q - Parsed(E)
    BY <1>8
  <2>2. i \in Int /\ i = E[r - 1] + q - Parsed(E)
    BY ONLY <2>q, <2>i, Located
  <2>3. /\ i \in 1 .. Len(buf) => buf[i] = Tokens(r, sent[r])[q]
        /\ i > Len(buf) => wire[i - Len(buf)] = Tokens(r, sent[r])[q]
    BY ONLY Laid(E), <2>2, r \in 1 .. Len(sent), q \in 1 .. Len(Tokens(r, sent[r])), Place
  <2>4. ASSUME i \in 1 .. Len(buf') PROVE buf'[i] = Tokens(r, sent[r])[q]
    <3>1. CASE i =< Len(buf)
      <4>1. i \in 1 .. Len(buf)
        BY <1>1, <2>2, <2>4, <3>1
      <4> QED
        BY <2>3, <4>1
    <3>2. CASE i > Len(buf)
      <4>1. i \in Len(buf) + 1 .. Len(buf) + m
        BY <1>1, <2>2, <2>4, <3>2
      <4> QED
        BY <2>3, <3>2, <4>1
    <3> QED
      BY <1>1, <2>2, <3>1, <3>2
  <2>5. ASSUME i > Len(buf') PROVE wire'[i - Len(buf')] = Tokens(r, sent[r])[q]
    <3>1. i > Len(buf) /\ i - Len(buf) = m + (i - Len(buf'))
      <4>1. /\ i \in Int /\ Len(buf) \in Int /\ m \in Int /\ m >= 0
            /\ Len(wire) \in Int /\ Len(buf') = Len(buf) + m
        BY <1>1, <2>2
      <4> QED
        BY ONLY <2>5, <4>1, StillOnTheWire
    <3>2. i - Len(buf') \in 1 .. Len(wire) - m
      <4>1. i =< Len(buf) + Len(wire)
        <5>1. i + Parsed(E) = E[r - 1] + q /\ E[r - 1] + q \in Int
          BY ONLY <2>i, <2>q, Located
        <5>2. E[r - 1] + q =< E[Len(sent)]
          BY ONLY <2>0, <2>q, Within
        <5>3. /\ i \in Int /\ E[r - 1] + q \in Int /\ E[Len(sent)] \in Int
              /\ Parsed(E) \in Int /\ Len(buf) + Len(wire) \in Int
          BY ONLY <1>1, <2>2, <2>q, <5>1
        <5> QED
          BY ONLY <1>0, <5>1, <5>2, <5>3, Bound
      <4>2. /\ i \in Int /\ Len(buf) \in Int /\ m \in Int /\ m >= 0
            /\ Len(wire) \in Int /\ Len(buf') = Len(buf) + m
        BY <1>1, <2>2
      <4> QED
        BY ONLY <2>5, <4>1, <4>2, StillOnTheWire
    <3> QED
      BY <2>3, <3>1, <3>2
  <2> QED
    BY <2>4, <2>5
<1>10. IsIndex(E)'
  BY DEF IsIndex
<1> QED
  BY <1>8, <1>9, <1>10

LEMMA Advance ==
    ASSUME TypeOK, NEW E, IsIndex(E), Laid(E), Framed,
           NEW m \in 0 .. Len(buf), buf' = Rest(m), UNCHANGED <<sent, wire>>
    PROVE  /\ IsIndex(E)' /\ Laid(E)' /\ Parsed(E)' = Parsed(E) + m
           /\ buf' \in Seq(AllTokens) /\ AllTokens' = AllTokens
<1>1. buf \in Seq(AllTokens)
  BY DEF TypeOK
<1>2. /\ Rest(m) \in Seq(AllTokens) /\ Len(Rest(m)) = Len(buf) - m
      /\ \A i \in 1 .. Len(buf) - m : Rest(m)[i] = buf[m + i]
  BY <1>1, RestIs DEF Rest
<1>3. UNCHANGED sent /\ UNCHANGED wire
  OBVIOUS
<1>4. IsIndex(E)' /\ Laid(E)' /\ Parsed(E)' = Parsed(E) + m
  BY <1>2, <1>3, Taken
<1> QED
  BY <1>2, <1>4 DEF AllTokens

\* A read moves tokens from the wire to the buffer.
LEMMA ReadKeeps ==
    ASSUME TypeOK, NEW E, IsIndex(E), Laid(E), Framed, NEW m \in 0 .. Len(wire),
           buf' = buf \o SubSeq(wire, 1, m), wire' = SubSeq(wire, m + 1, Len(wire)),
           UNCHANGED sent
    PROVE  /\ IsIndex(E)' /\ Laid(E)' /\ Parsed(E)' = Parsed(E)
           /\ buf' \in Seq(AllTokens) /\ wire' \in Seq(AllTokens) /\ AllTokens' = AllTokens
<1>1. buf \in Seq(AllTokens) /\ wire \in Seq(AllTokens)
  BY DEF TypeOK
<1> DEFINE a == SubSeq(wire, 1, m)
<1>2. a \in Seq(AllTokens) /\ Len(a) = m /\ \A i \in 1 .. m : a[i] = wire[i]
  BY <1>1, FirstIs
<1>3. /\ wire' \in Seq(AllTokens) /\ Len(wire') = Len(wire) - m
      /\ \A i \in 1 .. Len(wire) - m : wire'[i] = wire[m + i]
  BY <1>1, RestIs
<1>4. buf' = buf \o a
  OBVIOUS
<1> HIDE DEF a
<1>5. /\ buf \o a \in Seq(AllTokens) /\ Len(buf \o a) = Len(buf) + Len(a)
      /\ \A i \in 1 .. Len(buf) + Len(a) :
            (buf \o a)[i] = IF i <= Len(buf) THEN buf[i] ELSE a[i - Len(buf)]
  BY <1>1, <1>2, ConcatProperties
<1>6. Len(buf) \in Nat /\ Len(wire) \in Nat /\ m \in Nat
  BY <1>1, LenProperties
<1>7. \A i \in 1 .. Len(buf) : buf'[i] = buf[i]
  BY <1>2, <1>4, <1>5, <1>6
<1>8. \A i \in Len(buf) + 1 .. Len(buf) + m : buf'[i] = wire[i - Len(buf)]
  <2>1. \A i \in Len(buf) + 1 .. Len(buf) + m :
           i - Len(buf) \in 1 .. m /\ i \in 1 .. Len(buf) + m /\ ~(i <= Len(buf))
    BY <1>6
  <2> QED
    BY <1>2, <1>4, <1>5, <2>1
<1>9. Len(buf') = Len(buf) + m /\ buf' \in Seq(AllTokens)
  BY <1>2, <1>4, <1>5
<1>10. IsIndex(E)' /\ Laid(E)' /\ Parsed(E)' = Parsed(E)
  BY <1>3, <1>7, <1>8, <1>9, Arrived
<1> QED
  BY <1>3, <1>9, <1>10 DEF AllTokens

-------------------------------------------------------------------------------
(* What the parser finds in front of it. *)

LEMMA Position ==
    ASSUME TypeOK, NEW E, ParserInv(E), fate = "open"
    PROVE  /\ Framed /\ IsIndex(E) /\ Laid(E) /\ Synced(E)
           /\ Len(sent) \in Nat /\ Len(served) \in Nat /\ Len(buf) \in Nat /\ Len(wire) \in Nat
           /\ Len(served) =< Len(sent) /\ E[Len(served)] \in Nat /\ E[Len(sent)] \in Nat
           /\ Parsed(E) \in Int /\ Into(E) \in Int /\ Parsed(E) = E[Len(served)] + Into(E)
           /\ Current \in Nat /\ Current >= 1 /\ Current - 1 = Len(served)
<1>1. Framed /\ IsIndex(E) /\ Laid(E) /\ Synced(E)
  BY DEF ParserInv
<1>2. /\ Len(sent) \in Nat /\ Len(served) \in Nat /\ Len(buf) \in Nat /\ Len(wire) \in Nat
      /\ Len(served) =< Len(sent) /\ E[Len(served)] \in Nat /\ E[Len(sent)] \in Nat
      /\ Parsed(E) \in Int
  BY <1>1, Lengths
<1>3. Into(E) \in Int /\ Parsed(E) = E[Len(served)] + Into(E)
  BY <1>2 DEF Into
<1>4. Current \in Nat /\ Current >= 1 /\ Current - 1 = Len(served)
  BY <1>2 DEF Current
<1> QED
  BY <1>1, <1>2, <1>3, <1>4

LEMMA CurrentRequest ==
    ASSUME TypeOK, NEW E, ParserInv(E), fate = "open", Current =< Len(sent)
    PROVE  /\ Current \in 1 .. Len(sent) /\ sent[Current] \in Shape /\ sent[Current] \in Shapes
           /\ Len(sent[Current].headers) \in Nat /\ sent[Current].body \in Nat
           /\ Len(Tokens(Current, sent[Current]))
                = Len(sent[Current].headers) + 2 + sent[Current].body
           /\ E[Current] = E[Len(served)] + Len(Tokens(Current, sent[Current]))
<1>1. /\ IsIndex(E) /\ Current \in Nat /\ Current >= 1 /\ Current - 1 = Len(served)
      /\ Len(sent) \in Nat
  BY Position
<1>2. Current \in 1 .. Len(sent)
  BY <1>1
<1> QED
  BY <1>1, <1>2, Requests

LEMMA Ahead ==
    ASSUME TypeOK, NEW E, ParserInv(E), fate = "open", Current =< Len(sent), Into(E) \in Nat,
           NEW i \in 1 .. Len(buf), Into(E) + i =< Len(Tokens(Current, sent[Current]))
    PROVE  buf[i] = Tokens(Current, sent[Current])[Into(E) + i]
<1>1. /\ Framed /\ IsIndex(E) /\ Laid(E) /\ Parsed(E) = E[Len(served)] + Into(E)
      /\ Len(served) \in Nat /\ Len(sent) \in Nat
  BY Position
<1>2. Len(served) < Len(sent)
  BY <1>1 DEF Current
<1> DEFINE n == Into(E)
<1>3. n \in Nat /\ Parsed(E) = E[Len(served)] + n
  BY <1>1
<1>4. n + i =< Len(Tokens(Len(served) + 1, sent[Len(served) + 1]))
  BY DEF Current
<1> HIDE DEF n
<1>5. buf[i] = Tokens(Len(served) + 1, sent[Len(served) + 1])[n + i]
  BY <1>1, <1>2, <1>3, <1>4, InFront
<1> QED
  BY <1>5 DEF n, Current

LEMMA FirstLine ==
    ASSUME TypeOK, 1 \in 1 .. Len(buf), IsLine(buf[1])
    PROVE  LineEnd = 1 /\ Line = buf[1] /\ Whole
<1>1. LineEnd = 1
  <2> DEFINE I == {i \in 1 .. Len(buf) : IsLine(buf[i])}
  <2>1. 1 \in I /\ I \subseteq Nat /\ \A i \in I : 1 =< i
    <3>1. Len(buf) \in Nat
      BY LenProperties DEF TypeOK
    <3> QED
      BY <3>1
  <2>2. LineEnd = IF I # {} THEN CHOOSE x \in I : \A y \in I : x =< y ELSE 0
    BY DEF LineEnd, SelectInSeq, Min
  <2> HIDE DEF I
  <2>3. \A x \in I : (\A y \in I : x =< y) => x = 1
    BY <2>1
  <2>4. (CHOOSE x \in I : \A y \in I : x =< y) = 1
    BY <2>1, <2>3
  <2> QED
    BY <2>1, <2>2, <2>4
<1> QED
  BY <1>1 DEF Line, Whole

\* In front of the parser, where it looks for a line, there is one: nothing of a
\* body is ever left over.
LEMMA HeadIsLine ==
    ASSUME TypeOK, NEW E, ParserInv(E), fate = "open", HasLine,
           state \in {"kExpectRequestLine", "kExpectHeaders"}
    PROVE  /\ Current =< Len(sent) /\ 1 \in 1 .. Len(buf)
           /\ LineEnd = 1 /\ Whole
           /\ Into(E) \in 0 .. Len(sent[Current].headers) + 1
           /\ Into(E) = 0 => Line = Token(Current, "line", sent[Current].line)
           /\ Into(E) \in 1 .. Len(sent[Current].headers) =>
                 Line = Token(Current, "header", sent[Current].headers[Into(E)])
           /\ Into(E) = Len(sent[Current].headers) + 1 => Line = Token(Current, "blank", "")
<1> DEFINE n == Into(E)
           T == Tokens(Current, sent[Current])
           h == Len(sent[Current].headers)
<1>1. /\ Synced(E) /\ Len(sent) \in Nat /\ Len(served) \in Nat /\ Len(buf) \in Nat
      /\ Len(wire) \in Nat /\ Len(served) =< Len(sent)
      /\ Parsed(E) = E[Len(served)] + n /\ E[Len(sent)] \in Nat
      /\ Current \in Nat /\ Current - 1 = Len(served)
  BY Position
<1>2. 1 \in 1 .. Len(buf)
  BY <1>1 DEF HasLine
<1>3. AtRequestLine(E) \/ AtHeaders(E) \/ Astray(E)
  BY <1>1 DEF Synced, AtBody, AtEnd
<1>4. Current =< Len(sent)
  <2>1. CASE AtRequestLine(E)
    <3>1. n = 0
      BY <2>1 DEF AtRequestLine
    <3>2. SUFFICES ASSUME Len(served) = Len(sent) PROVE FALSE
      BY <1>1
    <3>3. Parsed(E) = E[Len(sent)]
      BY <1>1, <3>1, <3>2
    <3>4. E[Len(sent)] - Len(buf) - Len(wire) = E[Len(sent)]
      BY <3>3 DEF Parsed
    <3> QED
      BY <1>1, <1>2, <3>4
  <2> QED
    BY <1>3, <2>1 DEF AtHeaders, Astray
<1>5. h \in Nat /\ sent[Current].body \in Nat /\ Len(T) = h + 2 + sent[Current].body
  BY <1>4, CurrentRequest
<1>6. n \in 0 .. h + 1
  <2>1. n = 0 \/ n \in 1 .. h + 1
    BY <1>3 DEF AtRequestLine, AtHeaders, Astray
  <2> HIDE DEF n, h
  <2> QED
    BY <1>5, <2>1
<1>7. buf[1] = T[n + 1]
  <2>1. Into(E) \in Nat /\ Into(E) + 1 =< Len(T)
    <3>1. n \in Nat /\ n + 1 =< Len(T)
      <4> HIDE DEF n, h, T
      <4> QED
        BY <1>5, <1>6
    <3> QED
      BY <3>1
  <2> QED
    BY <1>2, <1>4, <2>1, Ahead
<1>8. /\ T[1] = Token(Current, "line", sent[Current].line)
      /\ \A q \in 2 .. h + 1 : T[q] = Token(Current, "header", sent[Current].headers[q - 1])
      /\ T[h + 2] = Token(Current, "blank", "")
  BY <1>1, <1>4, CurrentRequest, TokensAre
<1> HIDE DEF n, T, h
<1>9. /\ n = 0 => buf[1] = Token(Current, "line", sent[Current].line)
      /\ n \in 1 .. h => buf[1] = Token(Current, "header", sent[Current].headers[n])
      /\ n = h + 1 => buf[1] = Token(Current, "blank", "")
  <2>1. ASSUME n \in 1 .. h PROVE buf[1] = Token(Current, "header", sent[Current].headers[n])
    <3>1. n + 1 \in 2 .. h + 1 /\ (n + 1) - 1 = n
      BY <1>5, <2>1
    <3> QED
      BY <1>7, <1>8, <3>1
  <2>2. ASSUME n = h + 1 PROVE buf[1] = Token(Current, "blank", "")
    <3>1. n + 1 = h + 2
      BY <1>5, <2>2
    <3> QED
      BY <1>7, <1>8, <3>1
  <2>3. n = 0 => n + 1 = 1
    OBVIOUS
  <2> QED
    BY <1>7, <1>8, <2>1, <2>2, <2>3
<1>10. IsLine(buf[1])
  <2>1. n = 0 \/ n \in 1 .. h \/ n = h + 1
    BY <1>5, <1>6
  <2>2. buf[1].part \in {"line", "header", "blank"}
    <3>1. \/ buf[1] = Token(Current, "line", sent[Current].line)
          \/ buf[1] = Token(Current, "header", sent[Current].headers[n])
          \/ buf[1] = Token(Current, "blank", "")
      BY <1>9, <2>1
    <3>2. \A p, x : buf[1] = Token(Current, p, x) => buf[1].part = p
      BY TokenFields
    <3> QED
      BY <3>1, <3>2
  <2> QED
    BY <2>2 DEF IsLine
<1>11. LineEnd = 1 /\ Line = buf[1] /\ Whole
  BY <1>2, <1>10, FirstLine
<1> QED
  BY <1>2, <1>4, <1>6, <1>9, <1>11 DEF n, h

-------------------------------------------------------------------------------
(* What a step of the parser leaves alone. *)

Response == [to : Nat, code : {200, 400, 403, 404, 405, 413, 505},
             body : {"error", "text", "file", ""}]

\* The two halves of TypeOK: the tokens, and the rest.
Streams ==
    /\ sent \in Seq(Shapes) /\ wire \in Seq(AllTokens) /\ buf \in Seq(AllTokens)
    /\ req \subseteq AllTokens /\ served \in Seq(SUBSET AllTokens)

Flags ==
    /\ piped \in BOOLEAN /\ cut \in BOOLEAN /\ parsing \in BOOLEAN
    /\ state \in States /\ (~parsing => state # "KGotCompleteRequest")
    /\ error \in {"none", "bad", "method", "version"} /\ contentLength \in Nat
    /\ responses \in Seq(Response) /\ fate \in {"open", "closed", "thrown"}

LEMMA TypeHalves == TypeOK <=> Streams /\ Flags
<1>1. TypeOK => Streams
  BY DEF TypeOK, Streams
<1>2. TypeOK => Flags
  BY DEF TypeOK, Flags, Response
<1>3. Streams /\ Flags => TypeOK
  BY DEF TypeOK, Streams, Flags, Response
<1> QED
  BY <1>1, <1>2, <1>3

LEMMA ResponseTypes == TypeOK => responses \in Seq(Response)
BY TypeHalves DEF Flags

LEMMA Stays ==
    ASSUME NEW E, IsIndex(E), Laid(E), UNCHANGED <<clientVars, buf>>
    PROVE  IsIndex(E)' /\ Laid(E)' /\ Parsed(E)' = Parsed(E) /\ AllTokens' = AllTokens
BY DEF IsIndex, Laid, Parsed, AllTokens, clientVars

LEMMA Moved ==
    ASSUME TypeOK, NEW E, ParserInv(E), fate = "open", NEW m \in 0 .. Len(buf),
           buf' = Rest(m), UNCHANGED clientVars, served' = served
    PROVE  /\ Framed' /\ IsIndex(E)' /\ Laid(E)' /\ Into(E)' = Into(E) + m
           /\ Current' = Current /\ sent' = sent
           /\ buf' \in Seq(AllTokens) /\ AllTokens' = AllTokens
<1>1. /\ Framed /\ IsIndex(E) /\ Laid(E) /\ E[Len(served)] \in Nat /\ Parsed(E) \in Int
      /\ Len(buf) \in Nat
  BY Position
<1>2. sent' = sent /\ UNCHANGED <<sent, wire>>
  BY DEF clientVars
<1>3. /\ IsIndex(E)' /\ Laid(E)' /\ Parsed(E)' = Parsed(E) + m
      /\ buf' \in Seq(AllTokens) /\ AllTokens' = AllTokens
  BY <1>1, <1>2, Advance
<1>4. Into(E)' = Into(E) + m
  <2>1. E[Len(served)]' = E[Len(served)]
    OBVIOUS
  <2> QED
    BY <1>1, <1>3, <2>1 DEF Into
<1>5. Framed' /\ Current' = Current
  BY <1>1, <1>2 DEF Framed, Current
<1> QED
  BY <1>2, <1>3, <1>4, <1>5

LEMMA Refuses ==
    ASSUME TypeOK, NEW e \in {"bad", "method", "version"}, Refuse(e),
           state # "KGotCompleteRequest"
    PROVE  /\ served' = served /\ responses' \in Seq(Response)
           /\ state' \in States /\ state' # "KGotCompleteRequest" /\ contentLength' \in Nat
           /\ fate' \in {"open", "closed", "thrown"}
           /\ e = "bad" => fate' = "closed"
           /\ e # "bad" => /\ state' = "kExpectRequestLine" /\ contentLength' = 0
                           /\ fate' = fate
<1>1. responses \in Seq(Response) /\ state \in States /\ contentLength \in Nat
      /\ fate \in {"open", "closed", "thrown"}
  BY DEF TypeOK, Response
<1>2. Error(0, RefusalCode(e)) \in Response
  BY DEF Error, RefusalCode, Response
<1>3. responses' \in Seq(Response)
  BY <1>1, <1>2, AppendProperties DEF Refuse
<1> QED
  BY <1>1, <1>3 DEF Refuse, Reset, States

-------------------------------------------------------------------------------
(* The types, whatever the lines read as. *)

\* A set of numbers that is not empty has a least one.
LEMMA MinIsLeast ==
    ASSUME NEW S \in SUBSET Nat, S # {}
    PROVE  Min(S) \in S /\ \A n \in S : Min(S) =< n
<1>1. PICK m \in S : \A n \in S : ~(<<n, m>> \in OpToRel(<, Nat))
  BY NatLessThanWellFounded, WFMin, Zenon
<1>2. \A n \in S : n < m => <<n, m>> \in OpToRel(<, Nat)
  BY ZenonT(30) DEF OpToRel
<1>3. \A n \in S : ~(n < m)
  BY <1>1, <1>2, Zenon
<1>4. \A n \in S : m =< n
  BY <1>3
<1> QED
  BY <1>4 DEF Min

\* What findCrlf finds was sent by the client.
LEMMA LineIsToken ==
    ASSUME TypeOK, HasLine
    PROVE  LineEnd \in 1 .. Len(buf) /\ Line \in AllTokens /\ IsLine(Line)
<1> DEFINE I == {i \in 1 .. Len(buf) : IsLine(buf[i])}
<1>1. buf \in Seq(AllTokens) /\ Len(buf) \in Nat
  BY LenProperties DEF TypeOK
<1>2. I \in SUBSET Nat /\ I # {} /\ LineEnd = Min(I)
  BY <1>1 DEF HasLine, LineEnd, SelectInSeq
<1>3. LineEnd \in I
  BY <1>2, MinIsLeast
<1>4. LineEnd \in 1 .. Len(buf) /\ IsLine(buf[LineEnd])
  BY <1>3
<1> QED
  BY <1>1, <1>4, ElementOfSeq DEF Line

LEMMA TokenTypes ==
    ASSUME NEW t \in AllTokens
    PROVE  /\ t.req \in 1 .. Len(sent)
           /\ t.part = "line" => t.says \in Verdicts
           /\ \A v \in Verdicts : Token(t.req, "line", v) \in AllTokens
BY DEF AllTokens, Token

LEMMA RestTypes ==
    ASSUME TypeOK, NEW m \in 0 .. Len(buf)
    PROVE  Rest(m) \in Seq(AllTokens)
BY RestIs DEF TypeOK, Rest

LEMMA BodyLength ==
    ASSUME TypeOK, NEW r \in 1 .. Len(sent)
    PROVE  sent[r].body \in Nat
<1>1. sent[r] \in Shape
  BY ElementOfSeq, ShapesAssumption DEF TypeOK
<1> QED
  BY <1>1 DEF Shape

\* A step of the parser leaves what the client has sent alone.
LEMMA ParserTyped ==
    ASSUME TypeOK, UNCHANGED clientVars, buf' \in Seq(AllTokens), req' \subseteq AllTokens,
           served' \in Seq(SUBSET AllTokens), parsing' \in BOOLEAN, state' \in States,
           ~parsing' => state' # "KGotCompleteRequest",
           error' \in {"none", "bad", "method", "version"}, contentLength' \in Nat,
           responses' \in Seq(Response), fate' \in {"open", "closed", "thrown"}
    PROVE  TypeOK'
<1>1. sent' = sent /\ piped' = piped /\ wire' = wire /\ cut' = cut
  BY DEF clientVars
<1>2. AllTokens' = AllTokens
  BY <1>1 DEF AllTokens
<1>a. Streams'
  BY <1>1, <1>2 DEF TypeOK, Streams
<1>b. Flags'
  BY <1>1 DEF TypeOK, Flags, States
<1> QED
  BY ONLY <1>a, <1>b DEF TypeOK, Streams, Flags, Response

LEMMA NeedMoreTypes ==
    ASSUME TypeOK, NeedMore
    PROVE  TypeOK'
<1>1. state # "KGotCompleteRequest" /\ state \in States
  BY DEF NeedMore, Insufficient, TypeOK
<1>2. /\ served' = served /\ responses' \in Seq(Response)
      /\ state' \in States /\ state' # "KGotCompleteRequest" /\ contentLength' \in Nat
      /\ fate' \in {"open", "closed", "thrown"}
  <2>1. CASE error = "none"
    <3>1. /\ state' = state /\ contentLength' = contentLength /\ served' = served
          /\ responses' = responses /\ fate' = fate
      BY <2>1 DEF NeedMore, outVars
    <3>2. contentLength \in Nat /\ fate \in {"open", "closed", "thrown"}
      BY DEF TypeOK
    <3> QED
      BY <1>1, <3>1, <3>2, ResponseTypes
  <2>2. CASE error # "none"
    <3>1. error \in {"bad", "method", "version"} /\ Refuse(error)
      BY <2>2 DEF NeedMore, TypeOK
    <3> QED
      BY <1>1, <3>1, Refuses
  <2> QED
    BY <2>1, <2>2
<1>3. UNCHANGED <<clientVars, buf, error, req>> /\ parsing' = FALSE
  BY DEF NeedMore
<1>4. /\ buf \in Seq(AllTokens) /\ req \subseteq AllTokens /\ served \in Seq(SUBSET AllTokens)
      /\ error \in {"none", "bad", "method", "version"}
  BY DEF TypeOK
<1> QED
  BY <1>2, <1>3, <1>4, ParserTyped

LEMMA TakeRequestLineTypes ==
    ASSUME TypeOK, TakeRequestLine
    PROVE  TypeOK' /\ \A v \in RequestLineSays : v \in Verdicts
<1>1. /\ HasLine /\ parsing /\ state = "kExpectRequestLine" /\ buf' = Rest(LineEnd)
      /\ UNCHANGED clientVars
  BY DEF TakeRequestLine
<1>2. LineEnd \in 1 .. Len(buf) /\ Line \in AllTokens
  BY <1>1, LineIsToken
<1>3. \A v \in RequestLineSays : v \in Verdicts
  BY <1>2, TokenTypes DEF RequestLineSays, Verdicts
<1>4. buf' \in Seq(AllTokens)
  <2>1. LineEnd \in 0 .. Len(buf)
    BY <1>2
  <2> QED
    BY <1>1, <2>1, RestTypes
<1>5. PICK verdict \in RequestLineSays :
         IF verdict = "ok"
         THEN /\ state' = "kExpectHeaders" /\ req' = {Token(Line.req, "line", "ok")}
              /\ UNCHANGED <<error, contentLength, parsing, outVars>>
         ELSE /\ error' = verdict /\ Refuse(verdict)
              /\ parsing' = FALSE /\ UNCHANGED req
  BY DEF TakeRequestLine
<1>6. /\ req \subseteq AllTokens /\ served \in Seq(SUBSET AllTokens)
      /\ error \in {"none", "bad", "method", "version"} /\ contentLength \in Nat
      /\ responses \in Seq(Response) /\ fate \in {"open", "closed", "thrown"}
  BY DEF TypeOK, Response
<1>7. CASE verdict = "ok"
  <2>1. req' \subseteq AllTokens
    BY <1>2, <1>5, <1>7, TokenTypes DEF Verdicts
  <2>2. /\ state' \in States /\ state' # "KGotCompleteRequest" /\ error' = error
        /\ contentLength' = contentLength /\ parsing' = parsing /\ served' = served
        /\ responses' = responses /\ fate' = fate
    BY <1>5, <1>7 DEF States, outVars
  <2> QED
    BY <1>1, <1>3, <1>4, <1>6, <2>1, <2>2, ParserTyped
<1>8. CASE verdict # "ok"
  <2>1. verdict \in {"bad", "method", "version"} /\ state # "KGotCompleteRequest"
    BY <1>1, <1>3, <1>8 DEF Verdicts
  <2>2. error' = verdict /\ Refuse(verdict) /\ parsing' = FALSE /\ req' = req
    BY <1>5, <1>8
  <2>3. /\ served' = served /\ responses' \in Seq(Response)
        /\ state' \in States /\ state' # "KGotCompleteRequest" /\ contentLength' \in Nat
        /\ fate' \in {"open", "closed", "thrown"}
    BY <2>1, <2>2, Refuses
  <2> QED
    BY <1>1, <1>3, <1>4, <1>6, <2>1, <2>2, <2>3, ParserTyped
<1> QED
  BY <1>7, <1>8

LEMMA TakeHeaderTypes ==
    ASSUME TypeOK, TakeHeader
    PROVE  TypeOK'
<1>1. /\ HasLine /\ parsing /\ state = "kExpectHeaders" /\ buf' = Rest(LineEnd)
      /\ UNCHANGED clientVars
  BY DEF TakeHeader
<1>2. LineEnd \in 1 .. Len(buf) /\ Line \in AllTokens /\ Line.req \in 1 .. Len(sent)
  BY <1>1, LineIsToken, TokenTypes
<1>3. buf' \in Seq(AllTokens)
  <2>1. LineEnd \in 0 .. Len(buf)
    BY <1>2
  <2> QED
    BY <1>1, <2>1, RestTypes
<1>4. PICK verdict \in HeaderSays :
         CASE verdict \in {"broken", "alikeBroken"} ->
                /\ error' = "bad" /\ Refuse("bad")
                /\ parsing' = FALSE /\ UNCHANGED req
           [] verdict = "notANumber" ->
                /\ fate' = "thrown" /\ parsing' = FALSE
                /\ UNCHANGED <<ctxVars, req, served, responses>>
           [] OTHER ->
                /\ req' = req \cup {Line}
                /\ contentLength' = IF verdict = "length" THEN sent[Line.req].body
                                                          ELSE contentLength
                /\ UNCHANGED <<state, error, parsing, outVars>>
  BY DEF TakeHeader
<1>5. /\ req \subseteq AllTokens /\ served \in Seq(SUBSET AllTokens)
      /\ error \in {"none", "bad", "method", "version"} /\ contentLength \in Nat
      /\ responses \in Seq(Response) /\ fate \in {"open", "closed", "thrown"}
      /\ state \in States /\ state # "KGotCompleteRequest"
  BY <1>1 DEF TypeOK, Response
<1>6. CASE verdict \in {"broken", "alikeBroken"}
  <2>1. error' = "bad" /\ Refuse("bad") /\ parsing' = FALSE /\ req' = req
    BY <1>4, <1>6
  <2>2. /\ served' = served /\ responses' \in Seq(Response)
        /\ state' \in States /\ state' # "KGotCompleteRequest" /\ contentLength' \in Nat
        /\ fate' \in {"open", "closed", "thrown"}
    BY <1>5, <2>1, Refuses
  <2> QED
    BY <1>1, <1>3, <1>5, <2>1, <2>2, ParserTyped
<1>7. CASE verdict = "notANumber"
  <2>1. /\ fate' = "thrown" /\ parsing' = FALSE /\ req' = req /\ served' = served
        /\ responses' = responses /\ state' = state /\ error' = error
        /\ contentLength' = contentLength
    BY <1>4, <1>7 DEF ctxVars
  <2> QED
    BY <1>1, <1>3, <1>5, <2>1, ParserTyped
<1>8. CASE verdict \notin {"broken", "alikeBroken", "notANumber"}
  <2>1. /\ req' = req \cup {Line} /\ state' = state /\ error' = error /\ parsing' = parsing
        /\ contentLength' = IF verdict = "length" THEN sent[Line.req].body ELSE contentLength
        /\ served' = served /\ responses' = responses /\ fate' = fate
    BY <1>4, <1>8 DEF outVars
  <2>2. contentLength' \in Nat
    BY <1>2, <1>5, <2>1, BodyLength
  <2> QED
    BY <1>1, <1>2, <1>3, <1>5, <2>1, <2>2, ParserTyped
<1> QED
  BY <1>6, <1>7, <1>8

LEMMA BodyTypes ==
    ASSUME TypeOK, EndHeaders \/ TakeBody \/ Dispatch
    PROVE  TypeOK'
<1>1. /\ buf \in Seq(AllTokens) /\ req \subseteq AllTokens /\ served \in Seq(SUBSET AllTokens)
      /\ error \in {"none", "bad", "method", "version"} /\ contentLength \in Nat
      /\ responses \in Seq(Response) /\ fate \in {"open", "closed", "thrown"}
      /\ Len(buf) \in Nat
  BY LenProperties DEF TypeOK, Response
<1>2. CASE EndHeaders
  <2>1. 1 \in 0 .. Len(buf) /\ parsing
    BY <1>1, <1>2 DEF EndHeaders, HasLine
  <2>2. /\ buf' \in Seq(AllTokens) /\ UNCHANGED clientVars /\ state' \in States
        /\ error' = error /\ contentLength' = contentLength /\ parsing' = parsing
        /\ req' = req /\ served' = served /\ responses' = responses /\ fate' = fate
    BY <1>2, <2>1, RestTypes DEF EndHeaders, States, outVars
  <2> QED
    BY <1>1, <2>1, <2>2, ParserTyped
<1>3. CASE TakeBody
  <2>1. contentLength \in 0 .. Len(buf) /\ parsing
    BY <1>1, <1>3 DEF TakeBody, HasBody
  <2>2. /\ buf' = Rest(contentLength) /\ UNCHANGED clientVars /\ state' \in States
        /\ req' = req \cup ToSet(SubSeq(buf, 1, contentLength))
        /\ error' = error /\ contentLength' = contentLength /\ parsing' = parsing
        /\ served' = served /\ responses' = responses /\ fate' = fate
    BY <1>3 DEF TakeBody, States, outVars
  <2>3. buf' \in Seq(AllTokens)
    BY <2>1, <2>2, RestTypes
  <2>4. ToSet(SubSeq(buf, 1, contentLength)) \subseteq AllTokens
    <3> DEFINE a == SubSeq(buf, 1, contentLength)
    <3>1. a \in Seq(AllTokens)
      BY <1>1, <2>1, FirstIs
    <3> HIDE DEF a
    <3>2. ToSet(a) \subseteq AllTokens
      BY <3>1, LenProperties, ElementOfSeq DEF ToSet
    <3> QED
      BY <3>2 DEF a
  <2> QED
    BY <1>1, <2>1, <2>2, <2>3, <2>4, ParserTyped
<1>4. CASE Dispatch
  <2>1. /\ UNCHANGED <<clientVars, buf, error, req, responses, fate>> /\ parsing' = FALSE
        /\ state' = "kExpectRequestLine" /\ contentLength' = 0
        /\ served' = Append(served, req)
    BY <1>4 DEF Dispatch, Reset
  <2>2. served' \in Seq(SUBSET AllTokens)
    BY <1>1, <2>1, AppendProperties
  <2>3. state' \in States /\ state' # "KGotCompleteRequest"
    BY <2>1 DEF States
  <2> QED
    BY <1>1, <2>1, <2>2, <2>3, ParserTyped
<1> QED
  BY <1>2, <1>3, <1>4

LEMMA HandleReadTypes ==
    ASSUME TypeOK, NEW n \in 0 .. Len(wire), HandleRead(n)
    PROVE  TypeOK'
<1>1. /\ cut' \in BOOLEAN /\ buf' = buf \o SubSeq(wire, 1, n)
      /\ wire' = SubSeq(wire, n + 1, Len(wire)) /\ parsing' = TRUE /\ req' = {}
      /\ sent' = sent /\ piped' = piped /\ state' = state /\ error' = error
      /\ contentLength' = contentLength /\ served' = served
      /\ responses' = responses /\ fate' = fate
  BY DEF HandleRead, ctxVars, outVars
<1>2. wire \in Seq(AllTokens) /\ buf \in Seq(AllTokens) /\ AllTokens' = AllTokens
  BY <1>1 DEF TypeOK, AllTokens
<1>3. SubSeq(wire, 1, n) \in Seq(AllTokens) /\ wire' \in Seq(AllTokens)
  BY <1>1, <1>2, FirstIs, RestIs
<1>4. buf' \in Seq(AllTokens)
  BY <1>1, <1>2, <1>3, ConcatProperties
<1>a. Streams'
  BY ONLY TypeOK, TypeHalves, <1>1, <1>2, <1>3, <1>4 DEF Streams
<1>b. Flags'
  BY ONLY TypeOK, TypeHalves, <1>1 DEF Flags, States
<1> QED
  BY ONLY <1>a, <1>b DEF TypeOK, Streams, Flags, Response

\* A new request is more of everything.
LEMMA Appended ==
    ASSUME TypeOK, NEW s \in Shapes, ClientSends(s)
    PROVE  /\ sent \in Seq(Shapes) /\ sent' \in Seq(Shapes) /\ Len(sent') = Len(sent) + 1
           /\ Len(sent) \in Nat
           /\ \A r \in 1 .. Len(sent) : sent'[r] = sent[r]
           /\ sent'[Len(sent) + 1] = s
           /\ AllTokens \subseteq AllTokens'
           /\ Tokens(Len(sent) + 1, s) \in Seq(AllTokens')
           /\ wire \in Seq(AllTokens') /\ buf \in Seq(AllTokens')
<1>1. sent \in Seq(Shapes) /\ wire \in Seq(AllTokens) /\ buf \in Seq(AllTokens)
  BY DEF TypeOK
<1>2. Len(sent) \in Nat /\ sent' = Append(sent, s)
  BY <1>1, LenProperties DEF ClientSends
<1>3. /\ sent' \in Seq(Shapes) /\ Len(sent') = Len(sent) + 1
      /\ \A r \in 1 .. Len(sent) : sent'[r] = sent[r]
      /\ sent'[Len(sent) + 1] = s
  BY <1>1, <1>2, AppendProperties
<1>4. AllTokens \subseteq AllTokens' /\ TokensOf(Len(sent) + 1) \subseteq AllTokens'
  <2>1. 1 .. Len(sent) \subseteq 1 .. Len(sent') /\ {Len(sent) + 1} \subseteq 1 .. Len(sent')
    BY <1>2, <1>3
  <2> QED
    BY <2>1 DEF AllTokens, TokensOf
<1>5. Tokens(Len(sent) + 1, s) \in Seq(AllTokens')
  <2>1. Len(sent) + 1 \in Nat /\ s \in Shape
    BY <1>2, ShapesAssumption
  <2>2. Tokens(Len(sent) + 1, s) \in Seq(TokensOf(Len(sent) + 1))
    BY <2>1, TokensAre
  <2> QED
    BY <1>4, <2>2, SeqMonotonic
<1>6. wire \in Seq(AllTokens') /\ buf \in Seq(AllTokens')
  BY <1>1, <1>4, SeqMonotonic
<1> QED
  BY <1>1, <1>2, <1>3, <1>4, <1>5, <1>6

LEMMA ClientSendsTypes ==
    ASSUME TypeOK, NEW s \in Shapes, ClientSends(s)
    PROVE  TypeOK'
<1>1. /\ sent' = Append(sent, s) /\ wire' = wire \o Tokens(Len(sent) + 1, s)
      /\ piped' = (piped \/ Unanswered) /\ cut' = cut /\ buf' = buf /\ state' = state
      /\ error' = error /\ contentLength' = contentLength /\ parsing' = parsing /\ req' = req
      /\ served' = served /\ responses' = responses /\ fate' = fate
  BY DEF ClientSends, ctxVars, outVars
<1>2. /\ sent' \in Seq(Shapes) /\ AllTokens \subseteq AllTokens'
      /\ wire \in Seq(AllTokens') /\ buf \in Seq(AllTokens')
      /\ Tokens(Len(sent) + 1, s) \in Seq(AllTokens')
  BY Appended
<1>3. served \in Seq(SUBSET (AllTokens'))
  <2>1. served \in Seq(SUBSET AllTokens) /\ SUBSET AllTokens \subseteq SUBSET (AllTokens')
    BY <1>2 DEF TypeOK
  <2> QED
    BY <2>1, SeqMonotonic
<1>4. wire' \in Seq(AllTokens')
  BY <1>1, <1>2, ConcatProperties
<1>5. piped' \in BOOLEAN /\ req' \subseteq AllTokens'
  BY <1>1, <1>2 DEF TypeOK, Unanswered
<1>a. Streams'
  BY ONLY TypeOK, TypeHalves, <1>1, <1>2, <1>3, <1>4, <1>5 DEF Streams
<1>b. Flags'
  BY ONLY TypeOK, TypeHalves, <1>1, <1>5 DEF Flags, States
<1> QED
  BY ONLY <1>a, <1>b DEF TypeOK, Streams, Flags, Response

LEMMA NextTypes ==
    ASSUME TypeOK, Next
    PROVE  TypeOK'
BY ClientSendsTypes, HandleReadTypes, NeedMoreTypes, TakeRequestLineTypes, TakeHeaderTypes,
   BodyTypes DEF Next, Parse

-------------------------------------------------------------------------------
(* Where each step takes the parser. *)

LEMMA NeedMoreKeeps ==
    ASSUME TypeOK, NEW E, ParserInv(E), NeedMore
    PROVE  ParserInv(E)'
<1>1. fate = "open" /\ parsing /\ ~parsing' /\ parsing' \in BOOLEAN /\ error' = error /\ req' = req
  BY DEF ParserInv, NeedMore
<1>2. Framed /\ IsIndex(E) /\ Laid(E) /\ Synced(E)
  BY <1>1, Position
<1>3. state \in {"kExpectRequestLine", "kExpectHeaders", "kExpectBody"}
  BY DEF NeedMore, Insufficient
<1>4. AtRequestLine(E) \/ AtHeaders(E) \/ AtBody(E) \/ Astray(E)
  BY <1>2, <1>3 DEF Synced, AtEnd
<1>5. UNCHANGED <<clientVars, buf>> /\ UNCHANGED <<sent, piped, wire, cut, buf>>
  BY DEF NeedMore, clientVars
<1>6. IsIndex(E)' /\ Laid(E)' /\ Parsed(E)' = Parsed(E) /\ AllTokens' = AllTokens
  BY <1>2, <1>5, Stays
<1>7. /\ served' = served /\ responses' \in Seq(Response)
      /\ state' \in States /\ state' # "KGotCompleteRequest" /\ contentLength' \in Nat
      /\ fate' = "open"
      /\ state' = state /\ (error = "none" => contentLength' = contentLength)
      /\ (error # "none" => contentLength' = 0)
  <2>1. CASE error = "none"
    <3>1. UNCHANGED <<state, contentLength, outVars>>
      BY <2>1 DEF NeedMore
    <3> QED
      BY <1>1, <1>3, <2>1, <3>1 DEF outVars, TypeOK, Response
  <2>2. CASE error # "none"
    <3>1. Astray(E) /\ Refuse(error)
      BY <1>4, <2>2 DEF NeedMore, AtRequestLine, AtHeaders, AtBody
    <3>2. error \in {"method", "version"} /\ state = "kExpectRequestLine"
      BY <3>1 DEF Astray
    <3> QED
      BY <1>1, <2>2, <3>1, <3>2, Refuses
  <2> QED
    BY <2>1, <2>2
<1>9. Framed' /\ Into(E)' = Into(E) /\ Current' = Current
  BY <1>2, <1>5, <1>6, <1>7 DEF Framed, Into, Current
<1>10. Synced(E)'
  <2>1. AtRequestLine(E) => AtRequestLine(E)'
    BY <1>1, <1>7, <1>9 DEF AtRequestLine
  <2>2. AtHeaders(E) => AtHeaders(E)'
    BY <1>1, <1>5, <1>7, <1>9 DEF AtHeaders
  <2>3. AtBody(E) => AtBody(E)'
    BY <1>1, <1>5, <1>7, <1>9 DEF AtBody
  <2>4. Astray(E) => Astray(E)'
    BY <1>1, <1>5, <1>7, <1>9 DEF Astray
  <2> QED
    BY <1>4, <2>1, <2>2, <2>3, <2>4 DEF Synced
<1> QED
  BY <1>6, <1>7, <1>9, <1>10 DEF ParserInv

LEMMA RequestLineSaysOf ==
    ASSUME TypeOK, NEW E, ParserInv(E), fate = "open", HasLine, state = "kExpectRequestLine",
           Conforming
    PROVE  /\ Into(E) = 0 => RequestLineSays = {sent[Current].line}
           /\ Into(E) # 0 => RequestLineSays \subseteq {"bad", "method", "version"}
           /\ Into(E) = Len(sent[Current].headers) + 1 => RequestLineSays \subseteq {"bad"}
<1> DEFINE n == Into(E)
           h == Len(sent[Current].headers)
<1>1. /\ Whole /\ n \in 0 .. h + 1
      /\ n = 0 => Line = Token(Current, "line", sent[Current].line)
      /\ n \in 1 .. h => Line = Token(Current, "header", sent[Current].headers[n])
      /\ n = h + 1 => Line = Token(Current, "blank", "")
  BY HeadIsLine
<1>2. h \in Nat
  BY HeadIsLine, CurrentRequest
<1> HIDE DEF n, h
<1>3. n = 0 \/ n \in 1 .. h \/ n = h + 1
  <2>1. n \in 0 .. h + 1
    BY <1>1
  <2> QED
    BY <1>2, <2>1
<1>0. \A p, x : Line = Token(Current, p, x) => Line.part = p /\ Line.says = x
  BY TokenFields
<1>4. n = 0 => Line.part = "line" /\ Line.says = sent[Current].line
  BY <1>0, <1>1
<1>5. n \in 1 .. h => Line.part = "header" /\ Line.says \notin Lookalikes
  <2> SUFFICES ASSUME n \in 1 .. h
               PROVE  Line.part = "header" /\ Line.says \notin Lookalikes
    OBVIOUS
  <2>1. Line.part = "header" /\ Line.says = sent[Current].headers[n]
    BY <1>0, <1>1
  <2>2. Current \in 1 .. Len(sent) /\ DOMAIN sent[Current].headers = 1 .. h
    <3>1. Current \in 1 .. Len(sent) /\ sent[Current] \in Shape
      BY HeadIsLine, CurrentRequest
    <3>2. sent[Current].headers \in Seq(HeaderKinds)
      BY <3>1 DEF Shape
    <3> QED
      BY <3>1, <3>2, LenProperties DEF h
  <2>3. sent[Current].headers[n] \in ToSet(sent[Current].headers)
    BY <2>2 DEF ToSet
  <2> QED
    BY <2>1, <2>2, <2>3 DEF Conforming
<1>6. n = h + 1 => Line.part = "blank"
  BY <1>0, <1>1
<1>10. Line.part = "line" => RequestLineSays = {Line.says}
  BY <1>1 DEF RequestLineSays
<1>11. Line.part = "blank" => RequestLineSays = {"bad"}
  BY <1>1 DEF RequestLineSays
<1>12. Line.part = "header" /\ Line.says \notin Lookalikes
         => RequestLineSays = {"bad", "method", "version"}
  BY <1>1 DEF RequestLineSays
<1>7. n # 0 => RequestLineSays \subseteq {"bad", "method", "version"}
  BY <1>3, <1>5, <1>6, <1>11, <1>12
<1>8. n = 0 => RequestLineSays = {sent[Current].line}
  BY <1>4, <1>10
<1>9. n = h + 1 => RequestLineSays \subseteq {"bad"}
  BY <1>6, <1>11
<1> QED
  BY <1>7, <1>8, <1>9 DEF n, h

LEMMA TakeRequestLineKeeps ==
    ASSUME TypeOK, NEW E, ParserInv(E), TakeRequestLine, Conforming
    PROVE  ParserInv(E)'
<1>1. /\ fate = "open" /\ parsing /\ HasLine /\ state = "kExpectRequestLine"
      /\ UNCHANGED <<sent, piped, wire, cut>> /\ UNCHANGED clientVars /\ buf' = Rest(LineEnd)
  BY DEF ParserInv, TakeRequestLine, clientVars
<1>2. /\ Current =< Len(sent) /\ 1 \in 1 .. Len(buf) /\ LineEnd = 1
      /\ Into(E) \in 0 .. Len(sent[Current].headers) + 1
      /\ Into(E) = 0 => Line = Token(Current, "line", sent[Current].line)
  BY <1>1, HeadIsLine
<1>3. /\ sent[Current] \in Shape /\ Len(sent[Current].headers) \in Nat
  BY <1>1, <1>2, CurrentRequest
<1>4. AtRequestLine(E) \/ Astray(E)
  <2>1. Synced(E)
    BY <1>1, Position
  <2> QED
    BY <1>1, <2>1 DEF Synced, AtHeaders, AtBody, AtEnd
<1>5. /\ Into(E) = 0 => RequestLineSays = {sent[Current].line}
      /\ Into(E) # 0 => RequestLineSays \subseteq {"bad", "method", "version"}
      /\ Into(E) = Len(sent[Current].headers) + 1 => RequestLineSays \subseteq {"bad"}
  BY <1>1, RequestLineSaysOf
<1>6. PICK verdict \in RequestLineSays :
         IF verdict = "ok"
         THEN /\ state' = "kExpectHeaders" /\ req' = {Token(Line.req, "line", "ok")}
              /\ UNCHANGED <<error, contentLength, parsing, outVars>>
         ELSE /\ error' = verdict /\ Refuse(verdict)
              /\ parsing' = FALSE /\ UNCHANGED req
  BY DEF TakeRequestLine
<1>7. verdict \in {"ok", "bad", "method", "version"}
  BY <1>3, <1>5 DEF Shape, Verdicts
<1>8. served' = served
  BY <1>6 DEF Refuse, outVars
<1>9. /\ Framed' /\ IsIndex(E)' /\ Laid(E)' /\ Into(E)' = Into(E) + 1
      /\ Current' = Current /\ sent' = sent
      /\ buf' \in Seq(AllTokens) /\ AllTokens' = AllTokens
  <2>1. buf' = Rest(1) /\ 1 \in 0 .. Len(buf)
    BY <1>1, <1>2
  <2> QED
    BY <1>1, <1>8, <2>1, Moved
<1>10. CASE verdict = "ok"
  <2>1. /\ state' = "kExpectHeaders" /\ req' = {Token(Line.req, "line", "ok")}
        /\ error' = error
        /\ contentLength' = contentLength /\ parsing' = parsing
        /\ responses' = responses /\ fate' = fate
    BY <1>6, <1>10 DEF outVars
  <2>2. Into(E) = 0
    BY <1>5, <1>10
  <2>3. AtRequestLine(E)
    BY <1>4, <2>2 DEF Astray
  <2>4. Line = Token(Current, "line", sent[Current].line)
    BY <1>2, <2>2
  <2>5. Line.req = Current
    BY <2>4, TokenFields
  <2>6. OwnLines'
    BY <1>9, <2>1, <2>5 DEF OwnLines, Bodies, Token
  <2>7. Into(E)' = 1 /\ contentLength' = 0 /\ error' = "none"
    BY <1>9, <2>1, <2>2, <2>3 DEF AtRequestLine
  <2>8. 1 \in 1 .. Len(sent[Current].headers) + 1 /\ 1 .. 1 - 1 = {}
    BY <1>3
  <2>9. AtHeaders(E)'
    BY <1>2, <1>9, <2>1, <2>6, <2>7, <2>8 DEF AtHeaders
  <2> QED
    BY <1>1, <1>9, <2>1, <2>9 DEF ParserInv, Synced
<1>11. CASE verdict # "ok"
  <2>1. error' = verdict /\ Refuse(verdict) /\ parsing' = FALSE /\ req' = req
    BY <1>6, <1>11
  <2>2. verdict \in {"bad", "method", "version"} /\ state # "KGotCompleteRequest"
    BY <1>1, <1>7, <1>11
  <2>3. /\ responses' \in Seq(Response)
        /\ state' \in States /\ state' # "KGotCompleteRequest" /\ contentLength' \in Nat
        /\ fate' \in {"open", "closed", "thrown"}
        /\ verdict = "bad" => fate' = "closed"
        /\ verdict # "bad" => /\ state' = "kExpectRequestLine" /\ contentLength' = 0
                              /\ fate' = fate
    BY <2>1, <2>2, Refuses
  <2>5. verdict # "bad" => Astray(E)'
    <3> SUFFICES ASSUME verdict # "bad" PROVE Astray(E)'
      OBVIOUS
    <3>1. Into(E) # Len(sent[Current].headers) + 1
      BY <1>5
    <3> DEFINE n == Into(E)
               h == Len(sent[Current].headers)
    <3>2. n \in 0 .. h + 1 /\ n # h + 1 /\ h \in Nat
      BY <1>2, <1>3, <3>1
    <3> HIDE DEF n, h
    <3>3. n + 1 \in 1 .. h + 1
      BY <3>2
    <3>4. Into(E)' \in 1 .. Len(sent[Current].headers) + 1
      BY <1>9, <3>3 DEF n, h
    <3> QED
      BY <1>2, <1>9, <2>1, <2>2, <2>3, <3>4 DEF Astray
  <2>6. fate' = "open" => Synced(E)'
    BY <2>3, <2>5 DEF Synced
  <2> QED
    BY <1>9, <2>1, <2>6 DEF ParserInv
<1> QED
  BY <1>10, <1>11

\* Among the headers, the line in front is the next header or the empty line.
LEMMA LineAmongHeaders ==
    ASSUME TypeOK, NEW E, ParserInv(E), fate = "open", HasLine, state = "kExpectHeaders"
    PROVE  /\ AtHeaders(E) /\ Current \in 1 .. Len(sent) /\ 1 \in 1 .. Len(buf) /\ LineEnd = 1
           /\ Whole /\ Len(sent[Current].headers) \in Nat
           /\ Line.part # "blank" =>
                 /\ Into(E) \in 1 .. Len(sent[Current].headers)
                 /\ Line = Token(Current, "header", sent[Current].headers[Into(E)])
                 /\ HeaderSays = {sent[Current].headers[Into(E)]}
           /\ Line.part = "blank" => Into(E) = Len(sent[Current].headers) + 1
<1> DEFINE n == Into(E)
           h == Len(sent[Current].headers)
<1>1. /\ Current =< Len(sent) /\ 1 \in 1 .. Len(buf) /\ LineEnd = 1 /\ Whole
      /\ n \in 1 .. h => Line = Token(Current, "header", sent[Current].headers[n])
      /\ n = h + 1 => Line = Token(Current, "blank", "")
  BY HeadIsLine
<1>2. AtHeaders(E)
  <2>1. Synced(E)
    BY Position
  <2> QED
    BY <2>1 DEF Synced, AtRequestLine, AtBody, AtEnd, Astray
<1>3. h \in Nat /\ Current \in 1 .. Len(sent)
  BY <1>1, CurrentRequest
<1>4. n \in 1 .. h + 1
  BY <1>2 DEF AtHeaders
<1> HIDE DEF n, h
<1>5. n \in 1 .. h \/ n = h + 1
  BY <1>3, <1>4
<1>6. \A p, x : Line = Token(Current, p, x) => Line.part = p /\ Line.says = x
  BY TokenFields
<1>7. n \in 1 .. h => /\ Line.part = "header" /\ Line.says = sent[Current].headers[n]
                      /\ Line = Token(Current, "header", sent[Current].headers[n])
  BY <1>1, <1>6
<1>8. n = h + 1 => Line.part = "blank"
  BY <1>1, <1>6
<1>9. Line.part # "blank" =>
          /\ n \in 1 .. h /\ Line = Token(Current, "header", sent[Current].headers[n])
          /\ HeaderSays = {sent[Current].headers[n]}
  BY <1>1, <1>5, <1>7, <1>8 DEF HeaderSays
<1>10. Line.part = "blank" => n = h + 1
  BY <1>5, <1>7
<1> QED
  BY <1>1, <1>2, <1>3, <1>9, <1>10 DEF n, h

LEMMA TakeHeaderKeeps ==
    ASSUME TypeOK, NEW E, ParserInv(E), TakeHeader
    PROVE  ParserInv(E)'
<1>1. /\ fate = "open" /\ parsing /\ HasLine /\ state = "kExpectHeaders"
      /\ ~(Whole /\ Line.part = "blank")
      /\ UNCHANGED <<sent, piped, wire, cut>> /\ UNCHANGED clientVars /\ buf' = Rest(LineEnd)
  BY DEF ParserInv, TakeHeader, clientVars
<1>2. /\ AtHeaders(E) /\ Current \in 1 .. Len(sent) /\ 1 \in 1 .. Len(buf) /\ LineEnd = 1
      /\ Len(sent[Current].headers) \in Nat /\ Current =< Len(sent)
      /\ Into(E) \in 1 .. Len(sent[Current].headers)
      /\ Line = Token(Current, "header", sent[Current].headers[Into(E)])
      /\ HeaderSays = {sent[Current].headers[Into(E)]}
  BY <1>1, LineAmongHeaders DEF AtHeaders
<1>3. /\ sent[Current] \in Shape /\ sent[Current].body \in Nat
      /\ sent[Current].headers[Into(E)] \in HeaderKinds
  <2>1. sent[Current] \in Shape /\ sent[Current].body \in Nat
    BY <1>1, <1>2, CurrentRequest
  <2>2. sent[Current].headers \in Seq(HeaderKinds)
    BY <2>1 DEF Shape
  <2> QED
    BY <1>2, <2>1, <2>2, ElementOfSeq
<1>4. PICK verdict \in HeaderSays :
         CASE verdict \in {"broken", "alikeBroken"} ->
                /\ error' = "bad" /\ Refuse("bad")
                /\ parsing' = FALSE /\ UNCHANGED req
           [] verdict = "notANumber" ->
                /\ fate' = "thrown" /\ parsing' = FALSE
                /\ UNCHANGED <<ctxVars, req, served, responses>>
           [] OTHER ->
                /\ req' = req \cup {Line}
                /\ contentLength' = IF verdict = "length" THEN sent[Line.req].body
                                                          ELSE contentLength
                /\ UNCHANGED <<state, error, parsing, outVars>>
  BY DEF TakeHeader
<1>5. verdict = sent[Current].headers[Into(E)]
  BY <1>2, <1>3
<1>6. CASE verdict \in {"broken", "alikeBroken"}
  <2>1. error' = "bad" /\ Refuse("bad") /\ parsing' = FALSE /\ req' = req
    BY <1>4, <1>6
  <2>2. /\ served' = served /\ responses' \in Seq(Response)
        /\ state' \in States /\ state' # "KGotCompleteRequest" /\ contentLength' \in Nat
        /\ fate' = "closed"
    BY <1>1, <2>1, Refuses
  <2>3. /\ Framed' /\ IsIndex(E)' /\ Laid(E)' /\ buf' \in Seq(AllTokens)
        /\ AllTokens' = AllTokens
    <3>1. buf' = Rest(1) /\ 1 \in 0 .. Len(buf)
      BY <1>1, <1>2
    <3> QED
      BY <1>1, <2>2, <3>1, Moved
  <2> QED
    BY <2>1, <2>2, <2>3 DEF ParserInv
<1>7. CASE verdict = "notANumber"
  <2>1. /\ fate' = "thrown" /\ parsing' = FALSE /\ req' = req /\ served' = served
        /\ responses' = responses /\ state' = state /\ error' = error
        /\ contentLength' = contentLength
    BY <1>4, <1>7 DEF ctxVars
  <2>2. /\ Framed' /\ IsIndex(E)' /\ Laid(E)' /\ buf' \in Seq(AllTokens)
        /\ AllTokens' = AllTokens
    <3>1. buf' = Rest(1) /\ 1 \in 0 .. Len(buf)
      BY <1>1, <1>2
    <3> QED
      BY <1>1, <2>1, <3>1, Moved
  <2> QED
    BY <2>1, <2>2 DEF ParserInv
<1>8. CASE verdict \notin {"broken", "alikeBroken", "notANumber"}
  <2>1. /\ req' = req \cup {Line} /\ state' = state /\ error' = error /\ parsing' = parsing
        /\ contentLength' = IF verdict = "length" THEN sent[Line.req].body ELSE contentLength
        /\ served' = served /\ responses' = responses /\ fate' = fate
    BY <1>4, <1>8 DEF outVars
  <2>2. /\ Framed' /\ IsIndex(E)' /\ Laid(E)' /\ Into(E)' = Into(E) + 1
        /\ Current' = Current /\ sent' = sent
        /\ buf' \in Seq(AllTokens) /\ AllTokens' = AllTokens
    <3>1. buf' = Rest(1) /\ 1 \in 0 .. Len(buf)
      BY <1>1, <1>2
    <3> QED
      BY <1>1, <2>1, <3>1, Moved
  <2>3. Line.req = Current /\ Line.part = "header"
    BY <1>2, TokenFields
  <2>6. OwnLines'
    <3>1. OwnLines
      BY <1>1, <1>2 DEF AtHeaders
    <3> QED
      BY <2>1, <2>2, <2>3, <3>1 DEF OwnLines, Bodies
  <2>7. contentLength' = IF \E i \in 1 .. Into(E) : sent[Current].headers[i] = "length"
                         THEN sent[Current].body ELSE 0
    <3> DEFINE n == Into(E)
               hs == sent[Current].headers
               b == sent[Current].body
    <3>1. contentLength = IF \E i \in 1 .. n - 1 : hs[i] = "length" THEN b ELSE 0
      BY <1>2 DEF AtHeaders
    <3>2. n \in Nat /\ n >= 1
      BY <1>2
    <3>3. contentLength' = IF hs[n] = "length" THEN b ELSE contentLength
      BY <1>5, <2>1, <2>3
    <3> HIDE DEF n, hs, b
    <3>4. 1 .. n = (1 .. n - 1) \cup {n}
      BY <3>2
    <3>5. (\E i \in 1 .. n : hs[i] = "length")
            <=> (hs[n] = "length" \/ \E i \in 1 .. n - 1 : hs[i] = "length")
      BY <3>4
    <3>6. contentLength' = IF \E i \in 1 .. n : hs[i] = "length" THEN b ELSE 0
      BY <3>1, <3>3, <3>5
    <3> QED
      BY <3>6 DEF n, hs, b
  <2>8. AtHeaders(E)'
    <3> DEFINE n == Into(E)
               h == Len(sent[Current].headers)
    <3>1. n \in 1 .. h /\ h \in Nat
      BY <1>2
    <3> HIDE DEF n, h
    <3>2. n + 1 \in 1 .. h + 1 /\ (n + 1) - 1 = n
      BY <3>1
    <3>3. Into(E)' \in 1 .. Len(sent[Current].headers) + 1 /\ Into(E)' - 1 = Into(E)
      BY <2>2, <3>2 DEF n, h
    <3>4. error' = "none" /\ state' = "kExpectHeaders" /\ Current' =< Len(sent)'
      BY <1>2, <2>1, <2>2 DEF AtHeaders
    <3>5. contentLength' = IF \E i \in 1 .. Into(E)' - 1 : sent[Current].headers[i] = "length"
                           THEN sent[Current].body ELSE 0
      BY <2>7, <3>3
    <3> QED
      BY <2>2, <2>6, <3>3, <3>4, <3>5 DEF AtHeaders
  <2> QED
    BY <1>1, <2>1, <2>2, <2>8 DEF ParserInv, Synced
<1> QED
  BY <1>6, <1>7, <1>8

LEMMA EndHeadersKeeps ==
    ASSUME TypeOK, NEW E, ParserInv(E), EndHeaders
    PROVE  ParserInv(E)'
<1>1. /\ fate = "open" /\ parsing /\ HasLine /\ state = "kExpectHeaders"
      /\ Line.part = "blank" /\ buf' = Rest(1)
      /\ UNCHANGED <<sent, piped, wire, cut>> /\ UNCHANGED clientVars
      /\ state' = IF contentLength > 0 THEN "kExpectBody" ELSE "KGotCompleteRequest"
      /\ error' = error /\ contentLength' = contentLength /\ parsing' = parsing
      /\ req' = req /\ served' = served /\ responses' = responses /\ fate' = fate
  BY DEF ParserInv, EndHeaders, clientVars, outVars
<1>2. /\ AtHeaders(E) /\ Current \in 1 .. Len(sent) /\ 1 \in 1 .. Len(buf)
      /\ Current =< Len(sent) /\ OwnLines /\ error = "none"
      /\ Into(E) = Len(sent[Current].headers) + 1
  BY <1>1, LineAmongHeaders DEF AtHeaders
<1>3. /\ sent[Current] \in Shape /\ sent[Current] \in Shapes
      /\ Len(sent[Current].headers) \in Nat /\ sent[Current].body \in Nat
      /\ Len(Tokens(Current, sent[Current])) = Len(sent[Current].headers) + 2 + sent[Current].body
  BY <1>1, <1>2, CurrentRequest
<1>4. /\ Framed' /\ IsIndex(E)' /\ Laid(E)' /\ Into(E)' = Into(E) + 1
      /\ Current' = Current /\ sent' = sent
      /\ buf' \in Seq(AllTokens) /\ AllTokens' = AllTokens
  <2>1. 1 \in 0 .. Len(buf)
    BY <1>2
  <2> QED
    BY <1>1, <2>1, Moved
<1>6. contentLength = sent[Current].body
  <2> DEFINE hs == sent[Current].headers
             b == sent[Current].body
  <2>1. contentLength = IF \E i \in 1 .. Into(E) - 1 : hs[i] = "length" THEN b ELSE 0
    BY <1>2 DEF AtHeaders
  <2>2. Into(E) - 1 = Len(hs)
    BY <1>2, <1>3
  <2>3. (b > 0) <=> "length" \in ToSet(hs)
    BY <1>3, ShapesAssumption
  <2>4. DOMAIN hs = 1 .. Len(hs) /\ b \in Nat
    BY <1>3, LenProperties DEF Shape
  <2> HIDE DEF hs, b
  <2>5. "length" \in ToSet(hs) <=> \E i \in 1 .. Len(hs) : hs[i] = "length"
    BY <2>4 DEF ToSet
  <2>6. contentLength = IF b > 0 THEN b ELSE 0
    BY <2>1, <2>2, <2>3, <2>5
  <2>7. contentLength = b
    BY <2>4, <2>6
  <2> QED
    BY <2>7 DEF b
<1>7. Into(E)' = Len(sent[Current].headers) + 2
  BY <1>2, <1>3, <1>4
<1>8. OwnLines'
  BY <1>1, <1>2, <1>4 DEF OwnLines, Bodies
<1>9. Synced(E)'
  <2>1. CASE contentLength > 0
    BY <1>1, <1>2, <1>4, <1>6, <1>7, <1>8, <2>1 DEF Synced, AtBody
  <2>2. CASE ~(contentLength > 0)
    <3>1. state' = "KGotCompleteRequest" /\ error' = "none" /\ Current' =< Len(sent)'
      BY <1>1, <1>2, <1>4, <2>2
    <3>2. sent[Current].body = 0
      BY <1>3, <1>6, <2>2
    <3>3. Into(E)' = Len(Tokens(Current, sent[Current]))
      BY <1>3, <1>7, <3>2
    <3>4. Bodies(ToSet(Tokens(Current, sent[Current]))) = {}
      <4>1. Current \in Nat /\ ~(sent[Current].body > 0)
        BY <1>1, <3>2, Position
      <4> QED
        BY <1>3, <4>1, BodiesAre
    <3>5. (\A t \in req' : t.req = Current) /\ Bodies(req') = {}
      BY <1>1, <1>2 DEF OwnLines
    <3>6. AtEnd(E)'
      BY <1>4, <3>1, <3>3, <3>4, <3>5 DEF AtEnd, Bodies, ToSet
    <3> QED
      BY <3>6 DEF Synced
  <2> QED
    BY <2>1, <2>2
<1> QED
  BY <1>1, <1>4, <1>9 DEF ParserInv

LEMMA TakeBodyKeeps ==
    ASSUME TypeOK, NEW E, ParserInv(E), TakeBody
    PROVE  ParserInv(E)'
<1>1. /\ fate = "open" /\ parsing /\ state = "kExpectBody" /\ Len(buf) >= contentLength
      /\ req' = req \cup ToSet(SubSeq(buf, 1, contentLength)) /\ buf' = Rest(contentLength)
      /\ UNCHANGED <<sent, piped, wire, cut>> /\ UNCHANGED clientVars
      /\ state' = "KGotCompleteRequest"
      /\ error' = error /\ contentLength' = contentLength /\ parsing' = parsing
      /\ served' = served /\ responses' = responses /\ fate' = fate
  BY DEF ParserInv, TakeBody, HasBody, clientVars, outVars
<1>2. Len(buf) \in Nat /\ Current \in Nat /\ Synced(E) /\ buf \in Seq(AllTokens)
  BY <1>1, Position DEF TypeOK
<1>3. AtBody(E)
  BY <1>1, <1>2 DEF Synced, AtRequestLine, AtHeaders, AtEnd, Astray
<1> DEFINE h == Len(sent[Current].headers)
           b == sent[Current].body
           T == Tokens(Current, sent[Current])
<1>4. /\ Current =< Len(sent) /\ Into(E) = h + 2 /\ contentLength = b /\ b > 0
      /\ OwnLines /\ error = "none"
  BY <1>1, <1>3 DEF AtBody
<1>5. /\ Current \in 1 .. Len(sent) /\ sent[Current] \in Shape
      /\ h \in Nat /\ b \in Nat /\ Len(T) = h + 2 + b
  BY <1>1, <1>4, CurrentRequest
<1>6. /\ Framed' /\ IsIndex(E)' /\ Laid(E)' /\ Into(E)' = Into(E) + contentLength
      /\ Current' = Current /\ sent' = sent
      /\ buf' \in Seq(AllTokens) /\ AllTokens' = AllTokens
  <2>1. contentLength \in 0 .. Len(buf)
    BY <1>1, <1>2, <1>4, <1>5
  <2> QED
    BY <1>1, <2>1, Moved
<1>7. ASSUME NEW i \in 1 .. b PROVE buf[i] = Token(Current, "body", "")
  <2>1. i \in 1 .. Len(buf) /\ Into(E) \in Nat /\ Into(E) + i =< Len(T)
    <3>1. i \in 1 .. Len(buf) /\ h + 2 \in Nat /\ h + 2 + i =< Len(T)
      <4> HIDE DEF h, b, T
      <4> QED
        BY <1>1, <1>2, <1>4, <1>5
    <3> QED
      BY <1>4, <3>1
  <2>2. buf[i] = T[Into(E) + i]
    BY <1>1, <1>4, <2>1, Ahead
  <2>3. \A q \in h + 3 .. h + 2 + b : T[q] = Token(Current, "body", "")
    BY <1>2, <1>5, TokensAre
  <2> HIDE DEF h, b, T
  <2>4. h + 2 + i \in h + 3 .. h + 2 + b
    BY <1>5
  <2> QED
    BY <1>4, <2>2, <2>3, <2>4
<1>8. ToSet(SubSeq(buf, 1, contentLength)) = {Token(Current, "body", "")}
  <2> DEFINE a == SubSeq(buf, 1, contentLength)
  <2>1. contentLength \in 0 .. Len(buf)
    BY <1>1, <1>2, <1>4, <1>5
  <2>2. /\ a \in Seq(AllTokens) /\ Len(a) = contentLength
        /\ \A i \in 1 .. contentLength : a[i] = buf[i]
    BY <1>2, <2>1, FirstIs
  <2>3. DOMAIN a = 1 .. contentLength
    BY <2>2, LenProperties
  <2> HIDE DEF a, b
  <2>4. 1 \in 1 .. contentLength
    BY <1>4, <1>5
  <2>6. \A i \in 1 .. contentLength : a[i] = Token(Current, "body", "")
    BY <1>4, <1>7, <2>2
  <2>5. ToSet(a) = {Token(Current, "body", "")}
    BY <2>3, <2>4, <2>6 DEF ToSet
  <2> QED
    BY <2>5 DEF a
<1>9. req' = req \cup {Token(Current, "body", "")}
  BY <1>1, <1>8
<1>12. AtEnd(E)'
  <2>1. Into(E)' = Len(T)
    BY <1>4, <1>5, <1>6
  <2>2. Bodies(ToSet(T)) = {Token(Current, "body", "")}
    BY <1>2, <1>4, <1>5, BodiesAre
  <2>3. /\ \A t \in req' : t.req = Current
        /\ {t \in req' : t.part = "body"} = {Token(Current, "body", "")}
    <3>1. Token(Current, "body", "").req = Current /\ Token(Current, "body", "").part = "body"
      BY DEF Token
    <3>2. (\A t \in req : t.req = Current) /\ \A t \in req : t.part # "body"
      BY <1>4 DEF OwnLines, Bodies
    <3> QED
      BY <1>9, <3>1, <3>2
  <2>4. error' = "none" /\ state' = "KGotCompleteRequest" /\ Current' =< Len(sent)'
    BY <1>1, <1>4, <1>6
  <2>5. Bodies(req)' = Bodies(ToSet(Tokens(Current, sent[Current])))'
    BY <1>6, <2>2, <2>3 DEF Bodies, ToSet
  <2>6. Into(E)' = Len(Tokens(Current, sent[Current]))'
    BY <1>6, <2>1
  <2> QED
    BY <1>6, <2>3, <2>4, <2>5, <2>6 DEF AtEnd
<1> QED
  BY <1>1, <1>6, <1>12 DEF ParserInv, Synced

LEMMA DispatchKeeps ==
    ASSUME TypeOK, NEW E, ParserInv(E), Dispatch
    PROVE  /\ ParserInv(E)' /\ error = "none"
           /\ Len(served') = Len(served) + 1 /\ Len(served) < Len(sent)
<1>1. /\ fate = "open" /\ parsing /\ state = "KGotCompleteRequest"
      /\ state' = "kExpectRequestLine" /\ contentLength' = 0
      /\ served' = Append(served, req) /\ parsing' = FALSE
      /\ UNCHANGED <<sent, piped, wire, cut, buf>> /\ UNCHANGED <<clientVars, buf>>
      /\ error' = error /\ req' = req /\ responses' = responses /\ fate' = fate
  BY DEF ParserInv, Dispatch, Reset, clientVars
<1>2. /\ Framed /\ IsIndex(E) /\ Laid(E) /\ Synced(E) /\ Len(served) \in Nat
      /\ Current \in Nat /\ Current = Len(served) + 1 /\ Parsed(E) = E[Len(served)] + Into(E)
      /\ Len(sent) \in Nat /\ E[Len(served)] \in Nat
  BY <1>1, Position DEF Current
<1>3. AtEnd(E)
  BY <1>1, <1>2 DEF Synced, AtRequestLine, AtHeaders, AtBody, Astray
<1>4. /\ Current =< Len(sent) /\ Into(E) = Len(Tokens(Current, sent[Current])) /\ error = "none"
      /\ \A t \in req : t.req = Current
      /\ Bodies(req) = Bodies(ToSet(Tokens(Current, sent[Current])))
  BY <1>3 DEF AtEnd
<1>5. /\ Current \in 1 .. Len(sent) /\ Len(Tokens(Current, sent[Current])) \in Nat
      /\ E[Current] = E[Len(served)] + Len(Tokens(Current, sent[Current]))
  BY <1>1, <1>4, CurrentRequest
<1>6. IsIndex(E)' /\ Laid(E)' /\ Parsed(E)' = Parsed(E) /\ AllTokens' = AllTokens
  BY <1>1, <1>2, Stays
<1>7. served \in Seq(SUBSET AllTokens) /\ req \in SUBSET AllTokens
  BY DEF TypeOK
<1>8. /\ served' \in Seq(SUBSET AllTokens) /\ Len(served') = Len(served) + 1
      /\ \A k \in 1 .. Len(served) : served'[k] = served[k]
      /\ served'[Len(served) + 1] = req
  BY <1>1, <1>7, AppendProperties
<1>10. Framed'
  <2>1. Len(served') =< Len(sent')
    BY <1>1, <1>2, <1>4, <1>8
  <2>2. ASSUME NEW k \in 1 .. Len(served')
        PROVE  /\ \A t \in served'[k] : t.req = k
               /\ Bodies(served'[k]) = Bodies(ToSet(Tokens(k, sent[k])))
    <3>1. CASE k \in 1 .. Len(served)
      BY <1>2, <1>8, <3>1 DEF Framed
    <3>2. CASE k = Len(served) + 1
      BY <1>2, <1>4, <1>8, <3>2
    <3> QED
      BY <1>2, <1>8, <3>1, <3>2
  <2>3. sent' = sent
    BY <1>1
  <2>4. \A k \in 1 .. Len(served') :
           /\ \A t \in served'[k] : t.req = k
           /\ Bodies(served'[k]) = Bodies(ToSet(Tokens(k, sent'[k])))
    BY ONLY <2>2, <2>3
  <2> QED
    BY ONLY <2>1, <2>4, Zenon DEF Framed, Bodies, ToSet
<1>11. Into(E)' = 0
  <2>1. Parsed(E)' = E[Current]
    BY <1>2, <1>4, <1>5, <1>6
  <2>2. E[Len(served)]' = E[Current] /\ E[Current] \in Int
    BY <1>2, <1>5, <1>8
  <2> QED
    BY <2>1, <2>2 DEF Into
<1>12. AtRequestLine(E)'
  BY <1>1, <1>4, <1>11 DEF AtRequestLine
<1> QED
  BY <1>1, <1>2, <1>4, <1>6, <1>8, <1>10, <1>12 DEF ParserInv, Synced

-------------------------------------------------------------------------------
(* The client and the network. *)

LEMMA HandleReadKeeps ==
    ASSUME TypeOK, NEW E, ParserInv(E), NEW n \in 0 .. Len(wire), HandleRead(n)
    PROVE  ParserInv(E)'
<1>1. /\ fate = "open" /\ ~parsing /\ cut' \in BOOLEAN /\ buf' = buf \o SubSeq(wire, 1, n)
      /\ wire' = SubSeq(wire, n + 1, Len(wire)) /\ parsing' = TRUE /\ req' = {}
      /\ sent' = sent /\ piped' = piped /\ state' = state /\ error' = error
      /\ contentLength' = contentLength /\ served' = served
      /\ responses' = responses /\ fate' = fate
  BY DEF HandleRead, ctxVars, outVars
<1>2. Framed /\ IsIndex(E) /\ Laid(E) /\ Synced(E)
  BY <1>1, Position
<1>3. /\ IsIndex(E)' /\ Laid(E)' /\ Parsed(E)' = Parsed(E)
      /\ buf' \in Seq(AllTokens) /\ wire' \in Seq(AllTokens) /\ AllTokens' = AllTokens
  BY <1>1, <1>2, ReadKeeps
<1>4. Framed' /\ Into(E)' = Into(E) /\ Current' = Current
  BY <1>1, <1>2, <1>3 DEF Framed, Into, Current
<1>6. OwnLines'
  BY <1>1 DEF OwnLines, Bodies
<1>7. Synced(E)'
  <2>1. AtRequestLine(E) => AtRequestLine(E)'
    BY <1>1, <1>4 DEF AtRequestLine
  <2>2. AtHeaders(E) => AtHeaders(E)'
    BY <1>1, <1>4, <1>6 DEF AtHeaders
  <2>3. AtBody(E) => AtBody(E)'
    BY <1>1, <1>4, <1>6 DEF AtBody
  <2>4. Astray(E) => Astray(E)'
    BY <1>1, <1>4 DEF Astray
  <2>5. ~AtEnd(E)
    BY <1>1 DEF AtEnd, TypeOK
  <2> QED
    BY <1>2, <2>1, <2>2, <2>3, <2>4, <2>5 DEF Synced
<1> QED
  BY <1>1, <1>3, <1>4, <1>7 DEF ParserInv

\* A new request lies behind all the others: the stream grows at its end.
Grows(E, F, T) ==
    /\ Len(sent') = Len(sent) + 1 /\ \A r \in 1 .. Len(sent) : sent'[r] = sent[r]
    /\ F \in [0 .. Len(sent) + 1 -> Nat] /\ \A r \in 0 .. Len(sent) : F[r] = E[r]
    /\ T = Tokens(Len(sent) + 1, sent'[Len(sent) + 1])
    /\ F[Len(sent) + 1] = E[Len(sent)] + Len(T)
    /\ Len(wire') = Len(wire) + Len(T) /\ \A i \in 1 .. Len(wire) : wire'[i] = wire[i]
    /\ \A q \in 1 .. Len(T) : wire'[Len(wire) + q] = T[q]
    /\ buf' = buf

LEMMA StreamGrows ==
    ASSUME TypeOK, NEW E, IsIndex(E), Laid(E), Framed, sent' \in Seq(Shapes),
           NEW F, NEW T, Grows(E, F, T)
    PROVE  IsIndex(F)' /\ Laid(F)' /\ Parsed(F)' = Parsed(E)
<1>0. /\ Len(sent') = Len(sent) + 1 /\ \A r \in 1 .. Len(sent) : sent'[r] = sent[r]
      /\ F \in [0 .. Len(sent) + 1 -> Nat] /\ \A r \in 0 .. Len(sent) : F[r] = E[r]
      /\ T = Tokens(Len(sent) + 1, sent'[Len(sent) + 1])
      /\ F[Len(sent) + 1] = E[Len(sent)] + Len(T)
      /\ Len(wire') = Len(wire) + Len(T) /\ \A i \in 1 .. Len(wire) : wire'[i] = wire[i]
      /\ \A q \in 1 .. Len(T) : wire'[Len(wire) + q] = T[q]
      /\ buf' = buf
  BY DEF Grows
<1> USE <1>0
<1>1. /\ Len(sent) \in Nat /\ Len(served) \in Nat /\ Len(buf) \in Nat /\ Len(wire) \in Nat
      /\ E[Len(sent)] \in Nat /\ Parsed(E) \in Int
  BY Lengths
<1>2. Len(T) \in Nat
  <2>0. Len(sent) + 1 \in 1 .. Len(sent')
    BY <1>1
  <2>1. Len(sent) + 1 \in Nat /\ sent'[Len(sent) + 1] \in Shape
    BY <1>1, <2>0, ElementOfSeq, ShapesAssumption
  <2>2. T \in Seq(TokensOf(Len(sent) + 1))
    BY <2>1, TokensAre
  <2> QED
    BY <2>2, LenProperties
<1>3. /\ E \in [0 .. Len(sent) -> Nat] /\ E[0] = 0
      /\ \A r \in 1 .. Len(sent) :
            E[r] = E[r - 1] + Len(Tokens(r, sent[r])) /\ E[r] =< E[Len(sent)]
  BY DEF IsIndex
<1>4. /\ \A r \in 0 .. Len(sent) : F[r] = E[r] /\ F[r] \in Nat
      /\ F[Len(sent) + 1] = E[Len(sent)] + Len(T) /\ F[Len(sent) + 1] \in Nat
  <2>1. /\ \A r \in 0 .. Len(sent) : r \in 0 .. Len(sent) + 1
        /\ Len(sent) + 1 \in 0 .. Len(sent) + 1
    BY <1>1
  <2> QED
    BY <2>1
<1>6. IsIndex(F)'
  <2>1. F \in [0 .. Len(sent') -> Nat] /\ F[0] = 0
    BY <1>1, <1>3, <1>4
  <2>2. ASSUME NEW r \in 1 .. Len(sent')
        PROVE  F[r] = F[r - 1] + Len(Tokens(r, sent'[r])) /\ F[r] =< F[Len(sent')]
    <3>1. CASE r \in 1 .. Len(sent)
      <4>1. r - 1 \in 0 .. Len(sent) /\ r \in 0 .. Len(sent) /\ Len(sent) \in 0 .. Len(sent)
        BY <1>1, <3>1
      <4>2. E[r] = E[r - 1] + Len(Tokens(r, sent[r])) /\ E[r] =< E[Len(sent)]
        BY <1>3, <3>1
      <4>3. F[r] = F[r - 1] + Len(Tokens(r, sent'[r]))
        BY <1>4, <3>1, <4>1, <4>2
      <4>4. F[r] =< F[Len(sent) + 1]
        <5>1. F[r] = E[r] /\ E[r] \in Nat
          BY <1>4, <4>1
        <5>2. E[r] =< E[Len(sent)] + Len(T)
          BY ONLY <1>1, <1>2, <4>2, <5>1
        <5> QED
          BY <1>4, <5>1, <5>2
      <4> QED
        BY <4>3, <4>4
    <3>2. CASE r = Len(sent) + 1
      <4>1. r - 1 = Len(sent) /\ Len(sent) \in 0 .. Len(sent)
        BY <1>1, <3>2
      <4>2. Tokens(r, sent'[r]) = T
        BY <3>2
      <4> QED
        BY <1>1, <1>2, <1>4, <3>2, <4>1, <4>2
    <3> QED
      BY <1>1, <3>1, <3>2
  <2> QED
    BY <2>1, <2>2 DEF IsIndex
<1>7. Parsed(F)' = Parsed(E)
  <2>1. F[Len(sent)]' = E[Len(sent)] + Len(T)
    BY <1>4
  <2> QED
    BY <1>1, <1>2, <2>1 DEF Parsed
<1>8. Laid(F)'
  <2> SUFFICES ASSUME NEW r \in 1 .. Len(sent'), NEW q \in 1 .. Len(Tokens(r, sent'[r])),
                      NEW i, i = F[r - 1] + q - Parsed(F)'
               PROVE  /\ i \in 1 .. Len(buf) => buf[i] = Tokens(r, sent'[r])[q]
                      /\ i > Len(buf) => wire'[i - Len(buf)] = Tokens(r, sent'[r])[q]
    BY DEF Laid
  <2>1. CASE r \in 1 .. Len(sent)
    <3>1. r - 1 \in 0 .. Len(sent) /\ r \in 0 .. Len(sent)
      BY <1>1, <2>1
    <3>2. F[r - 1] = E[r - 1] /\ sent'[r] = sent[r]
      BY <1>4, <2>1, <3>1
    <3>3. q \in 1 .. Len(Tokens(r, sent[r]))
      BY <3>2
    <3>4. E[r - 1] \in Nat /\ Len(Tokens(r, sent[r])) \in Nat
      BY <2>1, Requests
    <3>5. i \in Int /\ i = E[r - 1] + q - Parsed(E)
      <4>1. i = E[r - 1] + q - Parsed(E)
        BY <1>7, <3>2
      <4>2. q \in Int
        BY <3>4, <3>3
      <4> QED
        BY ONLY <1>1, <3>4, <4>1, <4>2
    <3>6. /\ i \in 1 .. Len(buf) => buf[i] = Tokens(r, sent[r])[q]
          /\ i > Len(buf) => wire[i - Len(buf)] = Tokens(r, sent[r])[q]
      BY ONLY Laid(E), <2>1, <3>3, <3>5, Place
    <3>7. ASSUME i > Len(buf) PROVE wire'[i - Len(buf)] = wire[i - Len(buf)]
      <4>q. /\ q \in Nat /\ q =< Len(Tokens(r, sent[r])) /\ Parsed(E) \in Int
            /\ E[Len(sent)] \in Nat
        BY <1>1, <3>3, <3>4
      <4>1. i + Parsed(E) = E[r - 1] + q
        BY ONLY <4>q, <3>4, <3>5
      <4>2. E[r - 1] + q =< E[Len(sent)]
        <5>1. E[r - 1] + Len(Tokens(r, sent[r])) =< E[Len(sent)]
          BY <2>1, Requests
        <5> QED
          BY ONLY <4>q, <3>4, <5>1
      <4>3. E[Len(sent)] =< Parsed(E) + (Len(buf) + Len(wire))
        BY ONLY <1>1 DEF Parsed
      <4>4. /\ i \in Int /\ E[r - 1] + q \in Int /\ E[Len(sent)] \in Int
            /\ Parsed(E) \in Int /\ Len(buf) + Len(wire) \in Int
        <5>1. E[r - 1] + q \in Int
          BY ONLY <4>q, <3>4
        <5> QED
          BY ONLY <1>1, <4>q, <3>5, <5>1
      <4>5. i =< Len(buf) + Len(wire)
        BY ONLY <4>1, <4>2, <4>3, <4>4, Bound
      <4>6. i - Len(buf) \in 1 .. Len(wire)
        BY ONLY <1>1, <3>7, <4>4, <4>5
      <4> QED
        BY <4>6
    <3> QED
      BY <3>2, <3>6, <3>7
  <2>2. CASE r = Len(sent) + 1
    <3>1. r - 1 = Len(sent) /\ Len(sent) \in 0 .. Len(sent) /\ Tokens(r, sent'[r]) = T
      BY <1>1, <2>2
    <3>2. q \in 1 .. Len(T) /\ F[r - 1] = E[Len(sent)]
      BY <1>4, <3>1
    <3>3. i = E[Len(sent)] + q - Parsed(E)
      BY <1>7, <3>2
    <3>4. i = Len(buf) + Len(wire) + q
      <4>1. i = E[Len(sent)] + q - (E[Len(sent)] - Len(buf) - Len(wire))
        BY <3>3 DEF Parsed
      <4>2. /\ E[Len(sent)] \in Int /\ q \in Int /\ Len(buf) \in Int /\ Len(wire) \in Int
        BY <1>1, <1>2, <3>2
      <4>3. \A x, y, z, u \in Int : x + y - (x - z - u) = z + u + y
        OBVIOUS
      <4> QED
        BY ONLY <4>1, <4>2, <4>3
    <3>5. i > Len(buf) /\ i - Len(buf) = Len(wire) + q
      BY ONLY <1>1, <1>2, <3>2, <3>4
    <3>6. wire'[Len(wire) + q] = T[q]
      BY <3>2
    <3>7. ~(i \in 1 .. Len(buf))
      BY ONLY <1>1, <3>5
    <3>8. wire'[i - Len(buf)] = T[q]
      BY ONLY <3>5, <3>6
    <3>9. T[q] = Tokens(r, sent'[r])[q]
      BY <3>1
    <3> QED
      BY ONLY <3>7, <3>8, <3>9
  <2>3. r \in 1 .. Len(sent) \/ r = Len(sent) + 1
    BY <1>1
  <2> QED
    BY <2>1, <2>2, <2>3
<1> QED
  BY <1>6, <1>7, <1>8

LEMMA ClientSendsKeeps ==
    ASSUME TypeOK, NEW E, ParserInv(E), NEW s \in Shapes, ClientSends(s)
    PROVE  \E F : ParserInv(F)'
<1>1. /\ fate = "open" /\ sent' = Append(sent, s) /\ wire' = wire \o Tokens(Len(sent) + 1, s)
      /\ piped' = (piped \/ Unanswered) /\ cut' = cut /\ buf' = buf /\ state' = state
      /\ error' = error /\ contentLength' = contentLength /\ parsing' = parsing /\ req' = req
      /\ served' = served /\ responses' = responses /\ fate' = fate
  BY DEF ClientSends, ctxVars, outVars
<1>2. /\ Framed /\ IsIndex(E) /\ Laid(E) /\ Synced(E) /\ Len(sent) \in Nat /\ Len(served) \in Nat
      /\ Len(served) =< Len(sent) /\ Current \in Nat /\ Current >= 1
  BY <1>1, Position
<1>13. PICK T : T = Tokens(Len(sent) + 1, s)
  OBVIOUS
<1>3. wire \in Seq(AllTokens)
  BY DEF TypeOK
<1>4. /\ sent' \in Seq(Shapes) /\ Len(sent') = Len(sent) + 1
      /\ \A r \in 1 .. Len(sent) : sent'[r] = sent[r]
      /\ sent'[Len(sent) + 1] = s
  BY Appended
<1>6. T \in Seq(AllTokens') /\ wire \in Seq(AllTokens')
  BY <1>13, Appended
<1>9. wire' = wire \o T
  BY <1>1, <1>13
<1>10. /\ wire \o T \in Seq(AllTokens') /\ Len(wire \o T) = Len(wire) + Len(T)
       /\ \A i \in 1 .. Len(wire) + Len(T) :
             (wire \o T)[i] = IF i <= Len(wire) THEN wire[i] ELSE T[i - Len(wire)]
  BY <1>6, ConcatProperties
<1>11. Len(wire) \in Nat /\ Len(T) \in Nat
  BY <1>3, <1>6, LenProperties
<1>12. /\ \A i \in 1 .. Len(wire) : wire'[i] = wire[i]
       /\ \A q \in 1 .. Len(T) : wire'[Len(wire) + q] = T[q]
  <2>1. \A i \in 1 .. Len(wire) : i \in 1 .. Len(wire) + Len(T) /\ i <= Len(wire)
    BY <1>11
  <2>2. \A q \in 1 .. Len(T) : /\ Len(wire) + q \in 1 .. Len(wire) + Len(T)
                               /\ ~(Len(wire) + q <= Len(wire))
                               /\ Len(wire) + q - Len(wire) = q
    BY <1>11
  <2> QED
    BY <1>9, <1>10, <2>1, <2>2
<1>14. Len(wire') = Len(wire) + Len(T)
  BY <1>9, <1>10
<1>15. PICK F : F = [r \in 0 .. Len(sent) + 1 |->
                       IF r =< Len(sent) THEN E[r] ELSE E[Len(sent)] + Len(T)]
  OBVIOUS
<1>23. /\ F \in [0 .. Len(sent) + 1 -> Nat] /\ \A r \in 0 .. Len(sent) : F[r] = E[r]
       /\ F[Len(sent) + 1] = E[Len(sent)] + Len(T)
  <2>1. \A r \in 0 .. Len(sent) : r \in 0 .. Len(sent) + 1 /\ r =< Len(sent) /\ E[r] \in Nat
    BY <1>2 DEF IsIndex
  <2>2. \A r \in 0 .. Len(sent) : F[r] = E[r]
    BY <1>15, <2>1
  <2>3. Len(sent) + 1 \in 0 .. Len(sent) + 1 /\ ~(Len(sent) + 1 =< Len(sent))
    BY <1>2
  <2>4. F[Len(sent) + 1] = E[Len(sent)] + Len(T)
    BY <1>15, <2>3
  <2>5. \A r \in 0 .. Len(sent) + 1 :
           (IF r =< Len(sent) THEN E[r] ELSE E[Len(sent)] + Len(T)) \in Nat
    <3>1. \A r \in 0 .. Len(sent) + 1 : r =< Len(sent) => r \in 0 .. Len(sent)
      BY <1>2
    <3>2. E[Len(sent)] \in Nat /\ E[Len(sent)] + Len(T) \in Nat
      BY <1>2, <1>11, <2>1
    <3> QED
      BY <2>1, <3>1, <3>2
  <2> QED
    BY <1>15, <2>2, <2>4, <2>5
<1>16. IsIndex(F)' /\ Laid(F)' /\ Parsed(F)' = Parsed(E)
  <2>1. Grows(E, F, T)
    BY <1>1, <1>4, <1>12, <1>13, <1>14, <1>23 DEF Grows
  <2> QED
    BY <1>2, <1>4, <2>1, StreamGrows
<1>18. Framed'
  <2>1. Len(served') =< Len(sent')
    BY <1>1, <1>2, <1>4
  <2>2. ASSUME NEW k \in 1 .. Len(served')
        PROVE  /\ \A t \in served'[k] : t.req = k
               /\ Bodies(served'[k]) = Bodies(ToSet(Tokens(k, sent'[k])))
    <3>1. k \in 1 .. Len(served) /\ sent'[k] = sent[k]
      BY <1>1, <1>2, <1>4
    <3> QED
      BY <1>1, <1>2, <3>1 DEF Framed
  <2> QED
    BY <2>1, <2>2 DEF Framed, Bodies, ToSet
<1>19. Into(F)' = Into(E) /\ Current' = Current
  <2>1. Len(served) \in 0 .. Len(sent)
    BY <1>2
  <2>2. F[Len(served)] = E[Len(served)]
    BY <1>23, <2>1
  <2>3. Into(F)' = Parsed(F)' - F[Len(served')]
    BY DEF Into
  <2>4. Into(E) = Parsed(E) - E[Len(served)]
    BY DEF Into
  <2>5. served' = served /\ Parsed(F)' = Parsed(E)
    BY <1>1, <1>16
  <2> QED
    BY ONLY <2>2, <2>3, <2>4, <2>5 DEF Current
<1>20. Current =< Len(sent) => Current =< Len(sent') /\ sent'[Current] = sent[Current]
  BY <1>2, <1>4
<1>21. Synced(F)'
  <2>1. AtRequestLine(E) => AtRequestLine(F)'
    BY <1>1, <1>19 DEF AtRequestLine
  <2>2. AtHeaders(E) => AtHeaders(F)'
    BY <1>1, <1>19, <1>20 DEF AtHeaders, OwnLines, Bodies
  <2>3. AtBody(E) => AtBody(F)'
    BY <1>1, <1>19, <1>20 DEF AtBody, OwnLines, Bodies
  <2>4. AtEnd(E) => AtEnd(F)'
    <3> SUFFICES ASSUME AtEnd(E) PROVE AtEnd(F)'
      OBVIOUS
    <3>1. /\ error' = "none" /\ state' = "KGotCompleteRequest" /\ Current' =< Len(sent')
          /\ Into(F)' = Len(Tokens(Current', sent'[Current'])) /\ \A t \in req' : t.req = Current'
          /\ Bodies(req') = Bodies(ToSet(Tokens(Current', sent'[Current'])))
      BY <1>1, <1>19, <1>20 DEF AtEnd
    <3> QED
      BY ONLY <3>1, Zenon DEF AtEnd, Bodies, ToSet
  <2>5. Astray(E) => Astray(F)'
    BY <1>1, <1>19, <1>20 DEF Astray
  <2> QED
    BY <1>2, <2>1, <2>2, <2>3, <2>4, <2>5 DEF Synced
<1>22. ParserInv(F)'
  BY <1>1, <1>16, <1>18, <1>21 DEF ParserInv
<1> QED
  BY <1>22

LEMMA InitKeeps ==
    ASSUME Init
    PROVE  TypeOK /\ \E E : ParserInv(E)
<1>1. /\ sent = <<>> /\ piped = FALSE /\ wire = <<>> /\ cut = FALSE /\ buf = <<>>
      /\ state = "kExpectRequestLine" /\ error = "none" /\ contentLength = 0
      /\ parsing = FALSE /\ req = {} /\ served = <<>> /\ responses = <<>> /\ fate = "open"
  BY DEF Init
<1>2. TypeOK
  <2>1. /\ sent \in Seq(Shapes) /\ wire \in Seq(AllTokens) /\ buf \in Seq(AllTokens)
        /\ served \in Seq(SUBSET AllTokens)
    BY <1>1
  <2>2. responses \in Seq(Response)
    BY <1>1
  <2> QED
    BY <1>1, <2>1, <2>2 DEF TypeOK, States, Response
<1>3. Len(sent) = 0 /\ Len(served) = 0 /\ Len(buf) = 0 /\ Len(wire) = 0
  BY <1>1
<1>4. PICK E : E = [r \in 0 .. 0 |-> 0]
  OBVIOUS
<1>5. E \in [0 .. 0 -> Nat] /\ E[0] = 0
  BY <1>4
<1>6. IsIndex(E) /\ Laid(E) /\ Framed
  BY <1>3, <1>5 DEF IsIndex, Laid, Framed
<1>7. Into(E) = 0
  BY <1>3, <1>5 DEF Into, Parsed
<1>8. AtRequestLine(E)
  BY <1>1, <1>7 DEF AtRequestLine
<1> QED
  BY <1>1, <1>2, <1>6, <1>8 DEF ParserInv, Synced

LEMMA ParserStep ==
    ASSUME TypeOK, NEW E, ParserInv(E), Next, Conforming
    PROVE  \E F : ParserInv(F)'
<1>1. CASE \E s \in Shapes : ClientSends(s)
  BY <1>1, ClientSendsKeeps
<1>2. CASE \E n \in 0 .. Len(wire) : HandleRead(n)
  BY <1>2, HandleReadKeeps
<1>3. CASE NeedMore
  BY <1>3, NeedMoreKeeps
<1>4. CASE TakeRequestLine
  BY <1>4, TakeRequestLineKeeps
<1>5. CASE TakeHeader
  BY <1>5, TakeHeaderKeeps
<1>6. CASE EndHeaders
  BY <1>6, EndHeadersKeeps
<1>7. CASE TakeBody
  BY <1>7, TakeBodyKeeps
<1>8. CASE Dispatch
  BY <1>8, DispatchKeeps
<1> QED
  BY <1>1, <1>2, <1>3, <1>4, <1>5, <1>6, <1>7, <1>8 DEF Next, Parse

\* What a step of the parser means for the answers: nothing, a refusal, or one
\* more request for the pool.
Quiet == UNCHANGED <<sent, piped, served, responses, error>>

Refusal ==
    /\ UNCHANGED <<sent, piped, served>> /\ error' # "none"
    /\ \E code : responses' = Append(responses, Error(0, code))
    /\ error = "none" => Len(served) < Len(sent)

LEMMA ParserEffect ==
    ASSUME TypeOK, NEW E, ParserInv(E), Parse, Conforming
    PROVE  Quiet \/ Refusal \/ Dispatch
<1>1. CASE NeedMore
  <2>1. sent' = sent /\ piped' = piped /\ error' = error
    BY <1>1 DEF NeedMore, clientVars
  <2>2. CASE error = "none"
    BY <1>1, <2>1, <2>2 DEF NeedMore, Quiet, outVars
  <2>3. CASE error # "none"
    BY <1>1, <2>1, <2>3 DEF NeedMore, Refusal, Refuse
  <2> QED
    BY <2>2, <2>3
<1>2. CASE TakeRequestLine
  <2>1. /\ fate = "open" /\ HasLine /\ state = "kExpectRequestLine"
        /\ sent' = sent /\ piped' = piped
    BY <1>2 DEF TakeRequestLine, ParserInv, clientVars
  <2>2. Len(served) < Len(sent)
    <3>1. Current =< Len(sent)
      BY <2>1, HeadIsLine
    <3>2. Len(sent) \in Nat /\ Len(served) \in Nat
      BY <2>1, Position
    <3> QED
      BY <3>1, <3>2 DEF Current
  <2>3. PICK verdict \in RequestLineSays :
           IF verdict = "ok"
           THEN /\ state' = "kExpectHeaders" /\ req' = {Token(Line.req, "line", "ok")}
                /\ UNCHANGED <<error, contentLength, parsing, outVars>>
           ELSE /\ error' = verdict /\ Refuse(verdict)
                /\ parsing' = FALSE /\ UNCHANGED req
    BY <1>2 DEF TakeRequestLine
  <2>4. CASE verdict = "ok"
    BY <2>1, <2>3, <2>4 DEF Quiet, outVars
  <2>5. CASE verdict # "ok"
    <3>1. error' # "none"
      BY <1>2, <2>3, <2>5, TakeRequestLineTypes DEF Verdicts
    <3> QED
      BY <2>1, <2>2, <2>3, <2>5, <3>1 DEF Refusal, Refuse
  <2> QED
    BY <2>4, <2>5
<1>3. CASE TakeHeader
  <2>1. /\ fate = "open" /\ HasLine /\ state = "kExpectHeaders"
        /\ sent' = sent /\ piped' = piped
    BY <1>3 DEF TakeHeader, ParserInv, clientVars
  <2>2. Len(served) < Len(sent)
    <3>1. Current =< Len(sent)
      BY <2>1, HeadIsLine
    <3>2. Len(sent) \in Nat /\ Len(served) \in Nat
      BY <2>1, Position
    <3> QED
      BY <3>1, <3>2 DEF Current
  <2>3. PICK verdict \in HeaderSays :
         CASE verdict \in {"broken", "alikeBroken"} ->
                /\ error' = "bad" /\ Refuse("bad")
                /\ parsing' = FALSE /\ UNCHANGED req
           [] verdict = "notANumber" ->
                /\ fate' = "thrown" /\ parsing' = FALSE
                /\ UNCHANGED <<ctxVars, req, served, responses>>
           [] OTHER ->
                /\ req' = req \cup {Line}
                /\ contentLength' = IF verdict = "length" THEN sent[Line.req].body
                                                          ELSE contentLength
                /\ UNCHANGED <<state, error, parsing, outVars>>
    BY <1>3 DEF TakeHeader
  <2>4. CASE verdict \in {"broken", "alikeBroken"}
    <3>1. error' = "bad" /\ Refuse("bad")
      BY <2>3, <2>4
    <3> QED
      BY <2>1, <2>2, <3>1 DEF Refusal, Refuse
  <2>5. CASE verdict = "notANumber"
    <3>1. UNCHANGED <<ctxVars, req, served, responses>>
      BY <2>3, <2>5
    <3> QED
      BY <2>1, <3>1 DEF Quiet, ctxVars
  <2>6. CASE verdict \notin {"broken", "alikeBroken", "notANumber"}
    <3>1. UNCHANGED <<state, error, parsing, outVars>>
      BY <2>3, <2>6
    <3> QED
      BY <2>1, <3>1 DEF Quiet, outVars
  <2> QED
    BY <2>4, <2>5, <2>6
<1>4. CASE EndHeaders
  BY <1>4 DEF EndHeaders, Quiet, clientVars, outVars
<1>5. CASE TakeBody
  BY <1>5 DEF TakeBody, Quiet, clientVars, outVars
<1> QED
  BY <1>1, <1>2, <1>3, <1>4, <1>5 DEF Parse

-------------------------------------------------------------------------------
(* The workers. *)

LEMMA ParserStands ==
    ASSUME NEW E, ParserInv(E),
           UNCHANGED <<clientVars, buf, ctxVars, parsing, req, served, fate>>
    PROVE  ParserInv(E)'
<1>1. /\ sent' = sent /\ wire' = wire /\ buf' = buf /\ state' = state /\ error' = error
      /\ contentLength' = contentLength /\ parsing' = parsing /\ req' = req
      /\ served' = served /\ fate' = fate
  BY DEF clientVars, ctxVars
<1>2. Framed /\ IsIndex(E) /\ Laid(E) /\ (IF fate = "open" THEN Synced(E) ELSE ~parsing)
  BY DEF ParserInv
<1>3. Framed' /\ IsIndex(E)' /\ Laid(E)' /\ Parsed(E)' = Parsed(E)
  BY <1>1, <1>2 DEF Framed, IsIndex, Laid, Parsed
<1>4. Into(E)' = Into(E) /\ Current' = Current /\ (OwnLines => OwnLines')
  BY <1>1, <1>3 DEF Into, Current, OwnLines, Bodies
<1>5. Synced(E) => Synced(E)'
  BY <1>1, <1>4 DEF Synced, AtRequestLine, AtHeaders, AtBody, AtEnd, Astray, Bodies, ToSet
<1> QED
  BY <1>1, <1>2, <1>3, <1>5 DEF ParserInv

\* The request whose line went into a task.
LineIn(S) == (CHOOSE t \in S : t.part = "line").req

\* A request with a request line has a path and a method of the client, whichever
\* line of the client's that is.
LEMMA TaskRequest ==
    ASSUME TypeOK, NEW k \in 1 .. Len(served)
    PROVE  /\ HasRequestLine(k) =>
                 /\ LineIn(served[k]) \in 1 .. Len(sent)
                 /\ Path(k) \in Paths /\ File(k) \in Files /\ Method(k) \in Methods
           /\ ~HasRequestLine(k) => Method(k) = "kInvalid"
<1>1. served[k] \subseteq AllTokens
  <2>1. served \in Seq(SUBSET AllTokens)
    BY DEF TypeOK
  <2> QED
    BY ONLY <2>1, k \in 1 .. Len(served), ElementOfSeq
<1>2. ASSUME HasRequestLine(k)
      PROVE  LineIn(served[k]) \in 1 .. Len(sent) /\ Path(k) \in Paths /\ Method(k) \in Methods
  <2>1. PICK t : t = CHOOSE token \in served[k] : token.part = "line"
    OBVIOUS
  <2>2. t \in served[k]
    BY <1>2, <2>1 DEF HasRequestLine
  <2>3. t.req \in 1 .. Len(sent)
    BY <1>1, <2>2, TokenTypes
  <2>4. sent[t.req] \in Shape
    BY <2>3, ElementOfSeq, ShapesAssumption DEF TypeOK
  <2>5. Shaped(k) = sent[t.req] /\ LineIn(served[k]) = t.req
    BY <2>1 DEF Shaped, LineIn
  <2> QED
    BY <1>2, <2>3, <2>4, <2>5 DEF Path, Method, Shape
<1>3. Path(k) \in Paths => File(k) \in Files
  BY SiteAssumption DEF File, Files
<1>4. ~HasRequestLine(k) => Method(k) = "kInvalid"
  BY DEF Method
<1> QED
  BY <1>2, <1>3, <1>4

\* A task that has been handed on stays what it is.
LEMMA RequestStands ==
    ASSUME TypeOK, NEW k \in 1 .. Len(served), served'[k] = served[k],
           \A r \in 1 .. Len(sent) : sent'[r] = sent[r]
    PROVE  /\ HasRequestLine(k)' <=> HasRequestLine(k)
           /\ Path(k)' = Path(k) /\ File(k)' = File(k) /\ (Allowed(k)' <=> Allowed(k))
<1>1. HasRequestLine(k)' <=> HasRequestLine(k)
  BY DEF HasRequestLine
<1>2. Shaped(k) = sent[LineIn(served[k])] /\ Shaped(k)' = sent'[LineIn(served'[k])]
  BY DEF Shaped, LineIn
<1>3. HasRequestLine(k) => Shaped(k)' = Shaped(k)
  BY <1>2, TaskRequest
<1>4. Path(k)' = Path(k)
  BY <1>1, <1>3 DEF Path
<1>5. File(k)' = File(k)
  BY <1>4 DEF File
<1> QED
  BY <1>1, <1>4, <1>5 DEF Allowed

\* The three things a step of a task can be.
Busy == {"route", "resolve", "index", "stat", "read"}

Taking(w) ==
    /\ job[w].phase = "idle" /\ taken < Len(served) /\ taken' = taken + 1
    /\ job' = [job EXCEPT ![w] =
                  [phase |-> "route", to |-> taken + 1,
                   saw |-> IF HasRequestLine(taken + 1) THEN {disk[File(taken + 1)]} ELSE {}]]
    /\ responses' = responses

Going(w) ==
    /\ job[w].phase \in Busy /\ taken' = taken /\ responses' = responses
    /\ \E next \in Busy :
          /\ job' = [job EXCEPT ![w].phase = next]
          /\ HasRequestLine(job[w].to) =>
                /\ next = "index" => Path(job[w].to) \in Directories \cap WithinRoot
                /\ next \in {"stat", "read"} => Allowed(job[w].to)

Answering(w) ==
    /\ job[w].phase \in Busy /\ taken' = taken
    /\ \E answer \in Response :
          /\ answer.to = job[w].to /\ responses' = Append(responses, answer)
    /\ job' = [job EXCEPT ![w] = Idle]

LEMMA JobTypes ==
    ASSUME ServiceTypeOK, NEW w \in Workers
    PROVE  /\ job[w] \in [phase : Busy \cup {"idle"}, to : 0 .. taken, saw : SUBSET FileStates]
           /\ job[w].phase \in Busy \cup {"idle"} /\ job[w].to \in 0 .. taken
           /\ job[w].saw \subseteq FileStates
           /\ taken \in Nat /\ taken =< Len(served) /\ Len(served) \in Nat /\ job[w].to \in Nat
<1>1. /\ job \in [Workers -> [phase : {"idle", "route", "resolve", "index", "stat", "read"},
                              to : 0 .. taken, saw : SUBSET FileStates]]
      /\ taken \in 0 .. Len(served) /\ served \in Seq(SUBSET AllTokens)
  BY DEF ServiceTypeOK, TypeOK
<1>2. job[w] \in [phase : Busy \cup {"idle"}, to : 0 .. taken, saw : SUBSET FileStates]
  BY <1>1 DEF Busy
<1>3. taken \in Nat /\ taken =< Len(served) /\ Len(served) \in Nat
  BY <1>1, LenProperties
<1> QED
  BY <1>2, <1>3

Reply(w, code, body) == [to |-> job[w].to, code |-> code, body |-> body]

Codes == {200, 400, 403, 404, 405, 413, 505}
Texts == {"error", "text", "file", ""}

Answers(code, body) == code \in {200, 403, 404, 413} /\ body \in Texts

LEMMA ReplyIsResponse ==
    ASSUME ServiceTypeOK, NEW w \in Workers, NEW code, NEW body, Answers(code, body)
    PROVE  Reply(w, code, body) \in Response /\ Reply(w, code, body).to = job[w].to
<1>0. job[w].to \in Nat
  BY JobTypes
<1>1. code \in Codes /\ body \in Texts
  BY DEF Codes, Answers
<1>2. [to |-> job[w].to, code |-> code, body |-> body] \in [to : Nat, code : Codes, body : Texts]
  BY <1>0, <1>1
<1>3. Response = [to : Nat, code : Codes, body : Texts]
  BY DEF Response, Codes, Texts
<1> QED
  BY <1>2, <1>3 DEF Reply

Replies(w, r) ==
    /\ job[w].phase \in Busy /\ taken' = taken /\ Answer(w, r)
    /\ r \in Response /\ r.to = job[w].to

LEMMA AnswerIs ==
    ASSUME NEW w \in Workers, NEW r, Replies(w, r)
    PROVE  Answering(w)
<1>1. /\ r \in Response /\ r.to = job[w].to /\ job[w].phase \in Busy /\ taken' = taken
      /\ responses' = Append(responses, r) /\ job' = [job EXCEPT ![w] = Idle]
  BY DEF Replies, Answer
<1> QED
  BY ONLY <1>1 DEF Answering

LEMMA TaskOutcome ==
    ASSUME ServiceTypeOK, Seen, NEW w \in Workers, Task(w)
    PROVE  Taking(w) \/ Going(w) \/ Answering(w)
<1>1. CASE TakeTask(w)
  BY <1>1 DEF TakeTask, Taking, At, Unanswering
<1>a. ASSUME NEW b \in {"text", "file", ""}, Found(w, b), taken' = taken, job[w].phase \in Busy
      PROVE  Answering(w)
  <2>1. Answer(w, Reply(w, 200, b))
    BY <1>a DEF Found, Reply
  <2>2. Answers(200, b)
    <3>1. b \in Texts
      BY <1>a DEF Texts
    <3>2. 200 \in {200, 403, 404, 413}
      OBVIOUS
    <3> QED
      BY ONLY <3>1, <3>2 DEF Answers
  <2>3. Reply(w, 200, b) \in Response /\ Reply(w, 200, b).to = job[w].to
    BY <2>2, ReplyIsResponse
  <2>4. Replies(w, Reply(w, 200, b))
    BY <1>a, <2>1, <2>3 DEF Replies
  <2> QED
    BY <2>4, AnswerIs
<1>b. ASSUME NEW c \in {403, 404, 413}, Answer(w, Error(job[w].to, c)), taken' = taken,
             job[w].phase \in Busy
      PROVE  Answering(w)
  <2>1. Answer(w, Reply(w, c, "error"))
    BY <1>b DEF Error, Reply
  <2>2. Answers(c, "error")
    BY <1>b DEF Answers, Texts
  <2>3. Reply(w, c, "error") \in Response /\ Reply(w, c, "error").to = job[w].to
    BY <2>2, ReplyIsResponse
  <2>4. Replies(w, Reply(w, c, "error"))
    BY <1>b, <2>1, <2>3 DEF Replies
  <2> QED
    BY <2>4, AnswerIs
<1>2. CASE Route(w)
  <2>1. job[w].phase \in Busy /\ taken' = taken
    BY <1>2 DEF Route, At, Busy
  <2>2. Found(w, "text") \/ (Goes(w, "resolve") /\ Unanswering)
    BY <1>2 DEF Route
  <2>3. CASE Goes(w, "resolve") /\ Unanswering
    BY <2>1, <2>3 DEF Going, Goes, Unanswering, Busy
  <2> QED
    BY <1>a, <2>1, <2>2, <2>3
<1>3. CASE Resolve(w)
  <2>1. job[w].phase \in Busy /\ taken' = taken
    BY <1>3 DEF Resolve, At, Busy
  <2>2. \/ Answer(w, Error(job[w].to, 404)) \/ Answer(w, Error(job[w].to, 403))
        \/ /\ Goes(w, AfterRoot(job[w].to)) /\ Unanswering
           /\ Path(job[w].to) \in WithinRoot
    BY <1>3 DEF Resolve, NotFound
  <2>3. CASE /\ Goes(w, AfterRoot(job[w].to)) /\ Unanswering
             /\ Path(job[w].to) \in WithinRoot
    <3>1. CASE Path(job[w].to) \in Directories
      <4>1. AfterRoot(job[w].to) = "index"
        BY <3>1 DEF AfterRoot
      <4> QED
        BY <2>1, <2>3, <3>1, <4>1 DEF Going, Goes, Unanswering, Busy
    <3>2. CASE Path(job[w].to) \notin Directories
      <4>1. AfterRoot(job[w].to) = "stat" /\ Allowed(job[w].to)
        BY <2>3, <3>2 DEF AfterRoot, Allowed, File
      <4> QED
        BY <2>1, <2>3, <4>1 DEF Going, Goes, Unanswering, Busy
    <3> QED
      BY <3>1, <3>2
  <2> QED
    BY <1>b, <2>1, <2>2, <2>3
<1>4. CASE Index(w)
  <2>1. job[w].phase \in Busy /\ taken' = taken /\ job[w].phase = "index"
    BY <1>4 DEF Index, At, Busy
  <2>2. \/ Answer(w, Error(job[w].to, 404)) \/ Answer(w, Error(job[w].to, 403))
        \/ Goes(w, "stat") /\ Unanswering /\ File(job[w].to) \in WithinRoot
    BY <1>4 DEF Index, NotFound
  <2>3. HasRequestLine(job[w].to) => Path(job[w].to) \in WithinRoot
    BY <2>1 DEF Seen, Knows
  <2>4. CASE Goes(w, "stat") /\ Unanswering /\ File(job[w].to) \in WithinRoot
    BY <2>1, <2>3, <2>4 DEF Going, Goes, Unanswering, Busy, Allowed
  <2> QED
    BY <1>b, <2>1, <2>2, <2>4
<1>5. CASE Stat(w)
  <2>1. job[w].phase \in Busy /\ taken' = taken /\ job[w].phase = "stat"
    BY <1>5 DEF Stat, At, Busy
  <2>2. \/ Answer(w, Error(job[w].to, 404)) \/ Answer(w, Error(job[w].to, 413))
        \/ Goes(w, "read") /\ Unanswering
    BY <1>5 DEF Stat, NotFound
  <2>3. HasRequestLine(job[w].to) => Allowed(job[w].to)
    BY <2>1 DEF Seen, Knows
  <2>4. CASE Goes(w, "read") /\ Unanswering
    BY <2>1, <2>3, <2>4 DEF Going, Goes, Unanswering, Busy
  <2> QED
    BY <1>b, <2>1, <2>2, <2>4
<1>6. CASE ReadFile(w)
  <2>1. job[w].phase \in Busy /\ taken' = taken
    BY <1>6 DEF ReadFile, At, Busy
  <2>2. Found(w, "file") \/ Found(w, "")
    BY <1>6 DEF ReadFile
  <2> QED
    BY <1>a, <2>1, <2>2
<1> QED
  BY <1>1, <1>2, <1>3, <1>4, <1>5, <1>6 DEF Task

LEMMA TaskKeeps ==
    ASSUME ServiceTypeOK, Seen, NEW w \in Workers, Task(w)
    PROVE  ServiceTypeOK' /\ Seen'
<1>a. UNCHANGED <<clientVars, buf, ctxVars, parsing, req, served, fate, disk, changes>>
  BY DEF Task
<1>0. /\ sent' = sent /\ piped' = piped /\ wire' = wire /\ cut' = cut
      /\ buf' = buf /\ state' = state /\ error' = error
      /\ contentLength' = contentLength /\ parsing' = parsing /\ req' = req
      /\ served' = served /\ fate' = fate /\ disk' = disk /\ changes' = changes
  BY <1>a DEF clientVars, ctxVars
<1>2. TypeOK
  BY DEF ServiceTypeOK
<1>3. /\ disk \in [Files -> FileStates] /\ responses \in Seq(Response)
      /\ job \in [Workers -> [phase : {"idle", "route", "resolve", "index", "stat", "read"},
                            to : 0 .. taken, saw : SUBSET FileStates]]
  BY <1>2 DEF ServiceTypeOK, TypeOK, Response
<1>4. \A k : /\ HasRequestLine(k)' <=> HasRequestLine(k)
            /\ Path(k)' = Path(k) /\ File(k)' = File(k) /\ (Allowed(k)' <=> Allowed(k))
  BY <1>0 DEF HasRequestLine, Path, Shaped, File, Allowed
<1>5. taken \in Nat /\ taken =< Len(served) /\ Len(served) \in Nat
  BY JobTypes
<1>6. ASSUME responses' \in Seq(Response) PROVE TypeOK'
  <2>1. AllTokens' = AllTokens
    BY <1>0 DEF AllTokens
  <2>a. Streams'
    BY ONLY TypeHalves, <1>0, <1>2, <1>6, <2>1 DEF Streams
  <2>b. Flags'
    <3>1. piped' \in BOOLEAN /\ cut' \in BOOLEAN /\ parsing' \in BOOLEAN
      BY ONLY <1>0, <1>2 DEF TypeOK
    <3>2. /\ state' \in States /\ (~parsing' => state' # "KGotCompleteRequest")
          /\ error' \in {"none", "bad", "method", "version"} /\ contentLength' \in Nat
          /\ fate' \in {"open", "closed", "thrown"}
      BY ONLY <1>0, <1>2 DEF TypeOK
    <3> QED
      BY ONLY <1>6, <3>1, <3>2 DEF Flags, States
  <2> QED
    BY ONLY <2>a, <2>b DEF TypeOK, Streams, Flags, Response
<1> DEFINE Fits(x) ==
       /\ x \in [phase : {"idle", "route", "resolve", "index", "stat", "read"},
                 to : 0 .. taken', saw : SUBSET FileStates]
       /\ job' = [job EXCEPT ![w] = x]
       /\ x.phase = "idle" => x = Idle
       /\ x.phase # "idle" =>
             /\ x.to \in 1 .. taken'
             /\ HasRequestLine(x.to) =>
                   /\ disk[File(x.to)] \in x.saw
                   /\ x.phase = "index" => Path(x.to) \in Directories \cap WithinRoot
                   /\ x.phase \in {"stat", "read"} => Allowed(x.to)
<1>7. ASSUME taken' \in 0 .. Len(served), taken =< taken', responses' \in Seq(Response),
             NEW x, Fits(x)
      PROVE  ServiceTypeOK' /\ Seen'
  <2>1. TypeOK'
    BY <1>6, <1>7
  <2>2. 0 .. taken \subseteq 0 .. taken' /\ 1 .. taken \subseteq 1 .. taken'
    BY <1>5, <1>7
  <2>3. \A v \in Workers : job'[v] = IF v = w THEN x ELSE job[v]
    BY <1>3, <1>7
  <2>4. job' \in [Workers -> [phase : {"idle", "route", "resolve", "index", "stat", "read"},
                            to : 0 .. taken', saw : SUBSET FileStates]]
    BY <1>3, <1>7, <2>2
  <2>5. ServiceTypeOK'
    BY <1>0, <1>3, <1>7, <2>1, <2>4 DEF ServiceTypeOK
  <2>6. ASSUME NEW v \in Workers
        PROVE  /\ job'[v].phase = "idle" => job'[v] = Idle
               /\ job'[v].phase # "idle" =>
                    /\ job'[v].to \in 1 .. taken'
                    /\ HasRequestLine(job'[v].to) =>
                         /\ disk[File(job'[v].to)] \in job'[v].saw
                         /\ job'[v].phase = "index" =>
                               Path(job'[v].to) \in Directories \cap WithinRoot
                         /\ job'[v].phase \in {"stat", "read"} => Allowed(job'[v].to)
    <3>1. CASE v = w
      <4>1. job'[v] = x
        BY <2>3, <3>1
      <4> QED
        BY <1>7, <4>1
    <3>2. CASE v # w
      <4>1. job'[v] = job[v]
        BY <2>3, <3>2
      <4> QED
        BY <2>2, <4>1 DEF Seen, Knows
    <3> QED
      BY <3>1, <3>2
  <2>7. Seen'
    BY <1>0, <1>4, <2>6 DEF Seen, Knows, Idle
  <2> QED
    BY <2>5, <2>7
<1> HIDE DEF Fits
<1>8. CASE Taking(w)
  <2> DEFINE saw == IF HasRequestLine(taken + 1) THEN {disk[File(taken + 1)]} ELSE {}
             x == [phase |-> "route", to |-> taken + 1, saw |-> saw]
  <2>1. /\ taken' = taken + 1 /\ job' = [job EXCEPT ![w] = x] /\ responses' = responses
        /\ taken < Len(served)
    BY <1>8 DEF Taking
  <2>8. taken' = taken + 1 /\ taken < Len(served)
    BY <2>1
  <2>2. taken + 1 \in 1 .. Len(served) /\ taken' \in 0 .. Len(served) /\ taken =< taken'
        /\ taken + 1 \in 0 .. taken' /\ taken + 1 \in 1 .. taken'
    BY ONLY <1>5, <2>8
  <2>3. HasRequestLine(taken + 1) => File(taken + 1) \in Files
    BY <1>2, <2>2, TaskRequest
  <2>4. /\ saw \subseteq FileStates
        /\ HasRequestLine(taken + 1) => disk[File(taken + 1)] \in saw
    BY <1>3, <2>3
  <2> HIDE DEF saw
  <2>5. x \in [phase : {"idle", "route", "resolve", "index", "stat", "read"},
               to : 0 .. taken', saw : SUBSET FileStates]
    BY <2>2, <2>4
  <2>6. x.phase = "route" /\ x.to = taken + 1 /\ x.saw = saw
    OBVIOUS
  <2>7. responses' \in Seq(Response) /\ job' = [job EXCEPT ![w] = x]
    BY <1>3, <2>1
  <2> HIDE DEF x
  <2>9. Fits(x)
    BY <2>2, <2>4, <2>5, <2>6, <2>7 DEF Fits
  <2> QED
    BY <1>7, <2>2, <2>7, <2>9
<1>9. CASE Going(w)
  <2>1. PICK next \in Busy :
          /\ job' = [job EXCEPT ![w].phase = next]
          /\ HasRequestLine(job[w].to) =>
                /\ next = "index" => Path(job[w].to) \in Directories \cap WithinRoot
                /\ next \in {"stat", "read"} => Allowed(job[w].to)
    BY <1>9 DEF Going
  <2>2. taken' = taken /\ responses' = responses /\ job[w].phase \in Busy
    BY <1>9 DEF Going
  <2> DEFINE x == [job[w] EXCEPT !.phase = next]
  <2>3. x \in [phase : {"idle", "route", "resolve", "index", "stat", "read"},
               to : 0 .. taken', saw : SUBSET FileStates]
    BY <1>3, <2>2 DEF Busy
  <2>4. x.phase = next /\ x.to = job[w].to /\ x.saw = job[w].saw
    BY <1>3
  <2>5. job' = [job EXCEPT ![w] = x]
    BY <2>1
  <2> HIDE DEF x
  <2>6. /\ x.to \in 1 .. taken' /\ x.phase # "idle"
        /\ HasRequestLine(x.to) => disk[File(x.to)] \in x.saw
    BY <2>2, <2>4 DEF Seen, Knows, Busy
  <2>7. taken' \in 0 .. Len(served) /\ taken =< taken' /\ responses' \in Seq(Response)
    BY <1>3, <1>5, <2>2
  <2>8. Fits(x)
    BY <2>1, <2>3, <2>4, <2>5, <2>6 DEF Fits
  <2> QED
    BY <1>7, <2>7, <2>8
<1>10. CASE Answering(w)
  <2>1. PICK answer \in Response :
          answer.to = job[w].to /\ responses' = Append(responses, answer)
    BY <1>10 DEF Answering
  <2>2. taken' = taken /\ job' = [job EXCEPT ![w] = Idle]
    BY <1>10 DEF Answering
  <2>3. responses' \in Seq(Response)
    BY <1>3, <2>1, AppendProperties
  <2>4. taken' \in 0 .. Len(served) /\ taken =< taken' /\ 0 \in 0 .. taken'
    BY <1>5, <2>2
  <2>5. Idle \in [phase : {"idle", "route", "resolve", "index", "stat", "read"},
                  to : 0 .. taken', saw : SUBSET FileStates] /\ Idle.phase = "idle"
    BY <2>4 DEF Idle
  <2>6. Fits(Idle)
    BY <2>2, <2>5 DEF Fits
  <2> QED
    BY <1>7, <2>3, <2>4, <2>6
<1> QED
  BY <1>2, <1>8, <1>9, <1>10, TaskOutcome

\* A step of the client or of the parser adds to what was sent and to what was
\* served, and takes nothing back.
Grown ==
    /\ sent' = sent \/ \E s \in Shapes : sent' = Append(sent, s)
    /\ served' = served \/ served' = Append(served, req)

LEMMA NextGrows ==
    ASSUME Next
    PROVE  Grown
<1>1. CASE \E s \in Shapes : ClientSends(s)
  BY <1>1 DEF ClientSends, outVars, Grown
<1>2. CASE \E n \in 0 .. Len(wire) : HandleRead(n)
  BY <1>2 DEF HandleRead, outVars, Grown
<1>3. CASE Parse
  <2>1. sent' = sent
    BY <1>3 DEF Parse, NeedMore, TakeRequestLine, TakeHeader, EndHeaders, TakeBody, Dispatch,
                clientVars
  <2>2. CASE NeedMore
    BY <2>1, <2>2 DEF NeedMore, Refuse, outVars, Grown
  <2>3. CASE TakeRequestLine
    BY <2>1, <2>3 DEF TakeRequestLine, Refuse, outVars, Grown
  <2>4. CASE TakeHeader
    <3>1. PICK verdict \in HeaderSays :
         CASE verdict \in {"broken", "alikeBroken"} ->
                /\ error' = "bad" /\ Refuse("bad")
                /\ parsing' = FALSE /\ UNCHANGED req
           [] verdict = "notANumber" ->
                /\ fate' = "thrown" /\ parsing' = FALSE
                /\ UNCHANGED <<ctxVars, req, served, responses>>
           [] OTHER ->
                /\ req' = req \cup {Line}
                /\ contentLength' = IF verdict = "length" THEN sent[Line.req].body
                                                          ELSE contentLength
                /\ UNCHANGED <<state, error, parsing, outVars>>
      BY <2>4 DEF TakeHeader
    <3>2. CASE verdict \in {"broken", "alikeBroken"}
      BY <2>1, <3>1, <3>2 DEF Refuse, Grown
    <3>3. CASE verdict = "notANumber"
      BY <2>1, <3>1, <3>3 DEF Grown
    <3>4. CASE verdict \notin {"broken", "alikeBroken", "notANumber"}
      BY <2>1, <3>1, <3>4 DEF outVars, Grown
    <3> QED
      BY <3>2, <3>3, <3>4
  <2>5. CASE EndHeaders \/ TakeBody
    BY <2>1, <2>5 DEF EndHeaders, TakeBody, outVars, Grown
  <2>6. CASE Dispatch
    BY <2>1, <2>6 DEF Dispatch, Grown
  <2> QED
    BY <1>3, <2>2, <2>3, <2>4, <2>5, <2>6 DEF Parse
<1> QED
  BY <1>1, <1>2, <1>3 DEF Next

LEMMA PrefixStands ==
    ASSUME NEW A, NEW s \in Seq(A), NEW x \in A, NEW k \in 1 .. Len(s)
    PROVE  /\ Append(s, x)[k] = s[k] /\ k \in 1 .. Len(Append(s, x))
           /\ Len(Append(s, x)) = Len(s) + 1 /\ Len(s) \in Nat
BY AppendProperties, LenProperties

LEMMA ParserKeepsTasks ==
    ASSUME ServiceTypeOK, Seen, Next, UNCHANGED serviceVars
    PROVE  ServiceTypeOK' /\ Seen'
<1>1. TypeOK
  BY DEF ServiceTypeOK
<1>2. TypeOK'
  BY <1>1, NextTypes
<1>4. Grown
  BY NextGrows
<1>5. /\ disk' = disk /\ changes' = changes /\ taken' = taken /\ job' = job
  BY DEF serviceVars
<1>6. /\ sent \in Seq(Shapes) /\ served \in Seq(SUBSET AllTokens) /\ req \in SUBSET AllTokens
      /\ Len(served) \in Nat
  BY <1>1, LenProperties DEF TypeOK
<1>3. \A r \in 1 .. Len(sent) : sent'[r] = sent[r]
  BY ONLY <1>4, <1>6, PrefixStands DEF Grown
<1>7. ASSUME NEW k \in 1 .. Len(served) PROVE served'[k] = served[k]
  <2>1. Append(served, req)[k] = served[k]
    BY ONLY k \in 1 .. Len(served), <1>6, PrefixStands
  <2>2. served' = served \/ served' = Append(served, req)
    BY <1>4 DEF Grown
  <2> QED
    BY <2>1, <2>2
<1>8. Len(served) =< Len(served') /\ Len(served') \in Nat
  BY <1>4, <1>6, AppendProperties, LenProperties DEF Grown
<1>9. ASSUME NEW k \in 1 .. Len(served)
      PROVE  /\ HasRequestLine(k)' <=> HasRequestLine(k)
             /\ Path(k)' = Path(k) /\ File(k)' = File(k) /\ (Allowed(k)' <=> Allowed(k))
  BY <1>1, <1>3, <1>7, RequestStands
<1>10. taken \in 0 .. Len(served) /\ taken \in Nat /\ taken =< Len(served)
  BY DEF ServiceTypeOK
<1>11. taken \in 0 .. Len(served')
  BY <1>8, <1>10
<1>12. ServiceTypeOK'
  BY <1>2, <1>5, <1>11 DEF ServiceTypeOK
<1>13. Seen'
  <2>1. ASSUME NEW w \in Workers, job[w].phase # "idle", HasRequestLine(job[w].to)'
        PROVE  /\ disk[File(job[w].to)'] \in job[w].saw
               /\ job[w].phase = "index" => Path(job[w].to)' \in Directories \cap WithinRoot
               /\ job[w].phase \in {"stat", "read"} => Allowed(job[w].to)'
    <3>1. job[w].to \in 1 .. taken /\ Knows(job[w])
      BY <2>1 DEF Seen
    <3>2. job[w].to \in 1 .. Len(served)
      BY <1>6, <1>10, <3>1
    <3>3. PICK k \in 1 .. Len(served) : k = job[w].to
      BY <3>2
    <3>4. job'[w].to = k
      BY <1>5, <3>3
    <3>5. /\ HasRequestLine(k)' /\ Path(job[w].to)' = Path(k)' /\ File(job[w].to)' = File(k)'
          /\ (Allowed(job[w].to)' <=> Allowed(k)')
      BY <2>1, <3>3, <3>4 DEF HasRequestLine, Path, Shaped, File, Allowed
    <3>6. /\ HasRequestLine(job[w].to) /\ Path(job[w].to)' = Path(job[w].to)
          /\ File(job[w].to)' = File(job[w].to) /\ (Allowed(job[w].to)' <=> Allowed(job[w].to))
      BY <1>9, <3>3, <3>5
    <3> QED
      BY <2>1, <3>1, <3>6 DEF Knows
  <2> QED
    BY <1>5, <2>1 DEF Seen, Knows, Idle
<1> QED
  BY <1>12, <1>13

LEMMA TypesStand ==
    ASSUME TypeOK, UNCHANGED vars
    PROVE  TypeOK'
<1>1. /\ sent' = sent /\ piped' = piped /\ wire' = wire /\ cut' = cut
      /\ buf' = buf /\ state' = state /\ error' = error
      /\ contentLength' = contentLength /\ parsing' = parsing /\ req' = req
      /\ served' = served /\ fate' = fate /\ responses' = responses
  BY DEF vars, clientVars, ctxVars, outVars
<1>2. AllTokens' = AllTokens
  BY <1>1 DEF AllTokens
<1>3. responses' \in Seq(Response)
  BY <1>1 DEF TypeOK, Response
<1>a. Streams'
  BY ONLY TypeOK, TypeHalves, <1>1, <1>2, <1>3 DEF Streams
<1>b. Flags'
  <2>1. piped' \in BOOLEAN /\ cut' \in BOOLEAN /\ parsing' \in BOOLEAN
    BY <1>1 DEF TypeOK
  <2>2. /\ state' \in States /\ (~parsing' => state' # "KGotCompleteRequest")
        /\ error' \in {"none", "bad", "method", "version"} /\ contentLength' \in Nat
        /\ fate' \in {"open", "closed", "thrown"}
    BY <1>1 DEF TypeOK
  <2> QED
    BY ONLY <1>3, <2>1, <2>2 DEF Flags, States
<1> QED
  BY ONLY <1>a, <1>b DEF TypeOK, Streams, Flags, Response

LEMMA FilesKeepTasks ==
    ASSUME ServiceTypeOK, Seen, NEW f \in Files, NEW new \in FileStates, FileChanges(f, new)
    PROVE  ServiceTypeOK' /\ Seen'
<1>1. UNCHANGED vars /\ taken' = taken /\ disk' = [disk EXCEPT ![f] = new]
      /\ changes < MaxChanges /\ changes' = changes + 1
  BY DEF FileChanges
<1>2. /\ sent' = sent /\ piped' = piped /\ wire' = wire /\ cut' = cut
      /\ buf' = buf /\ state' = state /\ error' = error
      /\ contentLength' = contentLength /\ parsing' = parsing /\ req' = req
      /\ served' = served /\ fate' = fate /\ responses' = responses
  BY <1>1 DEF vars, clientVars, ctxVars, outVars
<1>4. TypeOK
  BY DEF ServiceTypeOK
<1>5. TypeOK'
  BY <1>1, <1>4, TypesStand
<1>6. /\ disk \in [Files -> FileStates] /\ changes \in 0 .. MaxChanges /\ MaxChanges \in Nat
      /\ taken \in 0 .. Len(served) /\ Len(served) \in Nat
  BY <1>4, SiteAssumption, LenProperties DEF ServiceTypeOK, TypeOK
<1>7. disk' \in [Files -> FileStates] /\ changes' \in 0 .. MaxChanges
  BY <1>1, <1>6
<1>8. \A k : /\ HasRequestLine(k)' <=> HasRequestLine(k)
            /\ Path(k)' = Path(k) /\ File(k)' = File(k) /\ (Allowed(k)' <=> Allowed(k))
  BY <1>2 DEF HasRequestLine, Path, Shaped, File, Allowed
<1> DEFINE J == [phase : {"idle", "route", "resolve", "index", "stat", "read"},
                 to : 0 .. taken, saw : SUBSET FileStates]
           Other(v) == IF LooksFor(v, f)
                       THEN [job[v] EXCEPT !.saw = @ \cup {new}] ELSE job[v]
<1>9. job' = [v \in Workers |-> Other(v)]
  BY DEF FileChanges
<1>10. job \in [Workers -> J]
  BY DEF ServiceTypeOK
<1>11. ASSUME NEW v \in Workers
       PROVE  /\ Other(v) \in J /\ Other(v).phase = job[v].phase /\ Other(v).to = job[v].to
              /\ job[v].saw \subseteq Other(v).saw
              /\ job[v] = Idle => Other(v) = Idle
              /\ LooksFor(v, f) => new \in Other(v).saw
  <2>1. job[v] \in J
    BY <1>10
  <2>2. [job[v] EXCEPT !.saw = @ \cup {new}] \in J
    BY <2>1
  <2> QED
    BY <2>1, <2>2 DEF LooksFor
<1> HIDE DEF Other, J
<1>12. job' \in [Workers -> J]
  BY <1>9, <1>11
<1>13. ServiceTypeOK'
  BY <1>1, <1>2, <1>5, <1>6, <1>7, <1>12 DEF ServiceTypeOK, J
<1>14. Seen'
  <2>1. ASSUME NEW v \in Workers
        PROVE  /\ job'[v].phase = "idle" => job'[v] = Idle
               /\ job'[v].phase # "idle" =>
                    /\ job'[v].to \in 1 .. taken
                    /\ HasRequestLine(job'[v].to) =>
                         /\ disk'[File(job'[v].to)] \in job'[v].saw
                         /\ job'[v].phase = "index" =>
                               Path(job'[v].to) \in Directories \cap WithinRoot
                         /\ job'[v].phase \in {"stat", "read"} => Allowed(job'[v].to)
    <3>1. job'[v] = Other(v)
      BY <1>9
    <3>2. CASE job[v].phase = "idle"
      BY <1>11, <3>1, <3>2 DEF Seen
    <3>3. CASE job[v].phase # "idle"
      <4>1. job[v] # Idle
        BY <3>3 DEF Idle
      <4>2. job[v].to \in 1 .. taken /\ Knows(job[v])
        BY <3>3 DEF Seen
      <4>3. ASSUME HasRequestLine(job[v].to) PROVE disk'[File(job[v].to)] \in Other(v).saw
        <5>1. CASE File(job[v].to) = f
          BY <1>1, <1>6, <1>11, <4>1, <5>1 DEF LooksFor
        <5>2. CASE File(job[v].to) # f
          <6>1. job[v].to \in 1 .. Len(served)
            BY ONLY <1>6, <4>2
          <6>2. File(job[v].to) \in Files
            BY <1>4, <4>3, <6>1, TaskRequest
          <6>3. disk'[File(job[v].to)] = disk[File(job[v].to)]
            BY <1>1, <1>6, <5>2, <6>2
          <6> QED
            BY <1>11, <4>2, <4>3, <6>3 DEF Knows
        <5> QED
          BY <5>1, <5>2
      <4> QED
        BY <1>11, <3>1, <3>3, <4>2, <4>3 DEF Knows
    <3> QED
      BY <3>2, <3>3
  <2> QED
    BY <1>1, <1>8, <2>1 DEF Seen, Knows, Idle
<1> QED
  BY <1>13, <1>14

-------------------------------------------------------------------------------
(* One request at a time. *)

\* The numbers OneAtATime relates, apart from the responses themselves.
Counts ==
    /\ Len(sent) \in Nat /\ Len(responses) \in Nat /\ Len(served) \in Nat /\ taken \in Nat
    /\ taken =< Len(served) /\ responses \in Seq(Response)
    /\ \A w \in Workers : (job[w] = Idle <=> job[w].phase = "idle")

LEMMA TypesCount == ServiceTypeOK /\ Seen => Counts
<1> SUFFICES ASSUME ServiceTypeOK, Seen PROVE Counts
  OBVIOUS
<1>1. /\ sent \in Seq(Shapes) /\ served \in Seq(SUBSET AllTokens) /\ responses \in Seq(Response)
      /\ taken \in 0 .. Len(served)
  BY DEF ServiceTypeOK, TypeOK, Response
<1>2. Len(sent) \in Nat /\ Len(responses) \in Nat /\ Len(served) \in Nat
  BY <1>1, LenProperties
<1>3. \A w \in Workers : (job[w] = Idle <=> job[w].phase = "idle")
  BY DEF Seen, Idle
<1> QED
  BY <1>1, <1>2, <1>3 DEF Counts

\* A refusal, or an answer, is one response more.
LEMMA OneMoreOf ==
    ASSUME responses \in Seq(Response), NEW x, responses' = Append(responses, x),
           responses' \in Seq(Response)
    PROVE  /\ Len(responses') = Len(responses) + 1 /\ Len(responses) \in Nat
           /\ responses'[Len(responses) + 1] = x
           /\ \A j \in 1 .. Len(responses) : responses'[j] = responses[j]
           /\ \A j \in 1 .. Len(responses') : j \in 1 .. Len(responses) \/ j = Len(responses) + 1
<1>1. /\ Len(responses') = Len(responses) + 1 /\ Len(responses) \in Nat
      /\ responses'[Len(responses) + 1] = x
      /\ \A j \in 1 .. Len(responses) : responses'[j] = responses[j]
  BY AppendProperties, LenProperties
<1> QED
  BY <1>1

LEMMA TurnsOfClient ==
    ASSUME Counts, ~piped => OneAtATime, NEW s \in Shapes, ClientSends(s),
           sent \in Seq(Shapes), UNCHANGED serviceVars, ~piped'
    PROVE  OneAtATime'
<1>1. ~piped /\ Len(sent) =< Len(responses)
  <2>1. piped' = (piped \/ Unanswered)
    BY DEF ClientSends
  <2>2. ~piped /\ ~Unanswered
    BY ONLY <2>1, ~piped', Zenon
  <2> QED
    BY <2>2 DEF Unanswered, Counts
<1>2. /\ served' = served /\ responses' = responses /\ error' = error
      /\ taken' = taken /\ job' = job
  BY DEF ClientSends, outVars, ctxVars, serviceVars
<1>3. Len(sent') =< Len(responses') + 1
  <2>1. Len(sent') = Len(sent) + 1
    BY AppendProperties DEF ClientSends
  <2> QED
    BY <1>1, <1>2, <2>1 DEF Counts
<1>4. OneAtATime
  BY <1>1
<1> QED
  BY <1>2, <1>3, <1>4 DEF OneAtATime, Idle

LEMMA TurnsOfQuiet ==
    ASSUME ~piped => OneAtATime, Quiet, UNCHANGED serviceVars, ~piped'
    PROVE  OneAtATime'
BY DEF OneAtATime, Idle, Quiet, serviceVars

LEMMA TurnsOfRefusal ==
    ASSUME Counts, ~piped => OneAtATime, Refusal, responses' \in Seq(Response),
           UNCHANGED serviceVars, ~piped'
    PROVE  OneAtATime'
<1>1. /\ sent' = sent /\ served' = served /\ taken' = taken /\ job' = job /\ error' # "none"
      /\ OneAtATime
  BY DEF Refusal, serviceVars
<1>2. PICK code : responses' = Append(responses, Error(0, code))
  BY DEF Refusal
<1>3. /\ Len(responses') = Len(responses) + 1 /\ Len(responses) \in Nat
      /\ responses'[Len(responses) + 1] = Error(0, code)
      /\ \A j \in 1 .. Len(responses) : responses'[j] = responses[j]
      /\ \A j \in 1 .. Len(responses') : j \in 1 .. Len(responses) \/ j = Len(responses) + 1
  BY <1>2, OneMoreOf DEF Counts
<1>4. /\ taken = Len(served) /\ Len(served) =< Len(responses)
      /\ \A w \in Workers : job[w] = Idle
  <2>1. CASE error = "none"
    <3>1. Len(served) < Len(sent) /\ Len(sent) =< Len(responses) + 1
      BY <1>1, <2>1 DEF Refusal, OneAtATime
    <3>2. Len(served) =< Len(responses)
      BY <3>1 DEF Counts
    <3>3. ~ (taken < Len(served))
      BY <1>1, <3>2 DEF Counts, OneAtATime
    <3>4. \A w \in Workers : job[w] = Idle
      BY <1>1, <3>2 DEF Counts, OneAtATime
    <3> QED
      BY <3>2, <3>3, <3>4 DEF Counts
  <2>2. CASE error # "none"
    <3>1. ~ (taken < Len(served)) /\ \A w \in Workers : job[w] = Idle
      BY <1>1, <2>2 DEF OneAtATime
    <3>2. taken = Len(served)
      BY <3>1 DEF Counts
    <3> QED
      BY <1>1, <3>1, <3>2 DEF OneAtATime
  <2> QED
    BY <2>1, <2>2
<1>5. ASSUME NEW j \in 1 .. Len(responses')
      PROVE  responses'[j].to = IF j =< Len(served') THEN j ELSE 0
  <2>1. CASE j \in 1 .. Len(responses)
    BY <1>1, <1>3, <2>1 DEF OneAtATime
  <2>2. CASE j = Len(responses) + 1
    <3>1. ~ (j =< Len(served))
      BY <1>3, <1>4, <2>2 DEF Counts
    <3>2. responses'[j].to = 0
      BY <1>3, <2>2 DEF Error
    <3> QED
      BY <1>1, <3>1, <3>2
  <2> QED
    BY <1>3, <2>1, <2>2
<1>6. Len(sent') =< Len(responses') + 1 /\ Len(served') =< Len(responses')
  BY <1>1, <1>3, <1>4 DEF OneAtATime, Counts
<1>7. ~ (taken' < Len(served')) /\ \A w \in Workers : job'[w] = Idle
  BY <1>1, <1>4 DEF Counts
<1> QED
  BY <1>1, <1>5, <1>6, <1>7 DEF OneAtATime, Idle

LEMMA TurnsOfDispatch ==
    ASSUME Counts, ~piped => OneAtATime, Dispatch, error = "none",
           Len(served') = Len(served) + 1, Len(served) < Len(sent),
           UNCHANGED serviceVars, ~piped'
    PROVE  OneAtATime'
<1>1. /\ sent' = sent /\ responses' = responses /\ taken' = taken /\ job' = job
      /\ error' = "none" /\ OneAtATime
  BY DEF Dispatch, clientVars, serviceVars
<1>2. Len(sent) =< Len(responses) + 1 /\ Len(responses) =< Len(served)
  BY <1>1 DEF OneAtATime
<1>3. Len(served) = Len(responses)
  BY <1>2 DEF Counts
<1>4. taken = Len(served)
  <2>1. ~ (taken < Len(served))
    BY <1>1, <1>3 DEF OneAtATime, Counts
  <2> QED
    BY <2>1 DEF Counts
<1>5. \A w \in Workers : job[w] = Idle
  BY <1>1, <1>3 DEF OneAtATime, Counts
<1>6. ASSUME NEW j \in 1 .. Len(responses')
      PROVE  responses'[j].to = IF j =< Len(served') THEN j ELSE 0
  <2>1. j \in 1 .. Len(responses) /\ j =< Len(served) /\ j =< Len(served')
    BY <1>1, <1>3 DEF Counts
  <2> QED
    BY <1>1, <2>1 DEF OneAtATime
<1>7. /\ Len(sent') =< Len(responses') + 1 /\ Len(responses') =< Len(served')
      /\ taken' # Len(served') /\ taken' = Len(responses') /\ Len(served') = taken' + 1
  BY <1>1, <1>2, <1>3, <1>4 DEF Counts
<1>8. \A w \in Workers : job'[w] = Idle
  BY <1>1, <1>5
<1> QED
  BY <1>1, <1>6, <1>7, <1>8 DEF OneAtATime, Idle


LEMMA TurnsOfTask ==
    ASSUME Counts, Counts', OneAtATime, NEW w \in Workers,
           Taking(w) \/ Going(w) \/ Answering(w),
           UNCHANGED <<sent, served, error>>,
           job \in [Workers -> [phase : Busy \cup {"idle"}, to : Nat, saw : SUBSET FileStates]]
    PROVE  OneAtATime'
<1>0. sent' = sent /\ served' = served /\ error' = error
  OBVIOUS
<1>1. CASE Taking(w)
  <2>1. /\ taken < Len(served) /\ taken' = taken + 1 /\ responses' = responses
        /\ \A v \in Workers \ {w} : job'[v] = job[v]
        /\ job'[w].to = taken + 1 /\ job'[w].phase = "route"
    BY <1>1 DEF Taking
  <2>2. /\ error = "none" /\ taken = Len(responses) /\ Len(served) = taken + 1
        /\ \A v \in Workers : job[v] = Idle
    BY <2>1 DEF OneAtATime
  <2>3. /\ job'[w] # Idle /\ job'[w].to = Len(served') /\ Len(served') = taken'
        /\ Len(served') = Len(responses') + 1
        /\ \A v \in Workers \ {w} : job'[v] = Idle
    <3>1. job'[w] # Idle
      BY <2>1 DEF Idle
    <3>2. Len(served') = taken + 1 /\ Len(served') = Len(responses) + 1
      BY <1>0, <2>2
    <3>3. \A v \in Workers \ {w} : job'[v] = Idle
      BY <2>1, <2>2
    <3> QED
      BY <2>1, <3>1, <3>2, <3>3
  <2>4. ~ (taken' < Len(served'))
    BY <2>3 DEF Counts
  <2>5. \A v \in Workers : job'[v] # Idle => v = w
    BY <2>3
  <2>6. Len(sent') =< Len(responses') + 1 /\ Len(responses') =< Len(served')
    BY <1>0, <2>1, <2>2 DEF OneAtATime
  <2>7. \A j \in 1 .. Len(responses') : responses'[j].to = IF j =< Len(served') THEN j ELSE 0
    BY <1>0, <2>1 DEF OneAtATime
  <2> QED
    BY <1>0, <2>2, <2>3, <2>4, <2>5, <2>6, <2>7 DEF OneAtATime, Idle
<1>2. ASSUME job[w].phase \in Busy
      PROVE  /\ error = "none" /\ job[w].to = Len(served)
             /\ Len(served) = taken /\ Len(served) = Len(responses) + 1
             /\ job[w] # Idle /\ \A v \in Workers \ {w} : job[v] = Idle
  <2>1. job[w] # Idle
    BY <1>2 DEF Busy, Idle
  <2> QED
    BY <2>1 DEF OneAtATime
<1>3. CASE Going(w)
  <2>1. PICK next \in Busy : job' = [job EXCEPT ![w].phase = next]
    BY <1>3 DEF Going
  <2>2. taken' = taken /\ responses' = responses /\ job[w].phase \in Busy
    BY <1>3 DEF Going
  <2>3. /\ job'[w].phase = next /\ job'[w].to = job[w].to
        /\ \A v \in Workers \ {w} : job'[v] = job[v]
    BY <2>1
  <2>4. job'[w] # Idle
    BY <2>3 DEF Busy, Idle
  <2>5. /\ error = "none" /\ job[w].to = Len(served)
        /\ Len(served) = taken /\ Len(served) = Len(responses) + 1
        /\ \A v \in Workers \ {w} : job[v] = Idle
    BY <1>2, <2>2
  <2>6. \A v \in Workers : job'[v] # Idle => v = w
    BY <2>3, <2>5
  <2>7. ~ (taken' < Len(served'))
    BY <1>0, <2>2, <2>5 DEF Counts
  <2>8. Len(sent') =< Len(responses') + 1 /\ Len(responses') =< Len(served')
    BY <1>0, <2>2, <2>5 DEF OneAtATime
  <2>9. \A j \in 1 .. Len(responses') : responses'[j].to = IF j =< Len(served') THEN j ELSE 0
    BY <1>0, <2>2 DEF OneAtATime
  <2> QED
    BY <1>0, <2>2, <2>3, <2>4, <2>5, <2>6, <2>7, <2>8, <2>9 DEF OneAtATime, Idle
<1>4. CASE Answering(w)
  <2>1. PICK answer \in Response :
          answer.to = job[w].to /\ responses' = Append(responses, answer)
    BY <1>4 DEF Answering
  <2>2. taken' = taken /\ job' = [job EXCEPT ![w] = Idle] /\ job[w].phase \in Busy
    BY <1>4 DEF Answering
  <2>3. /\ Len(responses') = Len(responses) + 1 /\ Len(responses) \in Nat
        /\ responses'[Len(responses) + 1] = answer
        /\ \A j \in 1 .. Len(responses) : responses'[j] = responses[j]
        /\ \A j \in 1 .. Len(responses') : j \in 1 .. Len(responses) \/ j = Len(responses) + 1
    BY <2>1, OneMoreOf DEF Counts
  <2>4. /\ error = "none" /\ job[w].to = Len(served)
        /\ Len(served) = taken /\ Len(served) = Len(responses) + 1
        /\ \A v \in Workers \ {w} : job[v] = Idle
    BY <1>2, <2>2
  <2>5. \A v \in Workers : job'[v] = Idle
    BY <2>2, <2>4
  <2>6. ASSUME NEW j \in 1 .. Len(responses')
        PROVE  responses'[j].to = IF j =< Len(served') THEN j ELSE 0
    <3>1. CASE j \in 1 .. Len(responses)
      BY <1>0, <2>3, <3>1 DEF OneAtATime
    <3>2. CASE j = Len(responses) + 1
      <4>1. j = Len(served) /\ Len(served) \in Nat
        BY <2>4, <3>2 DEF Counts
      <4>2. responses'[j].to = j
        BY <2>1, <2>3, <2>4, <3>2, <4>1
      <4> QED
        BY <1>0, <4>1, <4>2
    <3> QED
      BY <2>3, <3>1, <3>2
  <2>7. ~ (taken' < Len(served'))
    BY <1>0, <2>2, <2>4 DEF Counts
  <2>8. /\ Len(sent') =< Len(responses') + 1 /\ Len(responses') =< Len(served')
        /\ Len(served') =< Len(responses')
    BY <1>0, <2>3, <2>4 DEF OneAtATime, Counts
  <2> QED
    BY <1>0, <2>5, <2>6, <2>7, <2>8 DEF OneAtATime, Idle
<1> QED
  BY <1>1, <1>3, <1>4

LEMMA TurnsOfFiles ==
    ASSUME ServiceTypeOK, OneAtATime, NEW f \in Files, NEW new \in FileStates, FileChanges(f, new)
    PROVE  OneAtATime'
<1>1. /\ sent' = sent /\ served' = served /\ responses' = responses /\ error' = error
      /\ taken' = taken
  BY DEF FileChanges, vars, clientVars, ctxVars, outVars
<1>2. job \in [Workers -> [phase : {"idle", "route", "resolve", "index", "stat", "read"},
                            to : 0 .. taken, saw : SUBSET FileStates]]
  BY DEF ServiceTypeOK
<1>3. ASSUME NEW v \in Workers
      PROVE  job'[v].to = job[v].to /\ (job[v] = Idle <=> job'[v] = Idle)
  <2>1. CASE job[v] = Idle
    <3>1. job'[v] = job[v]
      BY <2>1 DEF FileChanges, LooksFor
    <3> QED
      BY <3>1
  <2>2. CASE job[v] # Idle /\ File(job[v].to) = f
    <3>1. job'[v] = [job[v] EXCEPT !.saw = @ \cup {new}]
      BY <2>2 DEF FileChanges, LooksFor
    <3>2. job'[v].to = job[v].to /\ new \in job'[v].saw
      BY <1>2, <3>1
    <3> QED
      BY <2>2, <3>2 DEF Idle
  <2>3. CASE job[v] # Idle /\ File(job[v].to) # f
    <3>1. job'[v] = job[v]
      BY <2>3 DEF FileChanges, LooksFor
    <3> QED
      BY <3>1
  <2> QED
    BY <2>1, <2>2, <2>3
<1>4. (\A w \in Workers : job[w] = Idle) <=> (\A w \in Workers : job'[w] = Idle)
  BY <1>3
<1>5. \A w \in Workers : (\A v \in Workers \ {w} : job[v] = Idle)
                          => (\A v \in Workers \ {w} : job'[v] = Idle)
  BY <1>3
<1> QED
  BY <1>1, <1>3, <1>4, <1>5 DEF OneAtATime, Idle

-------------------------------------------------------------------------------
(* The theorems. *)

\* The inductive invariant.
HInv ==
    /\ ServiceTypeOK /\ Seen
    /\ Conforming => (\E E : ParserInv(E)) /\ (~piped => OneAtATime)

LEMMA InitInv == ServiceInit => HInv
<1> SUFFICES ASSUME ServiceInit PROVE HInv
  OBVIOUS
<1>1. TypeOK /\ \E E : ParserInv(E)
  BY InitKeeps DEF ServiceInit
<1>2. /\ disk \in [Files -> FileStates] /\ changes = 0 /\ taken = 0
      /\ job = [w \in Workers |-> Idle]
  BY DEF ServiceInit, FileStates
<1>3. /\ sent = <<>> /\ served = <<>> /\ responses = <<>> /\ error = "none"
  BY DEF ServiceInit, Init
<1>4. Len(sent) = 0 /\ Len(served) = 0 /\ Len(responses) = 0
  BY <1>3
<1>5. Idle \in [phase : {"idle", "route", "resolve", "index", "stat", "read"},
                to : 0 .. 0, saw : SUBSET FileStates] /\ Idle.phase = "idle"
  BY DEF Idle
<1>6. \A w \in Workers : job[w] = Idle
  BY <1>2
<1>7. ServiceTypeOK
  <2>1. taken \in 0 .. Len(served) /\ changes \in 0 .. MaxChanges
    <3>1. MaxChanges \in Nat
      BY SiteAssumption
    <3>2. 0 \in 0 .. MaxChanges /\ 0 \in 0 .. 0
      BY ONLY <3>1
    <3> QED
      BY ONLY <1>2, <1>4, <3>2
  <2>2. job \in [Workers -> [phase : {"idle", "route", "resolve", "index", "stat", "read"},
                            to : 0 .. taken, saw : SUBSET FileStates]]
    BY <1>2, <1>5
  <2> QED
    BY <1>1, <1>2, <2>1, <2>2 DEF ServiceTypeOK
<1>8. Seen
  BY <1>5, <1>6 DEF Seen
<1>9. OneAtATime
  BY <1>2, <1>3, <1>4, <1>6 DEF OneAtATime
<1> QED
  BY <1>1, <1>7, <1>8, <1>9 DEF HInv

\* What the client has sent it does not take back.
LEMMA ConformedBefore ==
    ASSUME TypeOK, sent' = sent \/ \E s \in Shapes : sent' = Append(sent, s), Conforming'
    PROVE  Conforming
<1>1. sent \in Seq(Shapes)
  BY DEF TypeOK
<1>2. ASSUME NEW r \in 1 .. Len(sent) PROVE sent'[r] = sent[r] /\ r \in 1 .. Len(sent')
  BY ONLY <1>1, <1>2, PrefixStands, sent' = sent \/ \E s \in Shapes : sent' = Append(sent, s)
<1>3. \A r \in 1 .. Len(sent') : ToSet(sent'[r].headers) \cap Lookalikes = {}
  BY DEF Conforming, ToSet, Lookalikes
<1> QED
  BY <1>2, <1>3 DEF Conforming

\* Every request waits its turn while the client does.
LEMMA TurnsOfParser ==
    ASSUME HInv, Conforming, ServiceTypeOK', Next, UNCHANGED serviceVars, ~piped'
    PROVE  OneAtATime'
<1>1. PICK E : ParserInv(E)
  BY DEF HInv
<1>2. TypeOK /\ Counts /\ (~piped => OneAtATime) /\ sent \in Seq(Shapes)
  <2>1. TypeOK /\ Counts /\ (~piped => OneAtATime)
    BY TypesCount DEF HInv, ServiceTypeOK
  <2> QED
    BY ONLY <2>1, TypeHalves DEF Streams
<1>3. responses' \in Seq(Response)
  <2>1. TypeOK'
    BY DEF ServiceTypeOK
  <2>2. TypeOK' => (responses \in Seq(Response))'
    BY ResponseTypes, PTL
  <2> QED
    BY ONLY <2>1, <2>2
<1>4. CASE \E s \in Shapes : ClientSends(s)
  BY <1>2, <1>4, TurnsOfClient
<1>5. CASE \E n \in 0 .. Len(wire) : HandleRead(n)
  <2>1. Quiet
    BY <1>5 DEF HandleRead, Quiet, ctxVars, outVars
  <2> QED
    BY <1>2, <2>1, TurnsOfQuiet
<1>6. CASE Parse
  <2>1. CASE Quiet
    BY <1>2, <2>1, TurnsOfQuiet
  <2>2. CASE Refusal
    BY <1>2, <1>3, <2>2, TurnsOfRefusal
  <2>3. CASE Dispatch
    <3>1. error = "none" /\ Len(served') = Len(served) + 1 /\ Len(served) < Len(sent)
      BY <1>1, <1>2, <2>3, DispatchKeeps
    <3> QED
      BY <1>2, <2>3, <3>1, TurnsOfDispatch
  <2> QED
    BY <1>1, <1>2, <1>6, <2>1, <2>2, <2>3, ParserEffect
<1> QED
  BY <1>4, <1>5, <1>6 DEF Next

LEMMA StutterInv ==
    ASSUME HInv, UNCHANGED allVars
    PROVE  HInv'
<1>1. /\ UNCHANGED serviceVars /\ UNCHANGED <<clientVars, buf, ctxVars, parsing, req, served, fate>>
      /\ responses' = responses
  BY DEF allVars, vars, outVars
<1>2. /\ sent' = sent /\ piped' = piped /\ wire' = wire /\ cut' = cut
      /\ buf' = buf /\ state' = state /\ error' = error
      /\ contentLength' = contentLength /\ parsing' = parsing /\ req' = req
      /\ served' = served /\ fate' = fate
      /\ disk' = disk /\ changes' = changes /\ taken' = taken /\ job' = job
  BY <1>1 DEF clientVars, ctxVars, serviceVars
<1>3. Conforming' => Conforming
  BY <1>2, ConformedBefore DEF HInv, ServiceTypeOK
<1>7. Conforming => (\E E : ParserInv(E))'
  <2> SUFFICES ASSUME Conforming PROVE (\E E : ParserInv(E))'
    OBVIOUS
  <2>1. PICK E : ParserInv(E)
    BY DEF HInv
  <2> QED
    BY <1>1, <2>1, ParserStands
<1>4. ServiceTypeOK'
  <2>1. TypeOK'
    BY TypesStand DEF HInv, ServiceTypeOK, allVars
  <2> QED
    BY <1>2, <2>1 DEF HInv, ServiceTypeOK
<1>5. Seen'
  <2>1. \A k : /\ HasRequestLine(k)' <=> HasRequestLine(k)
              /\ Path(k)' = Path(k) /\ File(k)' = File(k) /\ (Allowed(k)' <=> Allowed(k))
    BY <1>2 DEF HasRequestLine, Path, Shaped, File, Allowed
  <2> QED
    BY <1>2, <2>1 DEF HInv, Seen, Knows, Idle
<1>6. Conforming /\ ~piped' => OneAtATime'
  BY <1>1, <1>2 DEF HInv, OneAtATime, Idle
<1> QED
  BY <1>3, <1>4, <1>5, <1>6, <1>7 DEF HInv

LEMMA StepInv == HInv /\ [ServiceNext]_allVars => HInv'
<1> SUFFICES ASSUME HInv, [ServiceNext]_allVars PROVE HInv'
  OBVIOUS
<1>1. ServiceTypeOK /\ Seen /\ TypeOK
  BY DEF HInv, ServiceTypeOK
<1>2. Conforming => (\E E : ParserInv(E)) /\ (~piped => OneAtATime)
  BY DEF HInv
<1>3. CASE Next /\ UNCHANGED serviceVars
  <2>1. ServiceTypeOK' /\ Seen'
    BY <1>1, <1>3, ParserKeepsTasks
  <2>2. ASSUME Conforming' PROVE (\E E : ParserInv(E))' /\ (~piped' => OneAtATime')
    <3>1. Conforming
      BY <1>1, <1>3, <2>2, NextGrows, ConformedBefore DEF Grown
    <3>2. PICK E : ParserInv(E)
      BY <1>2, <3>1
    <3>3. \E F : ParserInv(F)'
      BY <1>1, <1>3, <3>1, <3>2, ParserStep
    <3>4. ~piped' => OneAtATime'
      BY <1>3, <2>1, <3>1, TurnsOfParser
    <3> QED
      BY <3>3, <3>4
  <2> QED
    BY <2>1, <2>2 DEF HInv
<1>4. ASSUME NEW w \in Workers, Task(w) PROVE HInv'
  <2>1. ServiceTypeOK' /\ Seen'
    BY <1>1, <1>4, TaskKeeps
  <2>2. Taking(w) \/ Going(w) \/ Answering(w)
    BY <1>1, <1>4, TaskOutcome
  <2>3. sent' = sent /\ piped' = piped /\ served' = served /\ error' = error
    BY <1>4 DEF Task, clientVars, ctxVars
  <2>4. Counts /\ Counts'
    <3>1. ServiceTypeOK' /\ Seen' => Counts'
      BY TypesCount, PTL
    <3> QED
      BY <1>1, <2>1, <3>1, TypesCount
  <2>5. job \in [Workers -> [phase : Busy \cup {"idle"}, to : Nat, saw : SUBSET FileStates]]
    <3>1. /\ job \in [Workers -> [phase : {"idle", "route", "resolve", "index", "stat", "read"},
                            to : 0 .. taken, saw : SUBSET FileStates]]
          /\ taken \in Nat
      BY <1>1, <2>4 DEF ServiceTypeOK, Counts
    <3>2. 0 .. taken \subseteq Nat
      BY <3>1
    <3> QED
      BY <3>1, <3>2 DEF Busy
  <2>6. ASSUME Conforming, ~piped' PROVE OneAtATime'
    BY <1>2, <2>2, <2>3, <2>4, <2>5, <2>6, TurnsOfTask
  <2>7. ASSUME Conforming PROVE (\E E : ParserInv(E))'
    <3>1. PICK E : ParserInv(E)
      BY <1>2, <2>7
    <3> QED
      BY <1>4, <3>1, ParserStands DEF Task
  <2>8. Conforming' => Conforming
    BY <1>1, <2>3, ConformedBefore
  <2> QED
    BY <2>1, <2>6, <2>7, <2>8 DEF HInv
<1>5. ASSUME NEW f \in Files, NEW new \in FileStates, FileChanges(f, new) PROVE HInv'
  <2>1. ServiceTypeOK' /\ Seen'
    BY <1>1, <1>5, FilesKeepTasks
  <2>2. /\ UNCHANGED <<clientVars, buf, ctxVars, parsing, req, served, fate>>
        /\ piped' = piped /\ sent' = sent
    BY <1>5 DEF FileChanges, vars, clientVars, outVars
  <2>3. ASSUME Conforming, ~piped' PROVE OneAtATime'
    BY <1>1, <1>2, <1>5, <2>2, <2>3, TurnsOfFiles
  <2>4. ASSUME Conforming PROVE (\E E : ParserInv(E))'
    <3>1. PICK E : ParserInv(E)
      BY <1>2, <2>4
    <3> QED
      BY <2>2, <3>1, ParserStands
  <2>5. Conforming' => Conforming
    BY <1>1, <2>2, ConformedBefore
  <2> QED
    BY <2>1, <2>3, <2>4, <2>5 DEF HInv
<1>6. CASE UNCHANGED allVars
  BY <1>6, StutterInv
<1> QED
  BY <1>3, <1>4, <1>5, <1>6 DEF ServiceNext

\* Each worker is where its job says; and of a client none of whose header lines
\* reads as a request line, the parser is where its state says in the stream it
\* sent, and while it waits its turn no more than one request is unanswered.
THEOREM Invariance == ServiceSpec => []HInv
BY InitInv, StepInv, PTL DEF ServiceSpec

\* The variables of a connection's parser and of the workers have their types; in
\* particular no complete request stays behind in state_ between two reads.
THEOREM TypeCorrect == ServiceSpec => []ServiceTypeOK
<1>1. HInv => ServiceTypeOK
  BY DEF HInv
<1> QED
  BY <1>1, Invariance, PTL

\* However the stream is cut into reads and however many requests are in the
\* buffer at once, parseRequest() never lets anything of one request get into
\* another: of a client none of whose header lines reads as a request line, the
\* k-th it hands on is the k-th the client sent, with its whole body.
THEOREM RequestsAreTheClients == ServiceSpec => []FramingExact
<1>1. HInv => FramingExact
  <2> SUFFICES ASSUME HInv, Conforming, NEW k \in 1 .. Len(served)
               PROVE  /\ k =< Len(sent)
                      /\ \A t \in served[k] : t.req = k
                      /\ Bodies(served[k]) = Bodies(ToSet(Tokens(k, sent[k])))
    BY DEF FramingExact
  <2>1. Framed /\ Counts
    BY TypesCount DEF HInv, ParserInv
  <2>2. k =< Len(sent)
    BY <2>1 DEF Framed, Counts
  <2> QED
    BY <2>1, <2>2 DEF Framed
<1> QED
  BY <1>1, Invariance, PTL

\* Once parseRequest() has refused a request line, the lines that are left over of
\* the request are refused one by one and its empty line closes the connection:
\* nothing reaches the pool any more, of a client none of whose header lines reads
\* as a request line.  With one that does, the code serves it.
THEOREM RefusalIsFinal == ServiceSpec => RefusalEndsService
<1>1. HInv /\ [ServiceNext]_allVars => [Conforming /\ error # "none" => served' = served]_vars
  <2> SUFFICES ASSUME HInv, [ServiceNext]_allVars, Conforming, error # "none"
               PROVE  served' = served
    OBVIOUS
  <2>1. CASE Next /\ UNCHANGED serviceVars
    <3>1. PICK E : ParserInv(E)
      BY DEF HInv
    <3>2. TypeOK
      BY DEF HInv, ServiceTypeOK
    <3>3. CASE Parse
      <4>1. ~Dispatch
        BY <3>1, <3>2, DispatchKeeps
      <4> QED
        BY <3>1, <3>2, <3>3, <4>1, ParserEffect DEF Quiet, Refusal
    <3>4. CASE \E s \in Shapes : ClientSends(s)
      BY <3>4 DEF ClientSends, outVars
    <3>5. CASE \E n \in 0 .. Len(wire) : HandleRead(n)
      BY <3>5 DEF HandleRead, outVars
    <3> QED
      BY <2>1, <3>3, <3>4, <3>5 DEF Next
  <2>2. CASE \E w \in Workers : Task(w)
    BY <2>2 DEF Task
  <2>3. CASE \E f \in Files, new \in FileStates : FileChanges(f, new)
    BY <2>3 DEF FileChanges, vars, outVars
  <2>4. CASE UNCHANGED allVars
    BY <2>4 DEF allVars, vars, outVars
  <2> QED
    BY <2>1, <2>2, <2>3, <2>4 DEF ServiceNext
<1> QED
  BY <1>1, Invariance, PTL DEF ServiceSpec, RefusalEndsService

\* However many workers the pool has, a client that waits for each response before
\* it sends the next request gets the responses in the order of its requests, if
\* none of its header lines reads as a request line.
THEOREM ResponsesInOrder == ServiceSpec => []AnswersInOrder
<1>1. HInv => AnswersInOrder
  <2> SUFFICES ASSUME HInv, Conforming, ~piped, NEW i \in 1 .. Len(responses),
                      NEW j \in 1 .. Len(responses), i < j, responses[j].to # 0
               PROVE  responses[i].to < responses[j].to
    BY DEF AnswersInOrder
  <2>1. OneAtATime /\ Counts
    BY TypesCount DEF HInv
  <2>2. j =< Len(served) /\ responses[j].to = j
    BY <2>1 DEF OneAtATime
  <2>3. i =< Len(served)
    BY <2>1, <2>2 DEF Counts
  <2>4. responses[i].to = i
    BY <2>1, <2>3 DEF OneAtATime
  <2> QED
    BY <2>2, <2>4
<1> QED
  BY <1>1, Invariance, PTL

\* What the response of a task says of its file, when it answers with r.
Explains(w, r) ==
    LET k == job[w].to IN
    /\ Allowed(k) \/ r.code \in {403, 404}
    /\ \/ r.code = 403 /\ ~Allowed(k)
       \/ r.code = 404 /\ (Method(k) = "kPost" \/ "absent" \in job[w].saw)
       \/ r.code = 413 /\ "big" \in job[w].saw
       \/ r.body = "file" /\ "small" \in job[w].saw
       \/ r.body = "" /\ job[w].saw # {"small"}

LEMMA AnswersExplain ==
    ASSUME ServiceTypeOK, Seen, NEW w \in Workers, Task(w), responses' # responses,
           HasRequestLine(job[w].to)
    PROVE  \E r \in Response : /\ responses' = Append(responses, r)
                               /\ r.body = "text" \/ Explains(w, r)
<1>1. taken =< Len(served) /\ Len(served) \in Nat /\ taken \in Nat
  BY JobTypes
<1>2. TypeOK /\ disk \in [Files -> FileStates]
  BY DEF ServiceTypeOK
<1>3. ASSUME job[w].phase # "idle"
      PROVE  /\ disk[File(job[w].to)] \in job[w].saw
             /\ job[w].phase = "index" => Path(job[w].to) \in Directories \cap WithinRoot
             /\ job[w].phase \in {"stat", "read"} => Allowed(job[w].to)
             /\ Method(job[w].to) \in Methods
  <2>1. job[w].to \in 1 .. taken /\ Knows(job[w])
    BY <1>3 DEF Seen
  <2>2. job[w].to \in 1 .. Len(served)
    BY ONLY <1>1, <2>1
  <2> QED
    BY <1>2, <1>3, <2>1, <2>2, TaskRequest DEF Knows
<1>4. ASSUME NEW b, b \in Texts, Found(w, b), b = "text" \/ Explains(w, Reply(w, 200, b))
      PROVE  \E r \in Response : /\ responses' = Append(responses, r)
                                 /\ r.body = "text" \/ Explains(w, r)
  <2>1. responses' = Append(responses, Reply(w, 200, b))
    BY <1>4 DEF Found, Answer, Reply
  <2>2. Answers(200, b)
    BY <1>4 DEF Answers
  <2>3. Reply(w, 200, b) \in Response /\ Reply(w, 200, b).body = b
    BY <2>2, ReplyIsResponse DEF Reply
  <2> QED
    BY <1>4, <2>1, <2>3
<1>5. ASSUME NEW c, c \in {403, 404, 413}, Answer(w, Error(job[w].to, c)),
             Explains(w, Reply(w, c, "error"))
      PROVE  \E r \in Response : /\ responses' = Append(responses, r)
                                 /\ r.body = "text" \/ Explains(w, r)
  <2>1. responses' = Append(responses, Reply(w, c, "error"))
    BY <1>5 DEF Error, Answer, Reply
  <2>2. Answers(c, "error")
    BY <1>5 DEF Answers, Texts
  <2>3. Reply(w, c, "error") \in Response
    BY <2>2, ReplyIsResponse
  <2> QED
    BY <1>5, <2>1, <2>3
<1>6. ASSUME NotFound(w), Method(job[w].to) = "kPost" \/ "absent" \in job[w].saw
      PROVE  \E r \in Response : /\ responses' = Append(responses, r)
                                 /\ r.body = "text" \/ Explains(w, r)
  <2>1. Explains(w, Reply(w, 404, "error"))
    BY <1>6 DEF Explains, Reply
  <2> QED
    BY <1>5, <1>6, <2>1 DEF NotFound
<1>7. ASSUME Answer(w, Error(job[w].to, 403)), ~Allowed(job[w].to)
      PROVE  \E r \in Response : /\ responses' = Append(responses, r)
                                 /\ r.body = "text" \/ Explains(w, r)
  <2>1. Explains(w, Reply(w, 403, "error"))
    BY <1>7 DEF Explains, Reply
  <2> QED
    BY <1>5, <1>7, <2>1
<1>8. CASE TakeTask(w)
  BY <1>8 DEF TakeTask, Unanswering
<1>9. CASE Route(w)
  <2>1. Found(w, "text")
    BY <1>9 DEF Route, Unanswering
  <2>2. "text" \in Texts
    BY DEF Texts
  <2> QED
    BY <1>4, <2>1, <2>2
<1>10. CASE Resolve(w)
  <2>1. job[w].phase # "idle"
    BY <1>10 DEF Resolve, At
  <2>2. \/ NotFound(w) /\ (Declines(job[w].to) \/ Missing(job[w].to))
        \/ Answer(w, Error(job[w].to, 403)) /\ Path(job[w].to) \notin WithinRoot
    BY <1>10 DEF Resolve, Unanswering
  <2>3. CASE NotFound(w) /\ Declines(job[w].to)
    <3>1. Method(job[w].to) = "kPost"
      BY <1>3, <2>1, <2>3 DEF Declines, Methods
    <3> QED
      BY <1>6, <2>3, <3>1
  <2>4. CASE NotFound(w) /\ Missing(job[w].to)
    <3>1. disk[File(job[w].to)] = "absent"
      BY <2>4 DEF Missing, File
    <3> QED
      BY <1>3, <1>6, <2>1, <2>4, <3>1
  <2>5. CASE Answer(w, Error(job[w].to, 403)) /\ Path(job[w].to) \notin WithinRoot
    BY <1>7, <2>5 DEF Allowed
  <2> QED
    BY <2>2, <2>3, <2>4, <2>5
<1>11. CASE Index(w)
  <2>1. job[w].phase # "idle"
    BY <1>11 DEF Index, At
  <2>2. \/ NotFound(w) /\ disk[File(job[w].to)] = "absent"
        \/ Answer(w, Error(job[w].to, 403)) /\ ~Allowed(job[w].to)
    BY <1>11 DEF Index, Unanswering, Allowed
  <2> QED
    BY <1>3, <1>6, <1>7, <2>1, <2>2
<1>12. CASE Stat(w)
  <2>1. job[w].phase = "stat"
    BY <1>12 DEF Stat, At
  <2>2. \/ NotFound(w) /\ disk[File(job[w].to)] = "absent"
        \/ Answer(w, Error(job[w].to, 413)) /\ disk[File(job[w].to)] = "big"
    BY <1>12 DEF Stat, Unanswering
  <2>3. CASE NotFound(w) /\ disk[File(job[w].to)] = "absent"
    BY <1>3, <1>6, <2>1, <2>3
  <2>4. CASE Answer(w, Error(job[w].to, 413)) /\ disk[File(job[w].to)] = "big"
    <3>1. Explains(w, Reply(w, 413, "error"))
      BY <1>3, <2>1, <2>4 DEF Explains, Reply
    <3> QED
      BY <1>5, <2>4, <3>1
  <2> QED
    BY <2>2, <2>3, <2>4
<1>13. CASE ReadFile(w)
  <2>1. job[w].phase = "read"
    BY <1>13 DEF ReadFile, At
  <2>2. PICK b : b = IF disk[File(job[w].to)] = "small" THEN "file" ELSE ""
    OBVIOUS
  <2>3. Found(w, b)
    BY <1>13, <2>2 DEF ReadFile
  <2>4. b \in Texts
    BY <2>2 DEF Texts
  <2>5. Explains(w, Reply(w, 200, b))
    <3>1. Reply(w, 200, b).body = b /\ Reply(w, 200, b).code = 200
      BY DEF Reply
    <3>2. CASE disk[File(job[w].to)] = "small"
      BY <1>3, <2>1, <2>2, <3>1, <3>2 DEF Explains
    <3>3. CASE disk[File(job[w].to)] # "small"
      <4>1. job[w].saw # {"small"}
        BY <1>3, <2>1, <3>3
      <4> QED
        BY <1>3, <2>1, <2>2, <3>1, <3>3, <4>1 DEF Explains
    <3> QED
      BY <3>2, <3>3
  <2> QED
    BY <1>4, <2>3, <2>4, <2>5
<1> QED
  BY <1>8, <1>9, <1>10, <1>11, <1>12, <1>13 DEF Task

\* However realpath, stat and readFile() of StaticFileHandler fall between the
\* changes of the files, a response says of its file only what the file was
\* during the request; and a file is sent only if isWithinRoot, which compares the
\* first characters of realpath with the root, said so of the path and of the file.
THEOREM ResponsesExplained == ServiceSpec => AnswerExplained
<1> DEFINE Explained ==
       \A w \in Workers : Task(w) /\ responses' # responses =>
         LET answer == responses'[Len(responses')]
             k      == job[w].to
         IN HasRequestLine(k) /\ answer.body # "text" =>
            /\ Allowed(k) \/ answer.code \in {403, 404}
            /\ \/ answer.code = 403 /\ ~Allowed(k)
               \/ answer.code = 404 /\ (Method(k) = "kPost" \/ "absent" \in job[w].saw)
               \/ answer.code = 413 /\ "big" \in job[w].saw
               \/ answer.body = "file" /\ "small" \in job[w].saw
               \/ answer.body = "" /\ job[w].saw # {"small"}
<1>1. HInv /\ [ServiceNext]_allVars => [Explained]_allVars
  <2> SUFFICES ASSUME HInv, NEW w \in Workers, Task(w), responses' # responses,
                      HasRequestLine(job[w].to), responses'[Len(responses')].body # "text"
               PROVE  Explains(w, responses'[Len(responses')])
    BY DEF Explains
  <2>1. PICK r \in Response : /\ responses' = Append(responses, r)
                              /\ r.body = "text" \/ Explains(w, r)
    <3>1. ServiceTypeOK /\ Seen
      BY DEF HInv
    <3> QED
      BY <3>1, AnswersExplain
  <2>2. responses \in Seq(Response)
    BY ResponseTypes DEF HInv, ServiceTypeOK
  <2>3. responses'[Len(responses')] = r
    BY <2>1, <2>2, AppendProperties, LenProperties
  <2> QED
    BY <2>1, <2>3
<1> QED
  BY <1>1, Invariance, PTL DEF ServiceSpec, AnswerExplained

===============================================================================
