------------------------ MODULE HttpExchangeProofs ------------------------
(***************************************************************************)
(* Proofs about HttpExchange: its clock and the body it returns, for every *)
(* timeout, number of addresses, writes and pieces, every limit and every  *)
(* content.                                                                *)
(***************************************************************************)
EXTENDS HttpExchange, TLAPS, SequenceTheorems

\* The bound of a read that is under way.
Bound == Max2(Timeout, writtenAt) + pieces * sock

\* What is left of the addresses, the writes and the record, by place.
CtlInv ==
  /\ pc = "connect" => left >= 1 /\ elapsed <= Timeout
  /\ pc \in {"handshake", "write"} => left >= 1
  /\ pc \in {"connect", "handshake", "write"} => writtenAt = 0
  /\ pc \in {"connect", "write"} => pieces = 0
  /\ pieces <= Pieces - 1 /\ (~tls => pieces = 0) /\ (pc = "handshake" => tls)
  /\ pc = "tail" => response.framing = "close"
  /\ pc # "done" => result = "none"

\* Between two looks at the deadline the socket timeouts add up, and the end
\* of an unframed body comes without a look.
ClockInv ==
  /\ pc \in Reading => elapsed <= Bound
  /\ pc = "tail" => elapsed < Timeout + pieces * sock
  /\ ReadingBounded
  /\ SuccessInTime

\* Where the reader of the body and what the router sends meet.  What has been
\* kept is all that was sent; what is wanted is part of the chunk; and a chunk
\* that is cut is cut at the limit.
PlaceInv ==
  /\ pc \in {"connect", "handshake", "write", "headers"} =>
       due = "head" /\ sent = 0 /\ chunk = 0 /\ need = 0
  /\ pc \in {"size", "terminator", "trailer"} =>
       response.framing = "chunked" /\ need = 0 /\ chunk = 0
  /\ pc = "size" => due = "size"
  /\ pc = "terminator" => due = "eol"
  /\ pc = "trailer" => due = "trailer" /\ sent = response.size
  /\ pc = "tail" => due = "data" /\ need = 0 /\ sent < Limit

WantInv ==
  pc = "body" =>
    /\ due = "data" /\ need \in 1..chunk /\ sent + need <= Limit
    /\ response.framing \in {"length", "chunked"}
    /\ response.framing = "length" =>
         ~more /\ sent + need = Min2(response.size, Limit)
    /\ response.framing = "chunked" => (more <=> need < chunk)
    /\ more => sent + need = Limit

StreamInv ==
  /\ pc # "done" =>
       body = Content(sent) /\ sent + chunk <= response.size /\ sent <= Limit
  /\ PlaceInv /\ WantInv
  /\ FramedBodyWhole

\* The part that is about time, and the one that is about content.
TimeInv == TypeOK /\ CtlInv /\ ClockInv
IInv == TimeInv /\ StreamInv

\* The types of what the content passes through.
StreamTypeOK ==
  /\ due \in {"head", "size", "data", "eol", "trailer", "nothing"}
  /\ sent \in Nat /\ chunk \in Nat /\ need \in Nat

-----------------------------------------------------------------------------
(* Arithmetic                                                              *)

\* What remains of a timeout.
LEMMA Rest ==
  ASSUME NEW a \in Nat, NEW b \in Nat, b < a
  PROVE  a - b \in 0..a
OBVIOUS

\* Products of natural numbers, which the provers know little of.
LEMMA Products ==
  ASSUME NEW a \in Nat, NEW b \in Nat, NEW c \in Nat, a <= c
  PROVE  /\ a * b \in Nat /\ (a + 1) * b = a * b + b
         /\ a * b <= c * b /\ 0 * b = 0 /\ 1 * b = b
<1>1. PICK d \in Nat : c = a + d
  <2>1. c - a \in Nat /\ c = a + (c - a)
    OBVIOUS
  <2> QED
    BY <2>1
<1>2. c * b = a * b + d * b /\ d * b \in Nat /\ a * b \in Nat
  BY <1>1
<1>3. a * b <= c * b
  <2> DEFINE x == a * b
             y == d * b
             z == c * b
  <2>1. x \in Nat /\ y \in Nat /\ z = x + y
    BY <1>2
  <2> HIDE DEF x, y, z
  <2>2. x <= z
    BY <2>1
  <2> QED
    BY <2>2 DEF x, z
<1> QED
  BY <1>2, <1>3

\* One more timeout on top of the pieces is within the bound of all of them.
LEMMA OneMore ==
  ASSUME TypeOK, CtlInv, NEW d \in 0..sock, NEW base \in Nat
  PROVE  /\ pieces * sock \in Nat /\ Pieces * sock \in Nat
         /\ pieces * sock + d <= Pieces * sock
         /\ pieces * sock + d <= (pieces + 1) * sock
         /\ pieces * sock + d <= (IF tls THEN Pieces ELSE 1) * sock
<1> USE ExchangeAssumption
<1>1. pieces \in Nat /\ pieces + 1 <= Pieces /\ Pieces \in Nat /\ sock \in Nat
  BY DEF TypeOK, CtlInv
<1>2. /\ pieces * sock \in Nat /\ (pieces + 1) * sock = pieces * sock + sock
  BY <1>1, Products
<1>3. (pieces + 1) * sock <= Pieces * sock /\ Pieces * sock \in Nat
  <2>1. pieces + 1 \in Nat
    BY <1>1
  <2> QED
    BY <1>1, <2>1, Products
<1>4. d \in Nat /\ d <= sock
  BY <1>1
<1>5. pieces * sock + d <= (pieces + 1) * sock
  BY <1>1, <1>2, <1>4
<1>6. pieces * sock + d <= Pieces * sock
  BY <1>1, <1>2, <1>3, <1>4
<1>7. ASSUME ~tls PROVE pieces * sock + d <= 1 * sock
  <2>1. pieces = 0 /\ 0 * sock = 0 /\ 1 * sock = sock
    BY <1>1, <1>7, Products DEF CtlInv
  <2> QED
    BY <1>4, <2>1
<1> QED
  BY <1>2, <1>3, <1>5, <1>6, <1>7

-----------------------------------------------------------------------------
(* The body                                                                *)

\* The content up to a piece, and one piece more.
LEMMA ContentGrows ==
  ASSUME NEW n \in Nat
  PROVE  /\ Len(Content(n)) = n /\ Content(0) = <<>>
         /\ Append(Content(n), Piece(n + 1)) = Content(n + 1)
<1> DEFINE pieced == {Piece(i) : i \in Nat}
<1>1. \A k \in Nat : /\ Content(k) \in Seq(pieced) /\ Len(Content(k)) = k
                     /\ \A i \in 1..k : Content(k)[i] = Piece(i)
  BY DEF Content
<1>2. n + 1 \in Nat /\ Piece(n + 1) \in pieced
  OBVIOUS
<1> HIDE DEF pieced
<1>3. \A s, t \in Seq(pieced) :
        Len(s) = Len(t) /\ (\A i \in 1..Len(s) : s[i] = t[i]) => s = t
  BY SeqEqual
<1>4. \A s \in Seq(pieced), e \in pieced :
        /\ Append(s, e) \in Seq(pieced) /\ Len(Append(s, e)) = Len(s) + 1
        /\ \A i \in 1..Len(s) : Append(s, e)[i] = s[i]
        /\ Append(s, e)[Len(s) + 1] = e
  BY AppendProperties
<1> DEFINE grown == Append(Content(n), Piece(n + 1))
<1>5. /\ grown \in Seq(pieced) /\ Len(grown) = n + 1
      /\ \A i \in 1..n : grown[i] = Piece(i)
      /\ grown[n + 1] = Piece(n + 1)
  BY <1>1, <1>2, <1>4
<1> HIDE DEF grown
<1>6. \A i \in 1..(n + 1) : grown[i] = Content(n + 1)[i]
  <2> SUFFICES ASSUME NEW i \in 1..(n + 1)
               PROVE  grown[i] = Content(n + 1)[i]
    OBVIOUS
  <2>1. i \in 1..n \/ i = n + 1
    OBVIOUS
  <2>2. Content(n + 1)[i] = Piece(i)
    BY <1>1, <1>2
  <2> QED
    BY <1>5, <2>1, <2>2
<1>7. grown = Content(n + 1)
  BY <1>1, <1>2, <1>3, <1>5, <1>6
<1>8. Content(0) = <<>>
  BY DEF Content
<1> QED
  BY <1>1, <1>7, <1>8 DEF grown

\* A prefix of the content is the content of its length.
LEMMA ContentPrefix ==
  ASSUME NEW m \in Nat, NEW n \in 0..m
  PROVE  SubSeq(Content(m), 1, n) = Content(n)
BY DEF Content

-----------------------------------------------------------------------------
(* The steps                                                               *)

\* Reading comes after the request.
LEMMA ReadingType ==
  pc \in Reading =>
    pc \notin {"connect", "handshake", "write", "done"}
BY DEF Reading

\* What a token leads to, with the deadline still ahead.
LEMMA TakeEffect ==
  ASSUME TypeOK, CtlInv, NEW token, Take(token)
  PROVE  /\ \/ pc' = "done" /\ result' \in {"ok", "error"}
            \/ pc' \in Reading /\ UNCHANGED result
         /\ pc' = "tail" => response.framing = "close"
         /\ more' \in BOOLEAN
<1> USE DEF Return, Goto, KeepBody, ReadExact, Reading
<1>1. more \in BOOLEAN /\ (pc = "tail" => response.framing = "close")
  BY DEF TypeOK, CtlInv
<1>2. CASE pc = "headers" /\ TakeHead(token)
  <2>1. CASE Framed
    BY <1>1, <1>2, <2>1 DEF Framed
  <2>2. CASE ~Framed
    BY <1>1, <1>2, <2>2 DEF TakeHead
  <2> QED
    BY <2>1, <2>2
<1>3. CASE pc = "size" /\ TakeSize(token)
  BY <1>1, <1>3 DEF TakeSize
<1>4. CASE pc = "body" /\ TakeData(token)
  BY <1>1, <1>4 DEF TakeData
<1>5. CASE pc = "terminator" /\ TakeTerminator(token)
  BY <1>1, <1>5 DEF TakeTerminator
<1>6. CASE pc = "trailer" /\ TakeTrailer(token)
  BY <1>1, <1>6 DEF TakeTrailer
<1>7. CASE pc = "tail" /\ TakeTail(token)
  BY <1>1, <1>7 DEF TakeTail
<1> QED
  BY <1>2, <1>3, <1>4, <1>5, <1>6, <1>7 DEF Take

\* Before the request is written nothing bounds the clock but the connecting.
LEMMA BeforeStep ==
  ASSUME TimeInv, Connect \/ Handshake \/ Write
  PROVE  TimeInv'
<1> USE ExchangeAssumption DEF TimeInv
<1>1. /\ elapsed \in Nat /\ sock \in 0..Timeout /\ pieces \in 0..Pieces
      /\ left \in 0..(Addresses + Writes) /\ writtenAt = 0 /\ writtenAt \in Nat
      /\ result = "none" /\ left >= 1
  BY DEF Connect, Handshake, Write, TypeOK, CtlInv
<1>2. CASE Connect
  <2>1. PICK d \in 0..Remaining : elapsed' = elapsed + d
    BY <1>2 DEF Connect
  <2>2. elapsed' \in Nat /\ elapsed' <= Timeout
    BY <1>1, <1>2, <2>1 DEF Remaining, Connect, CtlInv
  <2>3. /\ pc = "connect" /\ UNCHANGED <<tls, response, pieces, due, sent, chunk, need, more, body, writtenAt>>
        /\ \/ Connected
           \/ /\ left' = left - 1 /\ UNCHANGED sock
              /\ IF left = 1
                 THEN \E r \in {"unavailable", "error"} : Return(r)
                 ELSE UNCHANGED <<pc, result>>
    BY <1>2, Zenon DEF Connect, peer, wire
  <2>4. pieces = 0
    BY <2>3 DEF CtlInv
  <2>5. CASE Connected
    <3>1. /\ sock' \in 0..Timeout
          /\ \/ pc' = "done" /\ result' = "error" /\ left' = left
             \/ pc' = "handshake" /\ tls /\ result' = "none" /\ left' = Writes
             \/ pc' = "write" /\ result' = "none" /\ left' = Writes
      <4>1. Timeout \in Nat /\ result = "none"
        BY <1>1
      <4>2. sock' \in 0..Timeout
        <5>1. sock' = IF elapsed' < Timeout THEN Timeout - elapsed' ELSE 0
          BY <2>5 DEF Connected
        <5>2. CASE elapsed' < Timeout
          <6>1. Timeout - elapsed' \in 0..Timeout
            BY <2>2, <4>1, <5>2, Rest
          <6> QED
            BY <5>1, <5>2, <6>1, Zenon
        <5>3. CASE ~(elapsed' < Timeout)
          <6>1. 0 \in 0..Timeout
            BY <4>1
          <6> QED
            BY <5>1, <5>3, <6>1, Zenon
        <5> QED
          BY <5>2, <5>3
      <4>3. CASE sock' = 0
        BY <2>5, <4>2, <4>3 DEF Connected, Return
      <4>4. CASE sock' # 0
        <5>1. pc' = (IF tls THEN "handshake" ELSE "write") /\ result' = result /\ left' = Writes
          BY <2>5, <4>4 DEF Connected, Goto
        <5> QED
          BY <4>1, <4>2, <5>1
      <4> QED
        BY <4>3, <4>4
    <3>2. TypeOK'
      BY <1>1, <2>2, <2>3, <3>1 DEF TypeOK
    <3>3. CtlInv'
      BY <1>1, <2>3, <2>4, <3>1 DEF CtlInv
    <3>4. ClockInv'
      BY <1>1, <2>3, <3>1 DEF ClockInv, Reading, ReadingBounded, SuccessInTime
    <3> QED
      BY <3>2, <3>3, <3>4
  <2>6. CASE left' = left - 1 /\ UNCHANGED sock
             /\ IF left = 1
                THEN \E r \in {"unavailable", "error"} : Return(r)
                ELSE UNCHANGED <<pc, result>>
    <3>1. \/ pc' = "done" /\ result' \in {"unavailable", "error"}
          \/ pc' = "connect" /\ result' = "none" /\ left' >= 1
      BY <1>1, <2>3, <2>6 DEF Return
    <3>2. TypeOK'
      BY <1>1, <2>2, <2>3, <2>6, <3>1 DEF TypeOK
    <3>3. CtlInv'
      BY <1>1, <2>2, <2>3, <2>4, <3>1 DEF CtlInv
    <3>4. ClockInv'
      BY <1>1, <2>3, <3>1 DEF ClockInv, Reading, ReadingBounded, SuccessInTime
    <3> QED
      BY <3>2, <3>3, <3>4
  <2> QED
    BY <2>3, <2>5, <2>6
<1>3. CASE Handshake
  <2>1. PICK d \in 0..sock : elapsed' = elapsed + d
    BY <1>3 DEF Handshake
  <2>2. elapsed' \in Nat
    BY <1>1, <2>1
  <2>3. /\ pc = "handshake" /\ tls
        /\ UNCHANGED <<tls, response, sock, left, due, sent, chunk, need, more, body, writtenAt>>
        /\ \/ pieces < Pieces - 1 /\ pieces' = pieces + 1 /\ pc' = pc /\ result' = result
           \/ pieces' = 0 /\ pc' = "write" /\ result' = result
           \/ pc' = "done" /\ result' = "error" /\ pieces' = pieces
    BY <1>3 DEF Handshake, Return, Goto, peer, wire, CtlInv
  <2>4. TypeOK'
    BY <1>1, <2>2, <2>3 DEF TypeOK
  <2>5. CtlInv'
    BY <1>1, <2>3 DEF CtlInv
  <2>6. ClockInv'
    BY <1>1, <2>3 DEF ClockInv, Reading, ReadingBounded, SuccessInTime
  <2> QED
    BY <2>4, <2>5, <2>6
<1>4. CASE Write
  <2>1. PICK d \in 0..sock : elapsed' = elapsed + d
    BY <1>4 DEF Write
  <2>2. elapsed' \in Nat
    BY <1>1, <2>1
  <2>3. /\ pc = "write" /\ pieces = 0
        /\ UNCHANGED <<tls, response, sock, pieces, due, sent, chunk, need, more, body>>
        /\ \/ left = 1 /\ left' = 0 /\ pc' = "headers" /\ writtenAt' = elapsed' /\ result' = result
           \/ left # 1 /\ left' = left - 1 /\ pc' = pc /\ UNCHANGED <<result, writtenAt>>
           \/ pc' = "done" /\ result' = "error" /\ UNCHANGED <<left, writtenAt>>
    BY <1>1, <1>4 DEF Write, Return, Goto, peer, wire, CtlInv
  <2>4. writtenAt' \in Nat
    BY <1>1, <2>2, <2>3
  <2>5. TypeOK'
    BY <1>1, <2>2, <2>3, <2>4 DEF TypeOK, Reading
  <2>6. CtlInv'
    BY <1>1, <2>3 DEF CtlInv
  <2>7. 0 * sock = 0
    BY <1>1, Products
  <2>8. pc' = "headers" => elapsed' <= Max2(Timeout, writtenAt') + pieces' * sock'
    <3>1. pieces' * sock' = 0
      BY <2>3, <2>7, Zenon
    <3>2. pc' = "headers" => writtenAt' = elapsed'
      BY <2>3
    <3>3. Max2(Timeout, elapsed') \in Nat /\ elapsed' <= Max2(Timeout, elapsed')
      BY <2>2 DEF Max2
    <3> QED
      BY <2>2, <3>1, <3>2, <3>3
  <2>9. ReadingBounded'
    <3>1. CASE pc' = "headers"
      <4>1. (IF tls THEN Pieces ELSE 1) * sock \in Nat
        <5>1. (IF tls THEN Pieces ELSE 1) \in Nat /\ sock \in Nat
          BY <1>1
        <5> QED
          BY <5>1, Products
      <4>2. Max2(Timeout, elapsed') \in Nat /\ elapsed' <= Max2(Timeout, elapsed')
        BY <2>2 DEF Max2
      <4>3. elapsed' <= Max2(Timeout, elapsed') + (IF tls THEN Pieces ELSE 1) * sock
        BY <2>2, <4>1, <4>2
      <4>4. writtenAt' = elapsed' /\ tls' = tls /\ sock' = sock
        BY <2>3, <3>1
      <4> QED
        BY <4>3, <4>4, Zenon DEF ReadingBounded
    <3>2. CASE pc' # "headers"
      BY <1>1, <2>3, <3>2 DEF ReadingBounded
    <3> QED
      BY <3>1, <3>2
  <2>10. ClockInv'
    <3>1. SuccessInTime'
      BY <1>1, <2>3 DEF SuccessInTime
    <3>2. pc' # "tail" /\ (pc' \in Reading => pc' = "headers")
      BY <2>3 DEF Reading
    <3> QED
      BY <2>8, <2>9, <3>1, <3>2, Zenon DEF ClockInv, Bound
  <2> QED
    BY <2>5, <2>6, <2>10
<1> QED
  BY <1>2, <1>3, <1>4

\* What a read may leave behind.
LEMMA ReadingStep ==
  ASSUME TimeInv, pc \in Reading, UNCHANGED <<tls, response, sock, left, writtenAt>>,
         NEW d \in 0..sock, elapsed' = elapsed + d, more' \in BOOLEAN, StreamTypeOK',
         \/ pc' = "done" /\ result' \in {"ok", "error"}
         \/ pc' \in Reading /\ UNCHANGED result,
         pc' = "tail" => response.framing = "close",
         \* the record: at its beginning, where it was, or one piece on
         \/ pieces' = 0
         \/ pieces' = pieces
         \/ tls /\ pieces < Pieces - 1 /\ pieces' = pieces + 1 /\ pc' = pc,
         \* a look at the deadline, one piece on, or the end
         pc' # "done" => elapsed' < Timeout \/ (pieces' = pieces + 1 /\ pc' = pc),
         result' = "ok" => elapsed' < Timeout \/ (pc = "tail" /\ response.framing = "close")
  PROVE  TimeInv'
<1> USE ExchangeAssumption DEF TimeInv
<1>1. /\ elapsed \in Nat /\ sock \in Nat /\ sock <= Timeout /\ pieces \in Nat
      /\ writtenAt \in Nat /\ d \in Nat /\ elapsed' \in Nat
      /\ pieces + 1 <= Pieces /\ Pieces \in Nat
  BY DEF TypeOK, CtlInv
<1>2. pieces' \in Nat /\ pieces' + 1 <= Pieces
  BY <1>1
<1>3. pc \notin {"connect", "handshake", "write", "done"}
      /\ pc' \notin {"connect", "handshake", "write"}
  BY DEF Reading
<1>4. TypeOK'
  BY <1>1, <1>2 DEF TypeOK, StreamTypeOK
<1>5. CtlInv'
  <2>1. ~tls => pieces' = 0
    BY DEF CtlInv
  <2> QED
    BY <1>1, <1>2, <1>3, <2>1 DEF CtlInv
<1>6. /\ pieces * sock \in Nat /\ Pieces * sock \in Nat
      /\ pieces * sock + d <= Pieces * sock
      /\ pieces * sock + d <= (pieces + 1) * sock
      /\ pieces * sock + d <= (IF tls THEN Pieces ELSE 1) * sock
  BY OneMore
<1>7. (pieces + 1) * sock \in Nat /\ pieces' * sock \in Nat
      /\ (IF tls THEN Pieces ELSE 1) * sock \in Nat
  <2>1. pieces + 1 \in Nat /\ pieces' \in Nat /\ (IF tls THEN Pieces ELSE 1) \in Nat
    BY <1>1, <1>2
  <2>2. \A n \in Nat : n * sock \in Nat
    BY <1>1, Products
  <2> QED
    BY <2>1, <2>2, Zenon
<1> DEFINE base == Max2(Timeout, writtenAt)
<1>8. base \in Nat /\ Timeout <= base
  BY <1>1 DEF Max2
<1>9. elapsed <= base + pieces * sock
  BY DEF ClockInv, Bound
<1> HIDE DEF base
<1>10. elapsed' <= base + (pieces * sock + d)
  BY <1>1, <1>6, <1>8, <1>9
<1>11. ReadingBounded'
  <2>1. elapsed' <= base + (IF tls THEN Pieces ELSE 1) * sock
    BY <1>1, <1>6, <1>7, <1>8, <1>10
  <2> QED
    BY <2>1, Zenon DEF ReadingBounded, base
<1>12. pc' \in Reading => elapsed' <= Bound'
  <2>1. ASSUME pc' \in Reading PROVE elapsed' <= base + pieces' * sock
    <3>1. pc' # "done"
      BY <2>1 DEF Reading
    <3>2. CASE elapsed' < Timeout
      BY <1>1, <1>7, <1>8, <3>2
    <3>3. CASE pieces' = pieces + 1
      <4>1. pieces' * sock = (pieces + 1) * sock
        BY <3>3
      <4> QED
        BY <1>1, <1>6, <1>7, <1>8, <1>10, <4>1
    <3> QED
      BY <3>1, <3>2, <3>3
  <2> QED
    BY <2>1, Zenon DEF Bound, base
<1>13. pc' = "tail" => elapsed' < Timeout + pieces' * sock'
  <2>1. ASSUME pc' = "tail" PROVE elapsed' < Timeout + pieces' * sock
    <3>1. CASE elapsed' < Timeout
      BY <1>1, <1>7, <3>1
    <3>2. CASE pieces' = pieces + 1 /\ pc' = pc
      <4>1. elapsed < Timeout + pieces * sock
        BY <2>1, <3>2 DEF ClockInv
      <4>2. pieces' * sock = (pieces + 1) * sock
        BY <3>2
      <4> QED
        BY <1>1, <1>6, <1>7, <4>1, <4>2
    <3> QED
      BY <2>1, <3>1, <3>2
  <2> QED
    BY <2>1, Zenon
<1>14. SuccessInTime'
  <2>1. ASSUME result' = "ok", ~(elapsed' < Timeout)
        PROVE  response.framing = "close" /\ elapsed' < Timeout + Pieces * sock
    <3>1. pc = "tail" /\ response.framing = "close"
      BY <2>1
    <3>2. elapsed < Timeout + pieces * sock
      BY <3>1 DEF ClockInv
    <3> QED
      BY <1>1, <1>6, <3>1, <3>2
  <2> QED
    BY <2>1, Zenon DEF SuccessInTime
<1> QED
  BY <1>4, <1>5, <1>11, <1>12, <1>13, <1>14, Zenon DEF ClockInv

-----------------------------------------------------------------------------
(* The tokens                                                              *)

\* What the parts of the invariant say of a response that is being read.
LEMMA ReadingFacts ==
  ASSUME IInv, pc \in Reading
  PROVE  /\ sent \in Nat /\ chunk \in Nat /\ need \in Nat /\ Limit \in Nat
         /\ response.size \in Nat /\ more \in BOOLEAN /\ result = "none"
         /\ body = Content(sent) /\ Len(body) = sent
         /\ sent + chunk <= response.size /\ sent <= Limit
         /\ need + sent <= Limit
<1>1. /\ sent \in Nat /\ chunk \in Nat /\ need \in Nat /\ Limit \in Nat
      /\ response.size \in Nat /\ more \in BOOLEAN
  BY ExchangeAssumption DEF IInv, TimeInv, TypeOK, Responses
<1>2. pc # "done"
  BY ReadingType
<1>3. body = Content(sent) /\ sent + chunk <= response.size /\ sent <= Limit
  BY <1>2 DEF IInv, StreamInv
<1>4. Len(body) = sent
  BY <1>1, <1>3, ContentGrows
<1>5. need + sent <= Limit
  BY <1>4 DEF IInv, StreamInv, FramedBodyWhole
<1> QED
  BY <1>1, <1>2, <1>3, <1>4, <1>5 DEF IInv, TimeInv, CtlInv

\* The place in the response decides what the router can be sending.
LEMMA Delivered ==
  ASSUME IInv, NEW token, pc \in Reading, Deliver(token)
  PROVE  /\ sent' \in Nat /\ chunk' \in Nat
         /\ due' \in {"head", "size", "data", "eol", "trailer", "nothing"}
         /\ pc = "headers" => DeliverHead(token)
         /\ pc = "size" => DeliverSize(token)
         /\ pc \in {"body", "tail"} => DeliverData(token)
         /\ pc \in {"terminator", "trailer"} => DeliverEol(token)
<1>1. /\ sent \in Nat /\ chunk \in Nat /\ response.size \in Nat
      /\ due \in {"head", "size", "data", "eol", "trailer", "nothing"}
  BY ExchangeAssumption DEF IInv, TimeInv, TypeOK, Responses
<1>2. /\ pc = "headers" => due = "head"
      /\ pc = "size" => due = "size"
      /\ pc \in {"body", "tail"} => due = "data"
      /\ pc \in {"terminator", "trailer"} => due \in {"eol", "trailer"}
  BY DEF IInv, StreamInv, PlaceInv, WantInv
<1>3. /\ sent' \in Nat /\ chunk' \in Nat
      /\ due' \in {"head", "size", "data", "eol", "trailer", "nothing"}
  <2>1. CASE DeliverHead(token)
    BY <1>1, <2>1 DEF DeliverHead, wire
  <2>2. CASE DeliverSize(token)
    BY <1>1, <2>2 DEF DeliverSize
  <2>3. CASE DeliverData(token)
    BY <1>1, <2>3 DEF DeliverData
  <2>4. CASE DeliverEol(token)
    BY <1>1, <2>4 DEF DeliverEol
  <2> QED
    BY <2>1, <2>2, <2>3, <2>4 DEF Deliver
<1>4. /\ pc = "headers" => DeliverHead(token)
      /\ pc = "size" => DeliverSize(token)
      /\ pc \in {"body", "tail"} => DeliverData(token)
      /\ pc \in {"terminator", "trailer"} => DeliverEol(token)
  BY <1>2 DEF Deliver, DeliverHead, DeliverSize, DeliverData, DeliverEol
<1> QED
  BY <1>3, <1>4

\* A response that is over: what was kept is within the limit, and a body that
\* is returned is the content up to it.
LEMMA StreamDone ==
  ASSUME IInv, response' = response, pc' = "done",
         need' + Len(body') <= Limit,
         result' = "ok" /\ response.framing \in {"length", "chunked"} =>
           body' = Content(Min2(response.size, Limit))
  PROVE  StreamInv'
<1>1. response.size \in Nat /\ Limit \in Nat
  BY ExchangeAssumption DEF IInv, TimeInv, TypeOK, Responses
<1>2. Min2(response.size, Limit) \in 0..response.size
  BY <1>1 DEF Min2
<1>3. SubSeq(Content(response.size), 1, Min2(response.size, Limit))
        = Content(Min2(response.size, Limit))
  BY <1>1, <1>2, ContentPrefix
<1>4. FramedBodyWhole'
  BY <1>3 DEF FramedBodyWhole
<1> QED
  BY <1>4 DEF StreamInv, PlaceInv, WantInv

\* A response that goes on.
LEMMA StreamGoesOn ==
  ASSUME IInv, pc \in Reading, result' = result,
         sent' \in Nat, body' = Content(sent'), need' + sent' <= Limit,
         sent' + chunk' <= response'.size, sent' <= Limit,
         PlaceInv', WantInv'
  PROVE  StreamInv'
<1>1. Len(body') = sent' /\ result' = "none"
  BY ReadingFacts, ContentGrows
<1> QED
  BY <1>1 DEF StreamInv, FramedBodyWhole

\* The end of the head, and the framing it announces.
LEMMA HeadTaken ==
  ASSUME IInv, NEW token, response' = response, pc = "headers",
         Deliver(token), TakeHead(token)
  PROVE  StreamInv' /\ need' \in Nat
<1> USE DEF KeepBody, Return, Goto
<1>1. pc \in Reading
  BY DEF Reading
<1>2. /\ DeliverHead(token) /\ sent' \in Nat /\ chunk' \in Nat
      /\ due = "head" /\ sent = 0 /\ chunk = 0 /\ need = 0
  BY <1>1, Delivered DEF IInv, StreamInv, PlaceInv
<1>3. /\ Limit \in Nat /\ response.size \in Nat /\ more \in BOOLEAN
      /\ body = Content(0) /\ Len(body) = 0 /\ result = "none"
  BY <1>1, <1>2, ReadingFacts
<1>4. CASE token # Head0
  <2>1. /\ UNCHANGED <<pc, result, due, sent, chunk, need, more, body>>
    BY <1>2, <1>4 DEF TakeHead, DeliverHead, wire
  <2> QED
    BY <1>2, <2>1, <1>3
    DEF IInv, StreamInv, PlaceInv, WantInv, FramedBodyWhole
<1>5. CASE token = Head0
  <2>1. /\ sent' = 0
        /\ response.framing = "chunked" => due' = "size" /\ chunk' = 0
        /\ response.framing \in {"length", "close"} =>
             due' = "data" /\ chunk' = response.size
    BY <1>2, <1>5 DEF DeliverHead, Head0, Head1
  <2>2. CASE pc' = "done" /\ UNCHANGED <<need, body>>
             /\ (result' = "ok" => response.framing \notin {"length", "chunked"}
                                   \/ Min2(response.size, Limit) = 0)
    <3>1. need' + Len(body') <= Limit
      BY <1>2, <1>3, <2>2
    <3> QED
      BY <1>2, <1>3, <2>2, <3>1, StreamDone
  <2>3. CASE response.framing = "chunked" /\ pc' = "size"
             /\ UNCHANGED <<result, need, more, body>>
    <3>1. PlaceInv' /\ WantInv'
      BY <1>2, <2>1, <2>3 DEF PlaceInv, WantInv
    <3> QED
      BY <1>1, <1>2, <1>3, <2>1, <2>3, <3>1, StreamGoesOn
  <2>4. CASE response.framing = "close" /\ Limit # 0 /\ pc' = "tail"
             /\ UNCHANGED <<result, need, more, body>>
    <3>1. PlaceInv' /\ WantInv'
      BY <1>2, <1>3, <2>1, <2>4 DEF PlaceInv, WantInv
    <3> QED
      BY <1>1, <1>2, <1>3, <2>1, <2>4, <3>1, StreamGoesOn
  <2>5. CASE response.framing = "length" /\ Min2(response.size, Limit) # 0
             /\ need' = Min2(response.size, Limit) /\ more' = FALSE
             /\ pc' = "body" /\ UNCHANGED <<result, body>>
    <3>1. /\ need' \in 1..chunk' /\ need' <= Limit
          /\ sent' + need' = Min2(response.size, Limit)
      BY <1>3, <2>1, <2>5 DEF Min2
    <3>2. PlaceInv' /\ WantInv'
      BY <2>1, <2>5, <3>1 DEF PlaceInv, WantInv
    <3> QED
      BY <1>1, <1>2, <1>3, <2>1, <2>5, <3>1, <3>2, StreamGoesOn
  <2>6. response.framing \in Framings
    BY DEF IInv, TimeInv, TypeOK, Responses
  <2>7. CASE Framed
    <3>1. CASE response.framing \in {"none", "unusable"}
      BY <2>2, <2>7, <3>1 DEF Framed
    <3>2. CASE response.framing = "chunked"
      BY <1>2, <2>3, <2>7, <3>2 DEF Framed
    <3>3. CASE response.framing = "close"
      BY <1>2, <2>2, <2>4, <2>7, <3>3 DEF Framed
    <3>4. CASE response.framing = "length"
      BY <1>3, <2>2, <2>5, <2>7, <3>4 DEF Framed, ReadExact, Min2
    <3> QED
      BY <2>6, <3>1, <3>2, <3>3, <3>4 DEF Framings
  <2>8. CASE ~Framed
    BY <1>2, <1>5, <2>2, <2>8 DEF TakeHead
  <2> QED
    BY <2>7, <2>8
<1> QED
  BY <1>4, <1>5

\* The size of a chunk, which is kept as far as the limit leaves room.
LEMMA SizeTaken ==
  ASSUME IInv, NEW token, response' = response, pc = "size",
         Deliver(token), TakeSize(token)
  PROVE  StreamInv' /\ need' \in Nat
<1> USE DEF KeepBody, Return, Goto
<1>1. pc \in Reading
  BY DEF Reading
<1>2. /\ DeliverSize(token) /\ response.framing = "chunked"
      /\ need = 0 /\ chunk = 0
  BY <1>1, Delivered DEF IInv, StreamInv, PlaceInv
<1>3. /\ sent \in Nat /\ Limit \in Nat /\ response.size \in Nat
      /\ body = Content(sent) /\ Len(body) = sent /\ sent <= Limit
      /\ sent <= response.size
  BY <1>1, ReadingFacts
<1>4. CASE \E n \in 1..(response.size - sent) :
             token = Size(n) /\ chunk' = n /\ due' = "data" /\ sent' = sent
  <2>1. PICK n \in 1..(response.size - sent) :
          token = Size(n) /\ chunk' = n /\ due' = "data" /\ sent' = sent
    BY <1>4
  <2>2. token[1] = "size" /\ token[2] = n /\ n \in Nat \ {0}
        /\ sent + n <= response.size
    BY <1>3, <2>1 DEF Size
  <2> DEFINE keep == Min2(n, Limit - sent)
  <2>3. /\ keep \in 0..n /\ sent + keep <= Limit
        /\ keep # n => sent + keep = Limit
    BY <1>3, <2>2 DEF Min2
  <2>4. IF keep = 0 THEN Return("ok") /\ KeepBody
                    ELSE ReadExact(keep, keep # n)
    BY <1>3, <2>2 DEF TakeSize
  <2> HIDE DEF keep
  <2>5. CASE keep = 0
    <3>1. pc' = "done" /\ UNCHANGED <<need, body>>
      BY <2>4, <2>5
    <3>2. Min2(response.size, Limit) = sent
      BY <1>3, <2>2, <2>3, <2>5 DEF Min2
    <3>3. need' + Len(body') <= Limit
      BY <1>2, <1>3, <3>1
    <3> QED
      BY <1>2, <1>3, <3>1, <3>2, <3>3, StreamDone
  <2>6. CASE keep # 0
    <3>1. /\ need' = keep /\ more' = (keep # n)
          /\ pc' = "body" /\ UNCHANGED <<result, body>>
      BY <2>4, <2>6 DEF ReadExact
    <3>2. keep \in Nat /\ need' \in 1..chunk' /\ sent' + need' <= Limit
      BY <1>3, <2>1, <2>2, <2>3, <2>6, <3>1
    <3>3. (more' <=> need' < chunk') /\ (more' => sent' + need' = Limit)
      <4>1. keep # n <=> keep < n
        BY <2>2, <2>3
      <4> QED
        BY <2>1, <2>3, <3>1, <4>1
    <3>4. WantInv'
      BY <1>2, <2>1, <3>1, <3>2, <3>3 DEF WantInv
    <3>5. PlaceInv'
      BY <3>1 DEF PlaceInv
    <3> QED
      BY <1>1, <1>3, <2>1, <2>2, <3>1, <3>2, <3>4, <3>5, StreamGoesOn
  <2> QED
    BY <2>5, <2>6
<1>5. CASE /\ sent = response.size /\ token = Size(0)
           /\ due' = "trailer" /\ UNCHANGED <<sent, chunk>>
  <2>1. pc' = "trailer" /\ UNCHANGED <<result, need, more, body>>
    BY <1>5 DEF TakeSize, Size
  <2>2. PlaceInv' /\ WantInv'
    BY <1>2, <1>5, <2>1 DEF PlaceInv, WantInv
  <2> QED
    BY <1>1, <1>2, <1>3, <1>5, <2>1, <2>2, StreamGoesOn
<1>6. CASE token = Line
  <2>1. pc' = "done" /\ result' = "error" /\ UNCHANGED <<need, body>>
    BY <1>6 DEF TakeSize, Line
  <2>2. need' + Len(body') <= Limit
    BY <1>2, <1>3, <2>1
  <2> QED
    BY <1>2, <2>1, <2>2, StreamDone
<1> QED
  BY <1>2, <1>4, <1>5, <1>6 DEF DeliverSize

\* A piece of a chunk or of a content with a length.
LEMMA DataTaken ==
  ASSUME IInv, NEW token, response' = response, pc = "body",
         Deliver(token), TakeData(token)
  PROVE  StreamInv' /\ need' \in Nat
<1> USE DEF Return, Goto
<1>1. pc \in Reading
  BY DEF Reading
<1>2. /\ token = Piece(sent + 1)
      /\ sent' = sent + 1 /\ chunk' = chunk - 1
      /\ due' = IF chunk = 1 /\ response.framing = "chunked" THEN "eol" ELSE due
  BY <1>1, Delivered DEF DeliverData
<1>3. /\ sent \in Nat /\ Limit \in Nat /\ response.size \in Nat
      /\ chunk \in Nat /\ need \in Nat /\ more \in BOOLEAN
      /\ body = Content(sent) /\ sent + chunk <= response.size
  BY <1>1, ReadingFacts
<1>4. /\ due = "data" /\ need \in 1..chunk /\ sent + need <= Limit
      /\ response.framing \in {"length", "chunked"}
      /\ response.framing = "length" =>
           ~more /\ sent + need = Min2(response.size, Limit)
      /\ response.framing = "chunked" => (more <=> need < chunk)
      /\ more => sent + need = Limit
  BY DEF IInv, StreamInv, WantInv
<1>5. /\ body' = Content(sent') /\ Len(body') = sent' /\ sent' \in Nat
  <2>1. body' = Append(Content(sent), Piece(sent + 1))
    BY <1>2, <1>3 DEF TakeData
  <2>2. sent + 1 \in Nat
    BY <1>3
  <2> QED
    BY <1>2, <1>3, <2>1, <2>2, ContentGrows
<1>6. need' = need - 1 /\ more' = more /\ need' \in Nat
      /\ sent' + need' = sent + need
  BY <1>2, <1>3, <1>4 DEF TakeData
<1>7. CASE need > 1
  <2>1. UNCHANGED <<pc, result>>
    BY <1>7 DEF TakeData
  <2>2. due' = "data" /\ need' \in 1..chunk' /\ (need' < chunk' <=> need < chunk)
    BY <1>2, <1>3, <1>4, <1>6, <1>7
  <2>3. PlaceInv' /\ WantInv'
    BY <1>4, <1>6, <2>1, <2>2 DEF PlaceInv, WantInv
  <2>4. /\ need' + sent' <= Limit /\ sent' <= Limit
        /\ sent' + chunk' <= response.size
    BY <1>2, <1>3, <1>4, <1>5, <1>6
  <2> QED
    BY <1>1, <1>5, <1>6, <2>1, <2>3, <2>4, StreamGoesOn
<1>8. CASE ~(need > 1) /\ (response.framing = "length" \/ more \/ Len(body') = Limit)
  <2>1. pc' = "done" /\ need = 1 /\ need' = 0 /\ sent' = sent + need
    BY <1>2, <1>3, <1>4, <1>6, <1>8 DEF TakeData
  <2>2. sent' = Min2(response.size, Limit)
    <3>1. CASE response.framing = "length"
      BY <1>4, <2>1, <3>1
    <3>2. CASE more \/ Len(body') = Limit
      <4>1. sent' = Limit
        BY <1>4, <1>5, <2>1, <3>2
      <4>2. sent' <= response.size
        BY <1>2, <1>3, <1>4
      <4> QED
        BY <1>3, <4>1, <4>2 DEF Min2
    <3> QED
      BY <1>8, <3>1, <3>2
  <2>3. need' + Len(body') <= Limit
    BY <1>3, <1>4, <1>5, <2>1
  <2> QED
    BY <1>5, <1>6, <2>1, <2>2, <2>3, StreamDone
<1>9. CASE ~(need > 1)
           /\ ~(response.framing = "length" \/ more \/ Len(body') = Limit)
  <2>1. pc' = "terminator" /\ UNCHANGED result
    BY <1>9 DEF TakeData
  <2>2. need = 1 /\ chunk = 1 /\ response.framing = "chunked"
    BY <1>3, <1>4, <1>9
  <2>3. due' = "eol" /\ need' = 0 /\ chunk' = 0
    BY <1>2, <1>6, <2>2
  <2>4. PlaceInv' /\ WantInv'
    BY <2>1, <2>2, <2>3 DEF PlaceInv, WantInv
  <2>5. /\ need' + sent' <= Limit /\ sent' <= Limit
        /\ sent' + chunk' <= response.size
    BY <1>2, <1>3, <1>4, <1>5, <2>2, <2>3
  <2> QED
    BY <1>1, <1>5, <1>6, <2>1, <2>4, <2>5, StreamGoesOn
<1> QED
  BY <1>7, <1>8, <1>9

\* The line after a chunk, and those after the last one.
LEMMA LineTaken ==
  ASSUME IInv, NEW token, response' = response, Deliver(token),
         \/ pc = "terminator" /\ TakeTerminator(token)
         \/ pc = "trailer" /\ TakeTrailer(token)
  PROVE  StreamInv' /\ need' \in Nat
<1> USE DEF KeepBody, Return, Goto
<1>1. pc \in Reading
  BY DEF Reading
<1>2. /\ DeliverEol(token) /\ response.framing = "chunked" /\ need = 0
      /\ chunk = 0 /\ UNCHANGED <<sent, chunk, need, more, body>>
      /\ pc = "terminator" => due = "eol"
      /\ pc = "trailer" => due = "trailer" /\ sent = response.size
  BY <1>1, Delivered
  DEF IInv, StreamInv, PlaceInv, DeliverEol, TakeTerminator, TakeTrailer
<1>3. /\ sent \in Nat /\ Limit \in Nat /\ response.size \in Nat
      /\ body = Content(sent) /\ Len(body) = sent /\ sent <= Limit
      /\ sent <= response.size
  BY <1>1, ReadingFacts
<1>4. need' + Len(body') <= Limit
  BY <1>2, <1>3
<1>5. Line # Eol
  BY DEF Line, Eol
<1>6. CASE pc' = "done" /\ result' # "ok"
  BY <1>2, <1>4, <1>6, StreamDone
<1>7. CASE pc' = "done" /\ pc = "trailer"
  <2>1. Min2(response.size, Limit) = sent
    BY <1>2, <1>3, <1>7 DEF Min2
  <2> QED
    BY <1>2, <1>3, <1>4, <1>7, <2>1, StreamDone
<1>8. CASE \/ pc = "terminator" /\ pc' = "size" /\ due' = "size"
           \/ pc = "trailer" /\ pc' = pc /\ due' = due
  <2>1. UNCHANGED result
    BY <1>8 DEF TakeTerminator, TakeTrailer
  <2>2. PlaceInv' /\ WantInv'
    BY <1>2, <1>8 DEF PlaceInv, WantInv
  <2> QED
    BY <1>1, <1>2, <1>3, <1>8, <2>1, <2>2, StreamGoesOn
<1> QED
  BY <1>2, <1>5, <1>6, <1>7, <1>8 DEF DeliverEol, TakeTerminator, TakeTrailer

\* A piece of an unframed body.
LEMMA TailTaken ==
  ASSUME IInv, NEW token, response' = response, pc = "tail",
         Deliver(token), TakeTail(token)
  PROVE  StreamInv' /\ need' \in Nat
<1> USE DEF Return
<1>1. pc \in Reading
  BY DEF Reading
<1>2. /\ token = Piece(sent + 1) /\ due = "data" /\ need = 0 /\ sent < Limit
      /\ sent' = sent + 1 /\ chunk' = chunk - 1 /\ chunk > 0
      /\ response.framing = "close" /\ due' = due
  BY <1>1, Delivered
  DEF DeliverData, IInv, StreamInv, PlaceInv, TimeInv, CtlInv
<1>3. /\ sent \in Nat /\ Limit \in Nat /\ response.size \in Nat
      /\ chunk \in Nat /\ body = Content(sent)
      /\ sent + chunk <= response.size
  BY <1>1, ReadingFacts
<1>4. /\ body' = Content(sent') /\ Len(body') = sent' /\ sent' \in Nat
      /\ need' = 0
  <2>1. body' = Append(Content(sent), Piece(sent + 1)) /\ need' = 0
    BY <1>2, <1>3 DEF TakeTail
  <2>2. sent + 1 \in Nat
    BY <1>3
  <2> QED
    BY <1>2, <1>3, <2>1, <2>2, ContentGrows
<1>5. sent' <= Limit /\ sent' + chunk' <= response.size
      /\ need' + sent' <= Limit /\ need' + Len(body') <= Limit
  BY <1>2, <1>3, <1>4
<1>6. CASE Len(body') = Limit
  <2>1. pc' = "done"
    BY <1>6 DEF TakeTail
  <2> QED
    BY <1>2, <1>4, <1>5, <2>1, StreamDone
<1>7. CASE Len(body') # Limit
  <2>1. UNCHANGED <<pc, result>>
    BY <1>7 DEF TakeTail
  <2>2. PlaceInv' /\ WantInv'
    BY <1>2, <1>3, <1>4, <1>5, <1>7, <2>1 DEF PlaceInv, WantInv
  <2> QED
    BY <1>1, <1>4, <1>5, <2>1, <2>2, StreamGoesOn
<1> QED
  BY <1>6, <1>7

\* Whatever token a read brings, what is kept stays a part of the content.
LEMMA TokenTaken ==
  ASSUME IInv, NEW token, response' = response, pc \in Reading,
         Deliver(token), Take(token) \/ (Return("error") /\ KeepBody)
  PROVE  StreamInv' /\ StreamTypeOK'
<1>1. /\ sent' \in Nat /\ chunk' \in Nat
      /\ due' \in {"head", "size", "data", "eol", "trailer", "nothing"}
  BY Delivered
<1>2. CASE Take(token)
  <2>1. StreamInv' /\ need' \in Nat
    BY <1>2, HeadTaken, SizeTaken, DataTaken, LineTaken, TailTaken DEF Take
  <2> QED
    BY <1>1, <2>1 DEF StreamTypeOK
<1>3. CASE Return("error") /\ KeepBody
  <2>1. pc' = "done" /\ result' = "error" /\ UNCHANGED <<need, body>>
    BY <1>3 DEF Return, KeepBody
  <2>2. need' + Len(body') <= Limit /\ need' \in Nat
    BY <2>1, ReadingFacts
  <2>3. StreamInv'
    BY <2>1, <2>2, StreamDone
  <2> QED
    BY <1>1, <2>2, <2>3 DEF StreamTypeOK
<1> QED
  BY <1>2, <1>3

-----------------------------------------------------------------------------
(* The steps of the whole                                                  *)

\* Until the request is written nothing is read.
LEMMA BeforeSound ==
  ASSUME IInv, Connect \/ Handshake \/ Write
  PROVE  IInv'
<1>1. TimeInv'
  BY BeforeStep DEF IInv
<1>2. /\ UNCHANGED <<response, due, sent, chunk, need, more, body>>
      /\ pc \in {"connect", "handshake", "write"}
      /\ pc' \in {"connect", "handshake", "write", "headers", "done"}
      /\ result' # "ok"
  BY DEF Connect, Connected, Handshake, Write, Return, Goto, peer, wire,
     IInv, TimeInv, CtlInv
<1>3. PlaceInv' /\ WantInv'
  BY <1>2 DEF IInv, StreamInv, PlaceInv, WantInv
<1>4. FramedBodyWhole'
  BY <1>2 DEF IInv, StreamInv, FramedBodyWhole
<1> QED
  BY <1>1, <1>2, <1>3, <1>4 DEF IInv, StreamInv

\* A read that brings a token.
LEMMA ReadStep ==
  ASSUME IInv, Read
  PROVE  IInv'
<1>1. PICK token \in Tokens :
        /\ Deliver(token)
        /\ IF elapsed' >= Timeout THEN Return("error") /\ KeepBody
                                  ELSE Take(token)
  BY Zenon DEF Read
<1>2. /\ pc \in Reading /\ pieces' = 0
      /\ UNCHANGED <<tls, response, sock, left, writtenAt>>
  BY DEF Read, peer
<1>3. PICK d \in 0..sock : elapsed' = elapsed + d
  BY DEF Read
<1>4. elapsed' \in Nat /\ Timeout \in Nat /\ TypeOK /\ CtlInv
  BY <1>3, ExchangeAssumption DEF IInv, TimeInv, TypeOK
<1>5. StreamInv' /\ StreamTypeOK'
  BY <1>1, <1>2, TokenTaken
<1>6. CASE elapsed' >= Timeout
  <2>1. pc' = "done" /\ result' = "error" /\ more' \in BOOLEAN
    BY <1>1, <1>4, <1>6 DEF Return, KeepBody, TypeOK
  <2> QED
    BY <1>2, <1>3, <1>5, <2>1, ReadingStep DEF IInv
<1>7. CASE ~(elapsed' >= Timeout)
  <2>1. /\ \/ pc' = "done" /\ result' \in {"ok", "error"}
           \/ pc' \in Reading /\ UNCHANGED result
        /\ pc' = "tail" => response.framing = "close"
        /\ more' \in BOOLEAN
    BY <1>1, <1>4, <1>7, TakeEffect
  <2>2. elapsed' < Timeout
    BY <1>4, <1>7
  <2> QED
    BY <1>2, <1>3, <1>5, <2>1, <2>2, ReadingStep DEF IInv
<1> QED
  BY <1>6, <1>7

\* A wait brings no token: it is repeated, or it ends the exchange, and only an
\* unframed body successfully.
LEMMA WaitStep ==
  ASSUME IInv, ReadPiece \/ Interrupted \/ End \/ ReadFails
  PROVE  IInv'
<1>1. PICK d \in 0..sock : elapsed' = elapsed + d
  BY DEF ReadPiece, Interrupted, End, ReadFails
<1>2. /\ pc \in Reading
      /\ UNCHANGED <<tls, response, sock, left, sent, chunk, need, more, body,
                     writtenAt>>
      /\ due' \in {due, "nothing"} /\ (pc' # "done" => due' = due)
      /\ \/ /\ tls /\ pieces < Pieces - 1 /\ pieces' = pieces + 1
            /\ UNCHANGED <<pc, result>>
         \/ pieces' = pieces /\ elapsed' < Timeout /\ UNCHANGED <<pc, result>>
         \/ /\ pieces' = pieces /\ pc' = "done"
            /\ result' = "error" \/ (result' = "ok" /\ pc = "tail")
  <2>1. CASE ReadPiece
    BY <2>1 DEF ReadPiece, peer, wire
  <2>2. CASE Interrupted
    BY <2>2 DEF Interrupted, Return, peer, wire
  <2>3. CASE End \/ ReadFails
    BY <2>3 DEF End, ReadFails, Return, peer, wire
  <2> QED
    BY <2>1, <2>2, <2>3
<1>3. /\ TypeOK /\ CtlInv /\ more' \in BOOLEAN /\ result = "none"
      /\ pc \notin {"connect", "handshake", "write", "done"}
      /\ pc = "tail" => response.framing = "close"
  BY <1>2, ReadingType DEF IInv, TimeInv, TypeOK, CtlInv
<1>4. StreamTypeOK'
  BY <1>2, <1>3 DEF StreamTypeOK, TypeOK
<1>5. StreamInv'
  <2>1. CASE pc' = "done"
    <3>1. need' + Len(body') <= Limit
      BY <1>2 DEF IInv, StreamInv, FramedBodyWhole
    <3> QED
      BY <1>2, <1>3, <2>1, <3>1, StreamDone
  <2>2. CASE pc' # "done"
    BY <1>2, <1>3, <2>2
    DEF IInv, StreamInv, PlaceInv, WantInv, FramedBodyWhole
  <2> QED
    BY <2>1, <2>2
<1>6. TimeInv'
  BY <1>1, <1>2, <1>3, <1>4, ReadingStep DEF IInv
<1> QED
  BY <1>5, <1>6 DEF IInv

-----------------------------------------------------------------------------
(* The theorems                                                            *)

\* The invariant of an exchange.
LEMMA Invariant == Spec => []IInv
<1>1. Init => IInv
  <2> SUFFICES ASSUME Init PROVE IInv
    OBVIOUS
  <2> USE ExchangeAssumption DEF Init
  <2>0. /\ Timeout \in Nat /\ Addresses \in Nat \ {0} /\ Writes \in Nat
        /\ Pieces \in Nat \ {0} /\ Limit \in Nat /\ response.size \in Nat
    BY DEF Responses
  <2>1. TypeOK
    <3>1. sock \in 0..Timeout /\ left \in 0..(Addresses + Writes) /\ pieces \in 0..Pieces
      BY <2>0
    <3> QED
      BY <3>1 DEF TypeOK
  <2>2. CtlInv
    BY <2>0 DEF CtlInv
  <2>3. ClockInv
    BY DEF ClockInv, Reading, ReadingBounded, SuccessInTime
  <2>4. body = Content(sent) /\ Len(body) = 0
    BY ContentGrows
  <2>5. FramedBodyWhole
    BY <2>0, <2>4 DEF FramedBodyWhole
  <2>6. StreamInv
    BY <2>0, <2>4, <2>5 DEF StreamInv, PlaceInv, WantInv
  <2> QED
    BY <2>1, <2>2, <2>3, <2>6 DEF IInv, TimeInv
<1>2. IInv /\ [Next]_vars => IInv'
  <2> SUFFICES ASSUME IInv, [Next]_vars PROVE IInv'
    OBVIOUS
  <2>1. CASE UNCHANGED vars
    <3>1. TypeOK'
      BY <2>1 DEF IInv, TimeInv, TypeOK, vars
    <3>2. CtlInv'
      BY <2>1 DEF IInv, TimeInv, CtlInv, vars
    <3>3. ClockInv'
      BY <2>1, Zenon DEF IInv, TimeInv, ClockInv, Bound, ReadingBounded,
         SuccessInTime, vars
    <3>4. StreamInv'
      BY <2>1 DEF IInv, StreamInv, PlaceInv, WantInv, FramedBodyWhole, vars
    <3> QED
      BY <3>1, <3>2, <3>3, <3>4 DEF IInv, TimeInv
  <2> QED
    BY <2>1, BeforeSound, ReadStep, WaitStep, Zenon DEF Next
<1> QED
  BY <1>1, <1>2, PTL DEF Spec

\* The clock, the timeouts of the socket and the places of the exchange are
\* what the code can hold.
THEOREM ExchangeTypeCorrect == Spec => []TypeOK
<1>1. IInv => TypeOK
  BY DEF IInv, TimeInv
<1> QED
  BY <1>1, Invariant, PTL

\* A framed body that is returned is the content up to the limit, wherever the
\* connection ends and however the content is cut into chunks.
THEOREM FramedBodiesWhole == Spec => []FramedBodyWhole
<1>1. IInv => FramedBodyWhole
  BY DEF IInv, StreamInv
<1> QED
  BY <1>1, Invariant, PTL

\* A success comes before the deadline, or with the end of an unframed body.
THEOREM SuccessesInTime == Spec => []SuccessInTime
<1>1. IInv => SuccessInTime
  BY DEF IInv, TimeInv, ClockInv
<1> QED
  BY <1>1, Invariant, PTL

\* The read that is under way at the deadline is the last.
THEOREM ReadsBounded == Spec => []ReadingBounded
<1>1. IInv => ReadingBounded
  BY DEF IInv, TimeInv, ClockInv
<1> QED
  BY <1>1, Invariant, PTL
=============================================================================
