--------------------------- MODULE HttpExchange ---------------------------
(***************************************************************************)
(* One `execute` of crates/symfritz-tr064/src/transport.rs, from the first *)
(* address to the body: its deadline, the timeouts of the socket and the   *)
(* framing of the response.  (Transport models what `send` makes of its    *)
(* results, and the certificate pin.)                                      *)
(*                                                                         *)
(* A response comes as tokens: pieces of the head, lines of the chunked    *)
(* coding and numbered pieces of the content.  The router may stop sending *)
(* at any of them, close or reset the connection, and take up to the       *)
(* socket timeout for each.                                                *)
(***************************************************************************)
EXTENDS Naturals, Sequences

CONSTANTS Timeout,    \* self.timeout; the deadline is that long after Begin
          Addresses,  \* self.resolved_ips.len()
          Writes,     \* write calls that a request takes
          Pieces,     \* bound: socket reads that a TLS record or flight takes
          Limit,      \* request.response_limit
          Sizes       \* sizes of the content

ASSUME ExchangeAssumption ==
  /\ Timeout \in Nat \ {0} /\ Addresses \in Nat \ {0}
  /\ Writes \in Nat \ {0} /\ Pieces \in Nat \ {0}
  /\ Limit \in Nat
  /\ Sizes \subseteq Nat

\* How the body ends: there is none (204 and 304), Content-Length, chunks or
\* the end of the connection; or the headers contradict each other, name
\* another coding, or do not say.
Framings == {"none", "length", "chunked", "close", "unusable"}

Responses == [framing : Framings, size : Sizes]

\* The content, piece by piece.
Piece(i) == <<"data", i>>
Content(size) == [i \in 1..size |-> Piece(i)]

\* Of the head, its last piece ends it; lines of the chunked coding.
Head1 == <<"head", 1>>
Head0 == <<"head", 0>>
Size(n) == <<"size", n>>
Eol == <<"eol", 0>>
Line == <<"line", 0>>

VARIABLES
  tls,       \* the scheme of the target
  response,  \* the response that the router begins to send
  elapsed,   \* since the deadline was set
  sock,      \* read and write timeout of the socket, fixed after connecting
  pc,
  left,      \* addresses or writes still to come
  pieces,    \* pieces of the record under way that have arrived
  due,       \* what the router sends next
  sent,      \* pieces of the content that it has sent
  chunk,     \* pieces that are left of the chunk, or of an unchunked content
  need,      \* what the current read_exact lacks
  more,      \* the current chunk goes on beyond the limit
  body,
  result,
  writtenAt  \* history: when the request was written, or 0

vars == <<tls, response, elapsed, sock, pc, left, pieces, due, sent, chunk,
          need, more, body, result, writtenAt>>
peer == <<tls, response>>
wire == <<due, sent, chunk>>

Reading == {"headers", "body", "tail", "size", "terminator", "trailer"}

TypeOK ==
  /\ tls \in BOOLEAN /\ response \in Responses
  /\ elapsed \in Nat /\ sock \in 0..Timeout /\ writtenAt \in Nat
  /\ pc \in {"connect", "handshake", "write", "done"} \union Reading
  /\ left \in 0..(Addresses + Writes) /\ pieces \in 0..Pieces
  /\ due \in {"head", "size", "data", "eol", "trailer", "nothing"}
  /\ sent \in Nat /\ chunk \in Nat
  /\ need \in Nat /\ more \in BOOLEAN
  /\ result \in {"none", "ok", "error", "unavailable"}

Init ==
  /\ tls \in BOOLEAN
  /\ response \in Responses
  /\ elapsed = 0 /\ sock = 0
  /\ pc = "connect" /\ left = Addresses /\ pieces = 0
  /\ due = "head" /\ sent = 0 /\ chunk = 0 /\ need = 0 /\ more = FALSE /\ body = <<>>
  /\ result = "none" /\ writtenAt = 0

Min2(a, b) == IF a < b THEN a ELSE b
Max2(a, b) == IF a < b THEN b ELSE a

Remaining == IF elapsed < Timeout THEN Timeout - elapsed ELSE 0

Return(r) == pc' = "done" /\ result' = r
Goto(label) == pc' = label /\ UNCHANGED result

-----------------------------------------------------------------------------
(* The router                                                              *)

\* Whatever the head is followed by, chunks announce the rest of the content.
DeliverHead(token) ==
  /\ due = "head"
  /\ \/ token = Head1 /\ UNCHANGED wire
     \/ /\ token = Head0 /\ UNCHANGED sent
        /\ CASE response.framing = "chunked" -> due' = "size" /\ chunk' = 0
             [] response.framing \in {"length", "close"} ->
                  due' = "data" /\ chunk' = response.size
             [] OTHER -> due' = "nothing" /\ chunk' = 0

DeliverSize(token) ==
  /\ due = "size" /\ UNCHANGED sent
  /\ \/ \E n \in 1..(response.size - sent) :
          token = Size(n) /\ chunk' = n /\ due' = "data"
     \/ /\ sent = response.size
        /\ token = Size(0) /\ due' = "trailer" /\ UNCHANGED chunk
     \/ token = Line /\ UNCHANGED <<due, chunk>>

DeliverData(token) ==
  /\ due = "data" /\ chunk > 0
  /\ token = Piece(sent + 1)
  /\ sent' = sent + 1 /\ chunk' = chunk - 1
  /\ due' = IF chunk = 1 /\ response.framing = "chunked" THEN "eol" ELSE due

\* The line after a chunk may be none, and that of the trailer is the last.
DeliverEol(token) ==
  /\ due \in {"eol", "trailer"} /\ UNCHANGED <<sent, chunk>>
  /\ \/ token = Line /\ UNCHANGED due
     \/ token = Eol /\ due' = IF due = "eol" THEN "size" ELSE "nothing"

Deliver(token) ==
  \/ DeliverHead(token) \/ DeliverSize(token)
  \/ DeliverData(token) \/ DeliverEol(token)

Tokens ==
  {Head1, Head0, Line, Eol, Piece(sent + 1)}
    \union {Size(n) : n \in 0..response.size}

-----------------------------------------------------------------------------
(* connect, TLS handshake, write_request                                   *)

\* The connection is up: the socket gets what remains of the time as its
\* timeouts, which cannot be zero.
Connected ==
  /\ sock' = IF elapsed' < Timeout THEN Timeout - elapsed' ELSE 0
  /\ IF sock' = 0
     THEN Return("error") /\ UNCHANGED left
     ELSE /\ Goto(IF tls THEN "handshake" ELSE "write")
          /\ left' = Writes

\* An address that does not answer takes what remains, one that refuses may
\* take less.  The last one decides what the error is.
Connect ==
  /\ pc = "connect"
  /\ \/ /\ Remaining > 0
        /\ \E d \in 0..Remaining : elapsed' = elapsed + d
        /\ Connected
     \/ /\ \E d \in 0..Remaining : elapsed' = elapsed + d
        /\ left' = left - 1
        /\ IF left = 1
           THEN \E r \in {"unavailable", "error"} : Return(r)
           ELSE UNCHANGED <<pc, result>>
        /\ UNCHANGED sock
  /\ UNCHANGED <<peer, pieces, wire, need, more, body, writtenAt>>

\* complete_io returns when the handshake is complete; each of the pieces it
\* waits for has the whole socket timeout, and nobody looks at the deadline.
Handshake ==
  /\ pc = "handshake"
  /\ \E d \in 0..sock : elapsed' = elapsed + d
  /\ \/ pieces < Pieces - 1 /\ pieces' = pieces + 1 /\ UNCHANGED <<pc, result>>
     \/ pieces' = 0 /\ Goto("write")
     \/ Return("error") /\ UNCHANGED pieces
  /\ UNCHANGED <<peer, sock, left, wire, need, more, body, writtenAt>>

\* write_all: each write has the socket timeout, the deadline is not looked
\* at here either.
Write ==
  /\ pc = "write"
  /\ \E d \in 0..sock : elapsed' = elapsed + d
  /\ \/ /\ left' = left - 1
        /\ IF left = 1
           THEN Goto("headers") /\ writtenAt' = elapsed'
           ELSE UNCHANGED <<pc, result, writtenAt>>
     \/ Return("error") /\ UNCHANGED <<left, writtenAt>>
  /\ UNCHANGED <<peer, sock, pieces, wire, need, more, body>>

-----------------------------------------------------------------------------
(* Reading the response                                                    *)

KeepBody == UNCHANGED <<need, more, body>>

\* read_exact_deadline: it reads nothing when nothing is wanted.
ReadExact(size, cut) ==
  /\ need' = size /\ more' = cut /\ UNCHANGED body
  /\ Goto("body")

Framed ==
  IF response.framing = "unusable" THEN Return("error") /\ KeepBody
  ELSE IF response.framing = "none" THEN Return("ok") /\ KeepBody
  ELSE IF response.framing = "chunked" THEN Goto("size") /\ KeepBody
  ELSE IF response.framing = "close"
  THEN IF Limit = 0 THEN Return("ok") /\ KeepBody
                    ELSE Goto("tail") /\ KeepBody
  ELSE LET wanted == Min2(response.size, Limit)
       IN IF wanted = 0 THEN Return("ok") /\ KeepBody
                        ELSE ReadExact(wanted, FALSE)

\* The head is complete with its last piece, and may be malformed.
TakeHead(token) ==
  IF token = Head0
  THEN Framed \/ (Return("error") /\ KeepBody)
  ELSE UNCHANGED <<pc, result>> /\ KeepBody

\* A chunk is read up to the limit; the last one has size zero.
TakeSize(token) ==
  IF token[1] # "size" THEN Return("error") /\ KeepBody
  ELSE IF token[2] = 0 THEN Goto("trailer") /\ KeepBody
  ELSE LET keep == Min2(token[2], Limit - Len(body))
       IN IF keep = 0 THEN Return("ok") /\ KeepBody
                      ELSE ReadExact(keep, keep # token[2])

TakeData(token) ==
  /\ body' = Append(body, token) /\ need' = need - 1 /\ UNCHANGED more
  /\ IF need > 1 THEN UNCHANGED <<pc, result>>
     ELSE IF response.framing = "length" \/ more \/ Len(body') = Limit
     THEN Return("ok")
     ELSE Goto("terminator")

\* The line after a chunk is empty, and the trailer ends with an empty line.
TakeTerminator(token) ==
  /\ IF token = Eol THEN Goto("size") ELSE Return("error")
  /\ KeepBody

TakeTrailer(token) ==
  /\ IF token = Eol THEN Return("ok") ELSE UNCHANGED <<pc, result>>
  /\ KeepBody

\* Without framing the body is all that comes before the end.
TakeTail(token) ==
  /\ body' = Append(body, token) /\ UNCHANGED <<need, more>>
  /\ IF Len(body') = Limit THEN Return("ok") ELSE UNCHANGED <<pc, result>>

Take(token) ==
  \/ pc = "headers" /\ TakeHead(token)
  \/ pc = "size" /\ TakeSize(token)
  \/ pc = "body" /\ TakeData(token)
  \/ pc = "terminator" /\ TakeTerminator(token)
  \/ pc = "trailer" /\ TakeTrailer(token)
  \/ pc = "tail" /\ TakeTail(token)

ReadUnchecked ==
  /\ pc \in Reading
  /\ \E d \in 0..sock : elapsed' = elapsed + d
  /\ pieces' = 0
  /\ \E token \in Tokens :
       /\ Deliver(token)
       /\ IF elapsed' >= Timeout /\ pc = "headers"
          THEN Return("error") /\ KeepBody
          ELSE Take(token)
  /\ UNCHANGED <<peer, sock, left, writtenAt>>

\* A read that brings something; then the deadline is looked at.
Read ==
  /\ pc \in Reading
  /\ \E d \in 0..sock : elapsed' = elapsed + d
  /\ pieces' = 0
  /\ \E token \in Tokens :
       /\ Deliver(token)
       /\ IF elapsed' >= Timeout
          THEN Return("error") /\ KeepBody
          ELSE Take(token)
  /\ UNCHANGED <<peer, sock, left, writtenAt>>

\* A piece of a TLS record: rustls reads on, each time with the whole socket
\* timeout.
ReadPiece ==
  /\ pc \in Reading /\ tls /\ pieces < Pieces - 1
  /\ \E d \in 0..sock : elapsed' = elapsed + d
  /\ pieces' = pieces + 1
  /\ UNCHANGED <<peer, sock, pc, left, wire, need, more, body, result,
                 writtenAt>>

\* A signal interrupts a read, which is repeated before the deadline only.
InterruptedForever ==
  /\ pc \in Reading
  /\ \E d \in 0..sock : elapsed' = elapsed + d
  /\ UNCHANGED <<pc, result>>
  /\ UNCHANGED <<peer, sock, left, pieces, wire, need, more, body, writtenAt>>

Interrupted ==
  /\ pc \in Reading
  /\ \E d \in 0..sock : elapsed' = elapsed + d
  /\ IF elapsed' < Timeout THEN UNCHANGED <<pc, result>> ELSE Return("error")
  /\ UNCHANGED <<peer, sock, left, pieces, wire, need, more, body, writtenAt>>

EndAccepted ==
  /\ pc \in Reading
  /\ \E d \in 0..sock : elapsed' = elapsed + d
  /\ due' = "nothing" /\ UNCHANGED <<sent, chunk>>
  /\ Return(IF pc \in {"tail", "body"} THEN "ok" ELSE "error")
  /\ UNCHANGED <<peer, sock, left, pieces, need, more, body, writtenAt>>

\* The connection ends, with or without a proper close, before everything
\* arrived or after.  Only an unframed body ends like that.
End ==
  /\ pc \in Reading
  /\ \E d \in 0..sock : elapsed' = elapsed + d
  /\ due' = "nothing" /\ UNCHANGED <<sent, chunk>>
  /\ Return(IF pc = "tail" THEN "ok" ELSE "error")
  /\ UNCHANGED <<peer, sock, left, pieces, need, more, body, writtenAt>>

\* Nothing comes within the socket timeout, or the connection is reset.
ReadFails ==
  /\ pc \in Reading
  /\ \E d \in 0..sock : elapsed' = elapsed + d
  /\ Return("error")
  /\ UNCHANGED <<peer, sock, left, pieces, wire, need, more, body, writtenAt>>

Next ==
  \/ Connect \/ Handshake \/ Write
  \/ Read \/ ReadPiece \/ Interrupted \/ End \/ ReadFails

Spec == Init /\ [][Next]_vars

-----------------------------------------------------------------------------
(* Properties                                                              *)

\* No more is ever asked for than the limit leaves, and a framed response is
\* never shortened but by the limit, wherever the router stops, and holds
\* nothing but content: the lines of the chunked coding stay out of it and no
\* chunk is skipped.
FramedBodyWhole ==
  /\ need + Len(body) <= Limit
  /\ result = "ok" /\ response.framing \in {"length", "chunked"} =>
       body = SubSeq(Content(response.size), 1,
                     Min2(response.size, Limit))

\* A success comes before the deadline.  Only the end of an unframed body
\* may come up to one socket timeout later, because it is not checked.
SuccessInTime ==
  result = "ok" =>
    \/ elapsed < Timeout
    \/ response.framing = "close" /\ elapsed < Timeout + Pieces * sock

\* Once the request was written, a read that was under way at the deadline is
\* the last: over TCP the exchange is over one socket timeout later, over TLS
\* one for each piece of a record.
ReadingBounded ==
  writtenAt > 0 =>
    elapsed <= Max2(Timeout, writtenAt) + (IF tls THEN Pieces ELSE 1) * sock
=============================================================================
