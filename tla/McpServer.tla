---------------------------- MODULE McpServer -----------------------------
(***************************************************************************)
(* The stdio server of crates/symfritz-mcp/src/lib.rs, in the form the     *)
(* `mcp` command runs (serve_io_with_context): a reader thread, the thread *)
(* that called it, a bounded work queue, a fixed pool of workers and one   *)
(* cancellation flag.                                                      *)
(*                                                                         *)
(* A request is known by its position in the input.  Bodies, framing and   *)
(* tool results are abstracted to what the control flow looks at.          *)
(***************************************************************************)
EXTENDS Naturals, Sequences, FiniteSets

CONSTANTS Main,           \* the thread that called serve_io_with_context
          Workers,        \* the worker threads (MAX_WORKERS = 4)
          QueueCapacity,  \* WORK_QUEUE_CAPACITY = 16
          MaxInput,       \* bound: how many messages a client sends
          None

ASSUME McpAssumption ==
  /\ Workers # {} /\ IsFiniteSet(Workers) /\ Main \notin Workers
  /\ QueueCapacity \in Nat \ {0}
  /\ MaxInput \in Nat
  /\ None \notin Workers \union {Main}

Threads == Workers \union {Main}

\* What read_request returns: a tools/call with an id, any notification (no
\* id), another method with an id, input that does not parse, or an I/O error
\* (a broken frame, too).  The end of the input is the reader hanging up.
Kinds == {"call", "note", "method", "parse", "io"}
Messages == 1..MaxInput

VARIABLES
  input,      \* the kinds of the messages read so far
  reader,     \* "read", "send" or "done"
  chan,       \* the reader's sync_channel(1), at most one position
  pc, item,   \* each thread's place, and the message it works on
  queue,      \* the work queue
  pending,    \* the counter of Pending
  capability, \* the thread that holds the capabilities mutex
  poisoned,   \* a handler panicked while it held it
  writer,     \* the thread that holds the writer mutex past its check
  answers,    \* responses written to the output, by message
  cancelled,  \* the CancellationToken
  late,       \* history: responses written after the cancellation
  outcome     \* what serve_io_with_context returned

vars == <<input, reader, chan, pc, item, queue, pending, capability,
          poisoned, writer, answers, cancelled, late, outcome>>

tools == <<capability, poisoned>>
output == <<writer, answers, late>>

TypeOK ==
  /\ input \in Seq(Kinds) /\ Len(input) <= MaxInput
  /\ reader \in {"read", "send", "done"}
  /\ chan \in Seq(Messages) /\ Len(chan) <= 1
  /\ pc \in [Threads -> {"idle", "lock", "tool", "reply", "write", "complete",
                         "done", "loop", "recv", "enqueue", "flush", "join",
                         "returned"}]
  /\ item \in [Threads -> Messages \union {0}]
  /\ queue \in Seq(Messages) /\ Len(queue) <= QueueCapacity
  /\ pending \in Nat
  /\ capability \in Workers \union {None}
  /\ poisoned \in BOOLEAN
  /\ writer \in Threads \union {None}
  /\ answers \in [Messages -> Nat]
  /\ cancelled \in BOOLEAN
  /\ late \in Nat
  /\ outcome \in {"none", "ok", "cancelled", "io"}

Init ==
  /\ input = <<>> /\ reader = "read" /\ chan = <<>>
  /\ pc = [t \in Threads |-> IF t = Main THEN "loop" ELSE "idle"]
  /\ item = [t \in Threads |-> 0]
  /\ queue = <<>> /\ pending = 0
  /\ capability = None /\ poisoned = FALSE
  /\ writer = None /\ answers = [m \in Messages |-> 0] /\ late = 0
  /\ cancelled = FALSE /\ outcome = "none"

Goto(t, label) == pc' = [pc EXCEPT ![t] = label]
GotoWith(t, label, m) == Goto(t, label) /\ item' = [item EXCEPT ![t] = m]

\* The receiving end of the reader's channel, and the sending end of the
\* work queue, live as long as the main thread is in its loop.
Serving == pc[Main] \notin {"join", "returned"}

-----------------------------------------------------------------------------
(* The reader thread                                                       *)

\* The flag is looked at before each read; a read that has begun can return
\* a message after it was set.
ReadMessage(k) ==
  /\ reader = "read"
  /\ Len(input) < MaxInput
  /\ input' = Append(input, k)
  /\ reader' = "send"
  /\ UNCHANGED <<chan, pc, item, queue, pending, tools, output, cancelled,
                 outcome>>

ReadEof ==
  /\ reader = "read"
  /\ reader' = "done"
  /\ UNCHANGED <<input, chan, pc, item, queue, pending, tools, output,
                 cancelled, outcome>>

\* The send blocks while the channel is full, and fails when the main thread
\* has returned.  An I/O error is the reader's last event.
SendMessage ==
  /\ reader = "send"
  /\ IF pc[Main] = "returned"
     THEN reader' = "done" /\ UNCHANGED chan
     ELSE /\ chan = <<>>
          /\ chan' = <<Len(input)>>
          /\ reader' \in IF input[Len(input)] = "io" \/ cancelled
                         THEN {"done"} ELSE {"read"}
  /\ UNCHANGED <<input, pc, item, queue, pending, tools, output, cancelled,
                 outcome>>

-----------------------------------------------------------------------------
(* The main thread                                                         *)

Return(result) ==
  /\ Goto(Main, "returned")
  /\ outcome' = result
  /\ UNCHANGED item

Poll ==
  /\ pc[Main] = "loop"
  /\ IF cancelled
     THEN Return("cancelled")
     ELSE Goto(Main, "recv") /\ UNCHANGED <<item, outcome>>
  /\ UNCHANGED <<input, reader, chan, queue, pending, tools, output, cancelled>>

\* recv_timeout ran out: nothing arrived and the reader is still there.
PollAgain ==
  /\ pc[Main] = "recv" /\ chan = <<>> /\ reader # "done"
  /\ Goto(Main, "loop")
  /\ UNCHANGED <<input, reader, chan, item, queue, pending, tools, output,
                 cancelled, outcome>>

ReceiveCallUncounted(m) ==
  /\ input[m] \in {"call", "note"}
  /\ GotoWith(Main, "enqueue", m)
  /\ UNCHANGED <<pending, outcome>>

ReceiveCall(m) ==
  /\ input[m] \in {"call", "note"}
  /\ pending' = pending + 1
  /\ GotoWith(Main, "enqueue", m)
  /\ UNCHANGED outcome

\* initialize, ping, tools/list and unknown methods are answered here.
ReceiveMethod(m) ==
  /\ input[m] = "method"
  /\ GotoWith(Main, "reply", m)
  /\ UNCHANGED <<pending, outcome>>

\* Another notification is dropped here.
ReceiveNotification(m) ==
  /\ input[m] = "note"
  /\ Goto(Main, "loop")
  /\ UNCHANGED <<item, pending, outcome>>

ReceiveParseErrorEager(m) ==
  /\ input[m] = "parse"
  /\ GotoWith(Main, "reply", m)
  /\ UNCHANGED <<pending, outcome>>

\* The error is written only after wait_zero.
ReceiveParseError(m) ==
  /\ input[m] = "parse"
  /\ GotoWith(Main, "flush", m)
  /\ UNCHANGED <<pending, outcome>>

\* An I/O error ends the loop; the threads are joined unless the flag is set.
ReceiveIoError(m) ==
  /\ input[m] = "io"
  /\ outcome' = "io"
  /\ Goto(Main, IF cancelled THEN "returned" ELSE "join")
  /\ UNCHANGED <<item, pending>>

Receive ==
  /\ pc[Main] = "recv" /\ chan # <<>>
  /\ chan' = <<>>
  /\ LET m == Head(chan)
     IN \/ ReceiveCall(m)
        \/ ReceiveMethod(m)
        \/ ReceiveNotification(m)
        \/ ReceiveParseError(m)
        \/ ReceiveIoError(m)
  /\ UNCHANGED <<input, reader, queue, tools, output, cancelled>>

ReceiveHangupReturning ==
  /\ pc[Main] = "recv" /\ chan = <<>> /\ reader = "done"
  /\ Return(IF cancelled THEN "cancelled" ELSE "ok")
  /\ UNCHANGED <<input, reader, chan, queue, pending, tools, output, cancelled>>

ReceiveHangup ==
  /\ pc[Main] = "recv" /\ chan = <<>> /\ reader = "done"
  /\ IF cancelled
     THEN Return("cancelled")
     ELSE /\ outcome' = "ok" /\ Goto(Main, "join") /\ UNCHANGED item
  /\ UNCHANGED <<input, reader, chan, queue, pending, tools, output, cancelled>>

EnqueueStubborn ==
  /\ pc[Main] = "enqueue" /\ Len(queue) < QueueCapacity
  /\ queue' = Append(queue, item[Main])
  /\ GotoWith(Main, "loop", 0)
  /\ UNCHANGED <<input, reader, chan, pending, tools, output, cancelled,
                 outcome>>

Enqueue ==
  /\ pc[Main] = "enqueue"
  /\ IF Len(queue) < QueueCapacity
     THEN /\ queue' = Append(queue, item[Main])
          /\ GotoWith(Main, "loop", 0)
          /\ UNCHANGED outcome
     ELSE cancelled /\ Return("cancelled") /\ UNCHANGED queue
  /\ UNCHANGED <<input, reader, chan, pending, tools, output, cancelled>>

\* wait_zero, and the `?` that returns from the server.
Flush ==
  /\ pc[Main] = "flush"
  /\ IF pending = 0
     THEN Goto(Main, "reply") /\ UNCHANGED <<item, outcome>>
     ELSE cancelled /\ Return("cancelled")
  /\ UNCHANGED <<input, reader, chan, queue, pending, tools, output, cancelled>>

Join ==
  /\ pc[Main] = "join"
  /\ reader = "done" /\ \A w \in Workers : pc[w] = "done"
  /\ Goto(Main, "returned")
  /\ UNCHANGED <<input, reader, chan, item, queue, pending, tools, output,
                 cancelled, outcome>>

-----------------------------------------------------------------------------
(* The workers                                                             *)

TakeNotes(w) ==
  /\ pc[w] = "idle" /\ queue # <<>>
  /\ queue' = Tail(queue)
  /\ \E next \in IF cancelled THEN {"complete"} ELSE {"lock", "reply"} :
       GotoWith(w, next, Head(queue))
  /\ UNCHANGED <<input, reader, chan, pending, tools, output, cancelled,
                 outcome>>

\* A worker takes work without looking at the flag, then skips it when the
\* flag is set.  A notification is not dispatched.  Bad parameters and
\* unknown tools are answered without the capabilities.
Take(w) ==
  /\ pc[w] = "idle" /\ queue # <<>>
  /\ queue' = Tail(queue)
  /\ \E next \in IF cancelled \/ input[Head(queue)] = "note"
                 THEN {"complete"} ELSE {"lock", "reply"} :
       GotoWith(w, next, Head(queue))
  /\ UNCHANGED <<input, reader, chan, pending, tools, output, cancelled,
                 outcome>>

\* dispatch_tool holds the mutex for the whole tool; a poisoned one is an
\* error result.
Lock(w) ==
  /\ pc[w] = "lock" /\ capability = None
  /\ IF poisoned
     THEN Goto(w, "reply") /\ UNCHANGED capability
     ELSE Goto(w, "tool") /\ capability' = w
  /\ UNCHANGED <<input, reader, chan, item, queue, pending, poisoned, output,
                 cancelled, outcome>>

\* The tool returns or fails.  Nothing here bounds how long it takes.
ToolReturns(w) ==
  /\ pc[w] = "tool"
  /\ Goto(w, "reply")
  /\ capability' = None
  /\ UNCHANGED <<input, reader, chan, item, queue, pending, poisoned, output,
                 cancelled, outcome>>

ToolPanicLost(w) ==
  /\ pc[w] = "tool"
  /\ Goto(w, "complete")
  /\ capability' = None
  /\ poisoned' = TRUE
  /\ UNCHANGED <<input, reader, chan, item, queue, pending, output, cancelled,
                 outcome>>

\* The tool panics: the mutex is poisoned, and catch_unwind answers.
ToolPanics(w) ==
  /\ pc[w] = "tool"
  /\ Goto(w, "reply")
  /\ capability' = None
  /\ poisoned' = TRUE
  /\ UNCHANGED <<input, reader, chan, item, queue, pending, output, cancelled,
                 outcome>>

Complete(w) ==
  /\ pc[w] = "complete"
  /\ pending' = pending - 1
  /\ GotoWith(w, "idle", 0)
  /\ UNCHANGED <<input, reader, chan, queue, tools, output, cancelled, outcome>>

Leave(w) ==
  /\ pc[w] = "idle" /\ queue = <<>> /\ ~Serving
  /\ Goto(w, "done")
  /\ UNCHANGED <<input, reader, chan, item, queue, pending, tools, output,
                 cancelled, outcome>>

-----------------------------------------------------------------------------
(* Writing a response, from any thread                                     *)

After(t) == IF t = Main THEN "loop" ELSE "complete"

BeginWriteAlways(t) ==
  /\ pc[t] = "reply" /\ writer = None
  /\ writer' = t /\ Goto(t, "write")
  /\ UNCHANGED <<input, reader, chan, item, queue, pending, tools, answers,
                 late, cancelled, outcome>>

\* Under the writer mutex, CancellationWriter looks at the flag, and drops
\* the bytes or passes them on.
BeginWrite(t) ==
  /\ pc[t] = "reply" /\ writer = None
  /\ IF cancelled
     THEN Goto(t, After(t)) /\ UNCHANGED writer
     ELSE Goto(t, "write") /\ writer' = t
  /\ UNCHANGED <<input, reader, chan, item, queue, pending, tools, answers,
                 late, cancelled, outcome>>

EndWrite(t) ==
  /\ pc[t] = "write"
  /\ answers' = [answers EXCEPT ![item[t]] = @ + 1]
  /\ late' = IF cancelled THEN late + 1 ELSE late
  /\ writer' = None
  /\ Goto(t, After(t))
  /\ UNCHANGED <<input, reader, chan, item, queue, pending, tools, cancelled,
                 outcome>>

Cancel ==
  /\ ~cancelled
  /\ cancelled' = TRUE
  /\ UNCHANGED <<input, reader, chan, pc, item, queue, pending, tools, output,
                 outcome>>

ReaderStep == SendMessage
MainStep == \/ Poll \/ PollAgain \/ Receive \/ ReceiveHangup
            \/ Enqueue \/ Flush \/ Join
WorkerStep(w) == Take(w) \/ Lock(w) \/ Complete(w) \/ Leave(w)
Tool(w) == ToolReturns(w) \/ ToolPanics(w)
WriteStep(t) == BeginWrite(t) \/ EndWrite(t)

Next ==
  \/ \E k \in Kinds : ReadMessage(k)
  \/ ReadEof
  \/ ReaderStep
  \/ MainStep
  \/ \E w \in Workers : WorkerStep(w) \/ Tool(w)
  \/ \E t \in Threads : WriteStep(t)
  \/ Cancel

Spec == Init /\ [][Next]_vars

\* The threads run and the client reads its output; nothing says that the
\* client writes or hangs up, that a tool returns, or that anyone cancels.
FairSpec ==
  /\ Spec
  /\ WF_vars(ReaderStep)
  /\ WF_vars(MainStep)
  /\ \A w \in Workers : WF_vars(WorkerStep(w))
  /\ \A t \in Threads : WF_vars(WriteStep(t))

-----------------------------------------------------------------------------
(* Properties                                                              *)

Expected(m) == input[m] \in {"call", "method", "parse"}

\* No request is answered twice, and no notification is answered, whatever
\* the panics, the poisoned mutex and the order in which workers finish.
AtMostOneAnswer ==
  \A m \in DOMAIN input : answers[m] <= (IF Expected(m) THEN 1 ELSE 0)

\* The counter that wait_zero trusts is the number of tool calls that were
\* accepted and not completed, wherever they are.
PendingExact ==
  Serving => pending = (IF pc[Main] = "enqueue" THEN 1 ELSE 0) + Len(queue)
                         + Cardinality({w \in Workers : pc[w] # "idle"})

\* A parse error cannot be matched to a request by its id (it is null), so
\* its place in the output matters: it comes after the answers of all the
\* tool calls that were read before it.
ParseErrorInOrder ==
  \A m \in DOMAIN input : input[m] = "parse" /\ answers[m] = 1 =>
    \A n \in 1..(m - 1) : input[n] = "call" => answers[n] = 1

\* Late writes are discarded: once the flag is set, at most the one response
\* whose write had begun still comes out, however many tools finish later.
LateWriteAtMostOne == late <= 1

\* When the server returns Ok, or an I/O error that no cancellation hides,
\* every request it read has its answer in the output.
AnsweredOnReturn ==
  pc[Main] = "returned" /\ outcome \in {"ok", "io"} /\ ~cancelled =>
    \A m \in DOMAIN input : Expected(m) => answers[m] = 1

ToolsReturn == \A w \in Workers : []<>(pc[w] # "tool")

\* As long as tools return (the transports under them have deadlines), every
\* request is eventually answered unless someone cancels, while the queue is
\* full as well as after the input has ended.
EveryRequestAnswered ==
  ToolsReturn =>
    \A m \in Messages :
      m \in DOMAIN input /\ Expected(m) ~> cancelled \/ answers[m] = 1

\* Cancelling the serving loop ends it, even when every worker is stuck in a
\* tool that never returns and the queue is full, or the loop waits for them
\* before a parse error.
CancelEndsServing == cancelled /\ Serving ~> pc[Main] = "returned"

\* The doc comment of serve_io_with_context: on cancellation the call returns
\* without joining a worker blocked in a foreign operation.
CancelReturns == cancelled ~> pc[Main] = "returned"
=============================================================================
