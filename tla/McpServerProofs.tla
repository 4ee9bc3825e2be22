------------------------- MODULE McpServerProofs --------------------------
(***************************************************************************)
(* Proofs about McpServer, for every number of workers, every capacity of  *)
(* the queue and every input.                                              *)
(***************************************************************************)
EXTENDS McpServer, TLAPS, FiniteSetTheorems

-----------------------------------------------------------------------------
(* The invariant                                                           *)

\* How many messages have left the reader's channel.
Received == Len(input) - (IF reader = "send" THEN 1 ELSE 0) - Len(chan)

Working == {"lock", "tool", "reply", "write", "complete", "enqueue", "flush"}

\* A thread that works on a message.
Holds(t) == pc[t] \in Working

\* A thread whose message may still be answered.
Owes(t) == Holds(t) /\ pc[t] # "complete"

\* The messages come through the channel in the order they were read, and
\* the threads end in order: nobody leaves while there may be work, unless
\* the call was cancelled.
OrderInv ==
  /\ Len(chan) + (IF reader = "send" THEN 1 ELSE 0) <= Len(input)
  /\ chan # <<>> /\ pc[Main] # "returned" => chan[1] = Received + 1
  /\ chan # <<>> => chan[1] \in 1..Len(input)
  /\ chan # <<>> /\ input[chan[1]] = "io" => reader = "done"
  /\ pc[Main] = "join" => reader = "done" /\ chan = <<>>
  /\ pc[Main] = "returned" =>
       cancelled \/ (reader = "done" /\ chan = <<>> /\ \A w \in Workers : pc[w] = "done")
  /\ \A w \in Workers : pc[w] = "done" => ~Serving /\ queue = <<>>

\* A message is in one place.
PlaceInv ==
  /\ \A t \in Threads : Holds(t) => item[t] \in 1..Received
  /\ \A i \in 1..Len(queue) : queue[i] \in 1..Received
  /\ \A t, u \in Threads : Holds(t) /\ Holds(u) /\ item[t] = item[u] => t = u
  /\ \A i, j \in 1..Len(queue) : queue[i] = queue[j] => i = j
  /\ \A t \in Threads : Holds(t) => \A i \in 1..Len(queue) : queue[i] # item[t]

\* What a message is, by its place.
KindInv ==
  /\ pc[Main] \in {"loop", "recv", "enqueue", "flush", "reply", "write", "join",
                   "returned"}
  /\ pc[Main] = "enqueue" => input[item[Main]] \in {"call", "note"}
  /\ pc[Main] = "flush" => input[item[Main]] = "parse"
  /\ pc[Main] \in {"reply", "write"} => input[item[Main]] \in {"method", "parse"}
  /\ \A i \in 1..Len(queue) : input[queue[i]] \in {"call", "note"}
  /\ \A w \in Workers :
       /\ pc[w] \in {"idle", "lock", "tool", "reply", "write", "complete", "done"}
       /\ pc[w] \in {"lock", "tool", "reply", "write"} => input[item[w]] = "call"

\* A message that is still somewhere has no answer yet.
AnswerInv ==
  /\ \A m \in Messages : answers[m] \in {0, 1}
  /\ \A m \in Messages : m > Received => answers[m] = 0
  /\ \A i \in 1..Len(queue) : answers[queue[i]] = 0
  /\ \A t \in Threads : Owes(t) => answers[item[t]] = 0
  /\ \A m \in 1..Len(input) : ~Expected(m) => answers[m] = 0

\* A message without an answer is still somewhere, until the cancellation.
KeptInv ==
  \A m \in 1..Received :
    Expected(m) =>
      \/ answers[m] = 1 \/ cancelled
      \/ \E i \in 1..Len(queue) : queue[i] = m
      \/ \E t \in Threads : Owes(t) /\ item[t] = m

Busy == {w \in Workers : pc[w] \notin {"idle", "done"}}

Open == (IF pc[Main] = "enqueue" THEN 1 ELSE 0) + Len(queue) + Cardinality(Busy)

\* The counter, which is left behind when the loop gives up an enqueue.
PendInv == pending >= Open /\ (Serving => pending = Open)

\* A write that has begun is the only one, and none begins late.
LateInv ==
  /\ \A t \in Threads : pc[t] = "write" => writer = t
  /\ late \in {0, 1}
  /\ ~cancelled => late = 0
  /\ late = 1 => writer = None

CallsBefore(m) == \A n \in 1..(m - 1) : input[n] = "call" => answers[n] = 1

\* A parse error on its way out has all the calls before it answered.
ParseInv ==
  /\ \A m \in 1..Len(input) : input[m] = "parse" /\ answers[m] = 1 => CallsBefore(m)
  /\ pc[Main] = "reply" /\ input[item[Main]] = "parse" =>
       cancelled \/ CallsBefore(item[Main])
  /\ pc[Main] = "write" /\ input[item[Main]] = "parse" => CallsBefore(item[Main])

IInv ==
  /\ TypeOK /\ OrderInv /\ PlaceInv /\ KindInv /\ AnswerInv /\ KeptInv
  /\ PendInv /\ LateInv /\ ParseInv

-----------------------------------------------------------------------------
(* Frames: what a step may do without touching a part of the invariant     *)

\* One thread goes to another place.
LEMMA GotoEffect ==
  ASSUME TypeOK, NEW t \in Threads, NEW label, Goto(t, label)
  PROVE  pc'[t] = label /\ \A u \in Threads \ {t} : pc'[u] = pc[u]
BY DEF Goto, TypeOK

\* A thread goes to a place with a message; the others stay.
LEMMA GotoWithEffect ==
  ASSUME TypeOK, NEW t \in Threads, NEW label, NEW m, GotoWith(t, label, m)
  PROVE  /\ pc'[t] = label /\ \A u \in Threads \ {t} : pc'[u] = pc[u]
         /\ item'[t] = m /\ \A u \in Threads \ {t} : item'[u] = item[u]
BY DEF GotoWith, Goto, TypeOK

\* What was read stays.
Longer ==
  /\ Len(input) <= Len(input')
  /\ \A m \in 1..Len(input) : input'[m] = input[m]

\* What has left the channel is a part of the input.
LEMMA ReceivedType ==
  ASSUME TypeOK, OrderInv
  PROVE  Received \in 0..Len(input) /\ Len(input) \in Nat /\ Len(input) <= MaxInput
<1>1. Len(input) \in Nat /\ Len(chan) \in Nat /\ Len(input) <= MaxInput
  BY DEF TypeOK
<1> QED
  BY <1>1 DEF OrderInv, Received

\* Messages stay where they are when no thread gets one.
LEMMA PlaceFrame ==
  ASSUME PlaceInv, UNCHANGED queue, Received \in Nat, Received' \in Nat, Received <= Received',
         \A t \in Threads : Holds(t)' => Holds(t) /\ item'[t] = item[t]
  PROVE  PlaceInv'
<1>1. \A t \in Threads : Holds(t)' => item'[t] \in 1..Received'
  BY DEF PlaceInv
<1>2. \A i \in 1..Len(queue') : queue'[i] \in 1..Received'
  BY DEF PlaceInv
<1>3. \A t, u \in Threads : Holds(t)' /\ Holds(u)' /\ item'[t] = item'[u] => t = u
  BY DEF PlaceInv
<1>4. \A i, j \in 1..Len(queue') : queue'[i] = queue'[j] => i = j
  BY DEF PlaceInv
<1>5. \A t \in Threads : Holds(t)' => \A i \in 1..Len(queue') : queue'[i] # item'[t]
  BY DEF PlaceInv
<1> QED
  BY <1>1, <1>2, <1>3, <1>4, <1>5, Zenon DEF PlaceInv

\* Answers stay right when none is given and the input only grows.
LEMMA AnswerFrame ==
  ASSUME TypeOK, OrderInv, AnswerInv, UNCHANGED <<queue, answers>>, Longer, Len(input') \in Nat,
         Len(input') <= MaxInput,
         Received' \in Nat, Received <= Received',
         \A t \in Threads : Owes(t)' => Owes(t) /\ item'[t] = item[t]
  PROVE  AnswerInv'
<1>0. Received \in 0..Len(input) /\ Len(input) \in Nat
  BY ReceivedType
<1>1. \A m \in Messages : answers'[m] \in {0, 1}
  BY DEF AnswerInv
<1>2. \A m \in Messages : m > Received' => answers'[m] = 0
  BY <1>0 DEF AnswerInv, Messages
<1>3. \A i \in 1..Len(queue') : answers'[queue'[i]] = 0
  BY DEF AnswerInv
<1>4. \A t \in Threads : Owes(t)' => answers'[item'[t]] = 0
  BY DEF AnswerInv
<1>5. ASSUME NEW m \in 1..Len(input'), ~Expected(m)'
      PROVE  answers'[m] = 0
  <2>1. CASE m <= Len(input)
    <3>1. m \in 1..Len(input) /\ ~Expected(m)
      BY <2>1, <1>5, <1>0 DEF Longer, Expected
    <3> QED
      BY <3>1 DEF AnswerInv
  <2>2. CASE m > Len(input)
    <3>1. m \in Messages /\ m > Received
      BY <2>2, <1>0, McpAssumption DEF Messages
    <3> QED
      BY <3>1 DEF AnswerInv
  <2> QED
    BY <2>1, <2>2, <1>0
<1> QED
  BY <1>1, <1>2, <1>3, <1>4, <1>5, Zenon DEF AnswerInv

\* What is open stays somewhere when no thread lets go of it.
LEMMA KeptFrame ==
  ASSUME TypeOK, OrderInv, KeptInv, UNCHANGED <<queue, answers>>, Longer,
         cancelled' \/ (~cancelled /\ Received' = Received
           /\ \A t \in Threads : Owes(t) => Owes(t)' /\ item'[t] = item[t])
  PROVE  KeptInv'
<1>1. CASE cancelled'
  BY <1>1, Zenon DEF KeptInv
<1>2. CASE ~cancelled'
  <2>1. \A m \in 1..Received : Expected(m)' => Expected(m)
    BY ReceivedType DEF Expected, Longer
  <2> QED
    BY <1>2, <2>1, Zenon DEF KeptInv
<1> QED
  BY <1>1, <1>2

\* The counter stays right when the open work does.
LEMMA PendFrame ==
  ASSUME PendInv, UNCHANGED <<queue, pending>>, Serving' => Serving,
         (pc'[Main] = "enqueue") = (pc[Main] = "enqueue"), Busy' = Busy
  PROVE  PendInv'
<1>1. Open' = Open
  BY DEF Open
<1> QED
  BY <1>1, Zenon DEF PendInv

\* The busy workers are the same when none begins or ends its work.
LEMMA BusySame ==
  ASSUME \A w \in Workers : pc'[w] \in {"idle", "done"} <=> pc[w] \in {"idle", "done"}
  PROVE  Busy' = Busy
BY DEF Busy

\* No write begins when no thread comes to one.
LEMMA LateFrame ==
  ASSUME LateInv, UNCHANGED <<late, writer>>, cancelled => cancelled',
         \A t \in Threads : pc'[t] = "write" => pc[t] = "write"
  PROVE  LateInv'
BY DEF LateInv

\* A parse error keeps its calls before it when none is received.
LEMMA ParseFrame ==
  ASSUME TypeOK, OrderInv, AnswerInv, ParseInv, UNCHANGED answers, Longer,
         Len(input') \in Nat, Len(input') <= MaxInput,
         cancelled => cancelled',
         pc'[Main] \in {"reply", "write"} =>
           /\ pc'[Main] = pc[Main] /\ item'[Main] = item[Main]
           /\ item[Main] \in 1..Len(input)
  PROVE  ParseInv'
<1>0. Received \in 0..Len(input) /\ Len(input) \in Nat
  BY ReceivedType
<1>1. ASSUME NEW m \in 1..Len(input), CallsBefore(m)
      PROVE  CallsBefore(m)'
  BY <1>0, <1>1 DEF CallsBefore, Longer
<1>2. ASSUME NEW m \in 1..Len(input'), input'[m] = "parse", answers'[m] = 1
      PROVE  CallsBefore(m)'
  <2>1. m <= Len(input)
    <3>1. m \in Messages
      BY McpAssumption DEF Messages
    <3> QED
      BY <3>1, <1>0, <1>2 DEF AnswerInv
  <2>2. m \in 1..Len(input) /\ input[m] = "parse"
    BY <2>1, <1>0, <1>2 DEF Longer
  <2> QED
    BY <2>2, <1>1, <1>2 DEF ParseInv
<1>3. ASSUME pc'[Main] \in {"reply", "write"}, input'[item'[Main]] = "parse",
             pc'[Main] = "reply" => ~cancelled'
      PROVE  CallsBefore(item[Main])'
  <2>1. pc[Main] = pc'[Main] /\ item'[Main] = item[Main]
    BY <1>3
  <2>2. PICK m \in 1..Len(input) : m = item[Main]
    BY <1>3
  <2>3. input[m] = "parse"
    BY <1>3, <2>1, <2>2 DEF Longer
  <2>4. CallsBefore(item[Main])
    BY <1>3, <2>1, <2>2, <2>3 DEF ParseInv
  <2>5. CallsBefore(m)'
    BY <2>2, <2>4, <1>1, Zenon
  <2> QED
    BY <2>1, <2>2, <2>5, Zenon
<1> QED
  BY <1>2, <1>3, Zenon DEF ParseInv

\* A step that moves no message: threads only go from place to place.
LEMMA Still ==
  ASSUME IInv, TypeOK', OrderInv', UNCHANGED <<queue, answers>>, Longer,
         Received <= Received', cancelled => cancelled',
         \A t \in Threads : Holds(t)' => Holds(t) /\ item'[t] = item[t],
         \A t \in Threads : Owes(t)' => Owes(t),
         cancelled' \/ (Received' = Received /\ \A t \in Threads : Owes(t) => Owes(t)')
  PROVE  PlaceInv' /\ AnswerInv' /\ KeptInv'
<1> USE DEF IInv
<1>1. /\ Received \in 0..Len(input) /\ Received' \in 0..Len(input')
      /\ Len(input') \in Nat /\ Len(input') <= MaxInput
  BY ReceivedType DEF TypeOK, OrderInv, Received
<1>2. Received \in Nat /\ Received' \in Nat
  BY <1>1
<1>3. \A t \in Threads : Owes(t)' => Owes(t) /\ item'[t] = item[t]
  BY DEF Owes
<1>4. PlaceInv'
  BY <1>2, PlaceFrame
<1>5. AnswerInv'
  BY <1>1, <1>2, <1>3, AnswerFrame
<1>6. cancelled' \/ (~cancelled /\ Received' = Received
        /\ \A t \in Threads : Owes(t) => Owes(t)' /\ item'[t] = item[t])
  BY <1>3, Zenon
<1>7. KeptInv'
  BY <1>6, KeptFrame, Zenon
<1> QED
  BY <1>4, <1>5, <1>7

\* And one in which the counter and the output are left alone, too.
LEMMA Quiet ==
  ASSUME IInv, TypeOK', OrderInv', KindInv',
         UNCHANGED <<queue, answers, pending, late, writer>>, Longer,
         Received <= Received', cancelled => cancelled',
         \A t \in Threads : Holds(t)' => Holds(t) /\ item'[t] = item[t],
         \A t \in Threads : Owes(t)' => Owes(t),
         cancelled' \/ (Received' = Received /\ \A t \in Threads : Owes(t) => Owes(t)'),
         Serving' => Serving,
         \A t \in Threads : pc'[t] \in {"enqueue", "write"} => pc'[t] = pc[t],
         pc[Main] = "enqueue" => pc'[Main] = "enqueue" \/ ~Serving',
         pc'[Main] = "reply" => pc[Main] = "reply",
         \A w \in Workers : pc'[w] \in {"idle", "done"} <=> pc[w] \in {"idle", "done"}
  PROVE  IInv'
<1> USE DEF IInv
<1>1. PlaceInv' /\ AnswerInv' /\ KeptInv'
  BY Still
<1>2. PendInv'
  <2>1. Busy' = Busy
    BY BusySame
  <2>2. Main \in Threads
    BY DEF Threads
  <2>3. CASE pc[Main] = "enqueue" /\ pc'[Main] # "enqueue"
    <3>1. ~Serving'
      BY <2>3
    <3>2. Cardinality(Busy) \in Nat /\ Len(queue) \in Nat /\ pending \in Nat
      <4>1. IsFiniteSet(Busy)
        BY McpAssumption, FS_Subset DEF Busy
      <4> QED
        BY <4>1, FS_CardinalityType DEF TypeOK
    <3>3. pending >= Open'
      BY <2>1, <2>3, <3>2 DEF PendInv, Open
    <3> QED
      BY <3>1, <3>3, Zenon DEF PendInv
  <2>4. CASE pc[Main] # "enqueue" \/ pc'[Main] = "enqueue"
    <3>1. (pc'[Main] = "enqueue") = (pc[Main] = "enqueue")
      BY <2>2, <2>4
    <3> QED
      BY <2>1, <3>1, PendFrame
  <2> QED
    BY <2>3, <2>4
<1>3. LateInv'
  BY LateFrame
<1>4. ParseInv'
  <2>1. Main \in Threads
    BY DEF Threads
  <2>2. Len(input') \in Nat /\ Len(input') <= MaxInput
    BY DEF TypeOK
  <2>3. ASSUME pc'[Main] \in {"reply", "write"}
        PROVE  /\ pc'[Main] = pc[Main] /\ item'[Main] = item[Main]
               /\ item[Main] \in 1..Len(input)
    <3>1. pc'[Main] = pc[Main]
      BY <2>1, <2>3
    <3>2. Holds(Main) /\ Holds(Main)'
      BY <2>3, <3>1 DEF Holds, Working
    <3>3. item[Main] \in 1..Received /\ Received \in 0..Len(input) /\ Len(input) \in Nat
      BY <2>1, <3>2, ReceivedType DEF PlaceInv
    <3> QED
      BY <2>1, <3>1, <3>2, <3>3
  <2> QED
    BY <2>2, <2>3, ParseFrame
<1> QED
  BY <1>1, <1>2, <1>3, <1>4

-----------------------------------------------------------------------------
(* The steps that move no message                                          *)

\* A worker goes on, or leaves.
LEMMA WorkerMoves ==
  ASSUME IInv, NEW w \in Workers, NEW label, Goto(w, label),
         \/ pc[w] \in {"lock", "tool"} /\ label \in {"tool", "reply"}
         \/ pc[w] = "idle" /\ label = "done" /\ ~Serving /\ queue = <<>>,
         capability' \in Workers \union {None}, poisoned' \in BOOLEAN,
         UNCHANGED <<input, reader, chan, item, queue, pending, writer, answers,
                     late, cancelled, outcome>>
  PROVE  IInv'
<1> USE DEF IInv
<1>1. /\ w \in Threads /\ w # Main /\ pc'[w] = label
      /\ \A u \in Threads \ {w} : pc'[u] = pc[u]
  BY GotoEffect, McpAssumption DEF Threads
<1>2. pc'[Main] = pc[Main] /\ Main \in Threads
  BY <1>1 DEF Threads
<1>3. TypeOK'
  BY DEF TypeOK, Goto
<1>4. OrderInv'
  BY <1>1, <1>2 DEF OrderInv, Received, Serving, Threads
<1>5. KindInv'
  BY <1>1, <1>2 DEF KindInv, Threads
<1>6. Received' = Received /\ Received \in Nat
  BY ReceivedType DEF Received
<1>7. \A t \in Threads : (Holds(t)' <=> Holds(t)) /\ (Owes(t)' <=> Owes(t))
  BY <1>1 DEF Holds, Owes, Working
<1>8. Longer
  BY DEF Longer, TypeOK
<1>9. \A t \in Threads : pc'[t] \in {"enqueue", "write"} => pc'[t] = pc[t]
  BY <1>1
<1>10. \A u \in Workers : pc'[u] \in {"idle", "done"} <=> pc[u] \in {"idle", "done"}
  BY <1>1 DEF Threads
<1>11. Serving' = Serving
  BY <1>2 DEF Serving
<1> QED
  BY <1>2, <1>3, <1>4, <1>5, <1>6, <1>7, <1>8, <1>9, <1>10, <1>11, Quiet

\* The loop goes round, ends, or gives up what it has when it was cancelled.
LEMMA MainMoves ==
  ASSUME IInv, NEW label \in {"loop", "recv", "join", "returned"}, Goto(Main, label),
         \/ pc[Main] \in {"loop", "recv"}
         \/ pc[Main] \in {"enqueue", "flush"} /\ label = "returned" /\ cancelled
         \/ pc[Main] = "join" /\ label = "returned",
         label = "join" => reader = "done" /\ chan = <<>>,
         label = "returned" =>
           cancelled \/ (reader = "done" /\ chan = <<>> /\ \A w \in Workers : pc[w] = "done"),
         outcome' \in {"none", "ok", "cancelled", "io"},
         UNCHANGED <<input, reader, chan, item, queue, pending, capability, poisoned,
                     writer, answers, late, cancelled>>
  PROVE  IInv'
<1> USE DEF IInv
<1>1. Main \in Threads /\ pc'[Main] = label /\ \A u \in Threads \ {Main} : pc'[u] = pc[u]
  BY GotoEffect DEF Threads
<1>2. \A w \in Workers : pc'[w] = pc[w]
  BY <1>1, McpAssumption DEF Threads
<1>3. TypeOK'
  BY DEF TypeOK, Goto
<1>4. OrderInv'
  BY <1>1, <1>2 DEF OrderInv, Received, Serving
<1>5. KindInv'
  BY <1>1, <1>2 DEF KindInv
<1>6. Received' = Received /\ Received \in Nat
  BY ReceivedType DEF Received
<1>7. /\ \A t \in Threads : (Holds(t)' => Holds(t)) /\ (Owes(t)' => Owes(t))
      /\ cancelled \/ \A t \in Threads : Owes(t) => Owes(t)'
  BY <1>1 DEF Holds, Owes, Working
<1>8. Longer
  BY DEF Longer, TypeOK
<1>9. \A t \in Threads : pc'[t] \in {"enqueue", "write"} => pc'[t] = pc[t]
  BY <1>1
<1>10. pc[Main] = "enqueue" => pc'[Main] = "enqueue" \/ ~Serving'
  BY <1>1 DEF Serving
<1>11. Serving' => Serving
  BY <1>1 DEF Serving
<1> QED
  BY <1>1, <1>2, <1>3, <1>4, <1>5, <1>6, <1>7, <1>8, <1>9, <1>10, <1>11, Quiet

\* The loop looks at the cancellation and waits for the channel.
LEMMA PollStep == IInv /\ Poll => IInv'
BY MainMoves DEF Poll, Return, tools, output, IInv, TypeOK

\* The wait for the channel times out.
LEMMA PollAgainStep == IInv /\ PollAgain => IInv'
BY MainMoves DEF PollAgain, tools, output, IInv, TypeOK

\* The reader has hung up.
LEMMA ReceiveHangupStep == IInv /\ ReceiveHangup => IInv'
BY MainMoves DEF ReceiveHangup, Return, tools, output, IInv, TypeOK

\* The main thread joins the workers.
LEMMA JoinStep == IInv /\ Join => IInv'
BY MainMoves DEF Join, tools, output, IInv, TypeOK, OrderInv

\* A worker takes the mutex of the capabilities.
LEMMA LockStep == ASSUME IInv, NEW w \in Workers, Lock(w) PROVE IInv'
BY WorkerMoves DEF Lock, tools, output, IInv, TypeOK

\* A tool returns or panics.
LEMMA ToolStep == ASSUME IInv, NEW w \in Workers, Tool(w) PROVE IInv'
BY WorkerMoves DEF Tool, ToolReturns, ToolPanics, tools, output, IInv, TypeOK

\* A worker ends.
LEMMA LeaveStep == ASSUME IInv, NEW w \in Workers, Leave(w) PROVE IInv'
BY WorkerMoves DEF Leave, tools, output, IInv, TypeOK

\* A step of the reader thread, or a cancellation.
LEMMA ReaderMoves ==
  ASSUME IInv, TypeOK', OrderInv', Longer, Received <= Received', cancelled => cancelled',
         cancelled' \/ Received' = Received,
         UNCHANGED <<pc, item, queue, pending, capability, poisoned,
                     writer, answers, late, outcome>>
  PROVE  IInv'
<1> USE DEF IInv
<1>1. Main \in Threads /\ Serving' = Serving
  BY DEF Threads, Serving
<1>2. \A t \in Threads : (Holds(t)' <=> Holds(t)) /\ (Owes(t)' <=> Owes(t))
  BY DEF Holds, Owes
<1>3. Received \in 0..Len(input) /\ Len(input) \in Nat
  BY ReceivedType
<1>4. \A t \in Threads : Holds(t) => input'[item[t]] = input[item[t]]
  BY <1>3 DEF PlaceInv, Longer
<1>5. \A i \in 1..Len(queue) : input'[queue[i]] = input[queue[i]]
  BY <1>3 DEF PlaceInv, Longer
<1>6. KindInv'
  BY <1>1, <1>4, <1>5 DEF KindInv, Holds, Working, Threads
<1> QED
  BY <1>1, <1>2, <1>6, Quiet

\* The reader has read a message.
LEMMA ReadMessageStep == ASSUME IInv, NEW k \in Kinds, ReadMessage(k) PROVE IInv'
<1> USE DEF IInv
<1>1. /\ reader = "read" /\ reader' = "send" /\ Len(input) < MaxInput
      /\ input' = Append(input, k) /\ input \in Seq(Kinds) /\ Len(input) \in Nat
      /\ UNCHANGED <<chan, pc, item, queue, pending, capability, poisoned,
                     writer, answers, late, cancelled, outcome>>
  BY DEF ReadMessage, tools, output, TypeOK
<1>2. /\ input' \in Seq(Kinds) /\ Len(input') = Len(input) + 1
      /\ \A m \in 1..Len(input) : input'[m] = input[m]
      /\ Len(input') <= MaxInput
  BY <1>1, McpAssumption
<1>3. TypeOK'
  BY <1>1, <1>2, Zenon DEF TypeOK
<1>4. Longer
  BY <1>1, <1>2 DEF Longer
<1>5. Received' = Received /\ Received \in Nat
  BY <1>1, <1>2, ReceivedType DEF Received, TypeOK
<1>6. OrderInv'
  BY <1>1, <1>2, <1>5 DEF OrderInv, Serving, TypeOK
<1> QED
  BY <1>1, <1>3, <1>4, <1>5, <1>6, ReaderMoves

\* The reader has met the end of the input.
LEMMA ReadEofStep == IInv /\ ReadEof => IInv'
<1> SUFFICES ASSUME IInv, ReadEof PROVE IInv'
  OBVIOUS
<1> USE DEF IInv
<1>1. /\ reader = "read" /\ reader' = "done"
      /\ UNCHANGED <<input, chan, pc, item, queue, pending, capability, poisoned,
                     writer, answers, late, cancelled, outcome>>
  BY DEF ReadEof, tools, output
<1>2. TypeOK'
  BY <1>1 DEF TypeOK
<1>3. Longer
  BY <1>1 DEF Longer, TypeOK
<1>4. Received' = Received /\ Received \in Nat
  BY <1>1, ReceivedType DEF Received
<1>5. OrderInv'
  BY <1>1, <1>4 DEF OrderInv, Serving
<1> QED
  BY <1>1, <1>2, <1>3, <1>4, <1>5, ReaderMoves

\* The reader sends its message to the channel.
LEMMA SendMessageStep == IInv /\ SendMessage => IInv'
<1> SUFFICES ASSUME IInv, SendMessage PROVE IInv'
  OBVIOUS
<1> USE DEF IInv
<1>1. /\ reader = "send"
      /\ UNCHANGED <<input, pc, item, queue, pending, capability, poisoned,
                     writer, answers, late, cancelled, outcome>>
  BY DEF SendMessage, tools, output
<1>2. Len(input) \in Nat /\ Len(input) >= 1 /\ Len(chan) \in Nat /\ Len(input) <= MaxInput
  BY <1>1 DEF OrderInv, TypeOK
<1>3. Longer
  BY <1>1, <1>2 DEF Longer
<1>4. CASE pc[Main] = "returned"
  <2>1. reader' = "done" /\ UNCHANGED chan
    BY <1>4 DEF SendMessage
  <2>2. cancelled
    BY <1>1, <1>4 DEF OrderInv
  <2>3. TypeOK'
    BY <1>1, <2>1 DEF TypeOK
  <2>4. Received' = Received + 1 /\ Received \in Nat
    BY <1>1, <1>2, <2>1, ReceivedType DEF Received
  <2>5. OrderInv'
    BY <1>1, <1>2, <1>4, <2>1, <2>2 DEF OrderInv, Serving
  <2> QED
    BY <1>1, <1>3, <2>2, <2>3, <2>4, <2>5, ReaderMoves
<1>5. CASE pc[Main] # "returned"
  <2>1. /\ chan = <<>> /\ chan' = <<Len(input)>> /\ reader' \in {"done", "read"}
        /\ input[Len(input)] = "io" => reader' = "done"
    BY <1>5 DEF SendMessage
  <2>2. Len(chan) = 0 /\ Len(chan') = 1 /\ chan'[1] = Len(input) /\ chan' # <<>>
        /\ Len(input) \in Messages
    BY <1>2, <2>1, McpAssumption DEF Messages
  <2>3. TypeOK'
    BY <1>1, <2>1, <2>2 DEF TypeOK
  <2>4. Received' = Received /\ Received = Len(input) - 1 /\ Received \in Nat
    BY <1>1, <1>2, <2>1, <2>2, ReceivedType DEF Received
  <2>5. OrderInv'
    BY <1>1, <1>2, <1>5, <2>1, <2>2, <2>4 DEF OrderInv, Serving
  <2> QED
    BY <1>1, <1>3, <2>3, <2>4, <2>5, ReaderMoves
<1> QED
  BY <1>4, <1>5

\* The server is cancelled.
LEMMA CancelStep == IInv /\ Cancel => IInv'
<1> SUFFICES ASSUME IInv, Cancel PROVE IInv'
  OBVIOUS
<1> USE DEF IInv
<1>1. /\ cancelled' = TRUE
      /\ UNCHANGED <<input, reader, chan, pc, item, queue, pending, capability, poisoned,
                     writer, answers, late, outcome>>
  BY DEF Cancel, tools, output
<1>2. TypeOK'
  BY <1>1 DEF TypeOK
<1>3. Longer
  BY <1>1 DEF Longer, TypeOK
<1>4. Received' = Received /\ Received \in Nat
  BY <1>1, ReceivedType DEF Received
<1>5. OrderInv'
  BY <1>1, <1>4 DEF OrderInv, Serving
<1> QED
  BY <1>1, <1>2, <1>3, <1>4, <1>5, ReaderMoves

\* Nothing happens.
LEMMA StutterStep == IInv /\ UNCHANGED vars => IInv'
<1> SUFFICES ASSUME IInv, UNCHANGED vars PROVE IInv'
  OBVIOUS
<1> USE DEF IInv, vars
<1>2. TypeOK'
  BY DEF TypeOK
<1>3. Longer
  BY DEF Longer, TypeOK
<1>4. Received' = Received /\ Received \in Nat
  BY ReceivedType DEF Received
<1>5. OrderInv'
  BY <1>4 DEF OrderInv, Serving
<1> QED
  BY <1>2, <1>3, <1>4, <1>5, ReaderMoves

-----------------------------------------------------------------------------
(* The steps of the output and of the counter                              *)

\* A worker counts its call as done.
LEMMA CompleteStep == ASSUME IInv, NEW w \in Workers, Complete(w) PROVE IInv'
<1> USE DEF IInv
<1>1. /\ w \in Threads /\ w # Main /\ Main \in Threads
      /\ pc[w] = "complete" /\ pc'[w] = "idle" /\ item'[w] = 0
      /\ \A u \in Threads \ {w} : pc'[u] = pc[u] /\ item'[u] = item[u]
      /\ pending' = pending - 1
      /\ UNCHANGED <<input, reader, chan, queue, capability, poisoned, writer,
                     answers, late, cancelled, outcome>>
  BY GotoWithEffect, McpAssumption DEF Complete, tools, output, Threads
<1>2. Busy' = Busy \ {w} /\ w \in Busy /\ IsFiniteSet(Busy)
  BY <1>1, FS_Subset, McpAssumption DEF Busy, Threads
<1>3. Cardinality(Busy') = Cardinality(Busy) - 1 /\ Cardinality(Busy') \in Nat
  BY <1>2, FS_RemoveElement, FS_CardinalityType, FS_Subset
<1>4. Len(queue) \in Nat /\ pending \in Nat
  BY DEF TypeOK
<1>5. PendInv' /\ pending' \in Nat
  <2>1. pc'[Main] = pc[Main]
    BY <1>1
  <2>2. Open' = Open - 1 /\ Open' \in Nat /\ Open \in Nat
    <3>1. Cardinality(Busy) \in Nat
      BY <1>2, FS_CardinalityType
    <3> HIDE DEF Busy
    <3> QED
      BY <1>1, <1>3, <1>4, <2>1, <3>1 DEF Open
  <2>3. pending' >= Open' /\ (Serving => pending' = Open') /\ pending' \in Nat
    BY <1>1, <1>4, <2>2 DEF PendInv
  <2> QED
    BY <2>1, <2>3, Zenon DEF PendInv, Serving
<1>6. TypeOK'
  <2>1. pc' \in [Threads -> {"idle", "lock", "tool", "reply", "write", "complete",
                         "done", "loop", "recv", "enqueue", "flush", "join",
                         "returned"}]
        /\ item' \in [Threads -> Messages \union {0}]
    BY DEF Complete, GotoWith, Goto, TypeOK
  <2> QED
    BY <1>1, <1>5, <2>1 DEF TypeOK
<1>7. OrderInv'
  BY <1>1 DEF OrderInv, Received, Serving, Threads
<1>8. KindInv'
  BY <1>1 DEF KindInv, Threads
<1>9. Received' = Received /\ Received \in Nat
  BY <1>1, ReceivedType DEF Received
<1>10. Longer
  BY <1>1 DEF Longer, TypeOK
<1>11. PlaceInv' /\ AnswerInv' /\ KeptInv'
  <2>1. \A t \in Threads : /\ Holds(t)' => Holds(t) /\ item'[t] = item[t]
                           /\ Owes(t)' <=> Owes(t)
    BY <1>1 DEF Holds, Owes, Working
  <2> QED
    BY <1>1, <1>6, <1>7, <1>9, <1>10, <2>1, Still
<1>12. LateInv'
  <2>1. \A t \in Threads : pc'[t] = "write" => pc[t] = "write"
    BY <1>1
  <2> QED
    BY <1>1, <2>1, LateFrame
<1>13. ParseInv'
  <2>1. Len(input') \in Nat /\ Len(input') <= MaxInput
    BY <1>6 DEF TypeOK
  <2>2. ASSUME pc'[Main] \in {"reply", "write"} PROVE item[Main] \in 1..Len(input)
    BY <1>1, <2>2, ReceivedType DEF PlaceInv, Holds, Working
  <2> QED
    BY <1>1, <1>10, <2>1, <2>2, ParseFrame
<1> QED
  BY <1>5, <1>6, <1>7, <1>8, <1>11, <1>12, <1>13

\* What a thread that writes has in its hands.
LEMMA Writing ==
  ASSUME IInv, NEW t \in Threads, pc[t] \in {"reply", "write"}
  PROVE  /\ item[t] \in 1..Len(input) /\ item[t] \in 1..Received /\ item[t] \in Messages
         /\ Expected(item[t]) /\ Owes(t) /\ Holds(t)
         /\ input[item[t]] = "parse" => t = Main
         /\ After(t) \in {"loop", "complete"} /\ (t = Main <=> After(t) = "loop")
<1> USE DEF IInv
<1>1. Owes(t) /\ Holds(t)
  BY DEF Owes, Holds, Working
<1>2. item[t] \in 1..Received /\ Received \in 0..Len(input) /\ Len(input) \in Nat
      /\ Len(input) <= MaxInput
  BY <1>1, ReceivedType DEF PlaceInv
<1>3. item[t] \in 1..Len(input) /\ item[t] \in Messages
  BY <1>2, McpAssumption DEF Messages
<1>4. Expected(item[t]) /\ (input[item[t]] = "parse" => t = Main)
  BY DEF KindInv, Threads, Expected
<1> QED
  BY <1>1, <1>2, <1>3, <1>4 DEF After

\* A thread takes the mutex of the writer and checks the cancellation.
LEMMA BeginWriteStep == ASSUME IInv, NEW t \in Threads, BeginWrite(t) PROVE IInv'
<1> USE DEF IInv
<1>1. /\ pc[t] = "reply" /\ writer = None
      /\ IF cancelled THEN pc'[t] = After(t) /\ UNCHANGED writer
                      ELSE pc'[t] = "write" /\ writer' = t
      /\ \A u \in Threads \ {t} : pc'[u] = pc[u]
      /\ UNCHANGED <<input, reader, chan, item, queue, pending, capability, poisoned,
                     answers, late, cancelled, outcome>>
  BY GotoEffect DEF BeginWrite, tools
<1>2. /\ item[t] \in 1..Len(input) /\ item[t] \in 1..Received
      /\ Expected(item[t]) /\ Owes(t) /\ Holds(t)
      /\ After(t) \in {"loop", "complete"} /\ (t = Main <=> After(t) = "loop")
  BY <1>1, Writing
<1>3. Main \in Threads /\ Main \notin Workers /\ Workers \subseteq Threads
  BY McpAssumption DEF Threads
<1>4. TypeOK'
  <2>1. pc' = [pc EXCEPT ![t] = pc'[t]]
        /\ pc'[t] \in {"write", "loop", "complete"}
    BY <1>1, <1>2 DEF BeginWrite, Goto, TypeOK
  <2>2. pc' \in [Threads -> {"idle", "lock", "tool", "reply", "write", "complete",
                         "done", "loop", "recv", "enqueue", "flush", "join",
                         "returned"}]
    BY <2>1 DEF TypeOK
  <2> QED
    BY <1>1, <2>2 DEF TypeOK
<1>5. OrderInv'
  BY <1>1, <1>2, <1>3 DEF OrderInv, Received, Serving
<1>6. KindInv'
  BY <1>1, <1>2, <1>3 DEF KindInv
<1>7. Received' = Received /\ Received \in Nat
  BY <1>1, ReceivedType DEF Received
<1>8. Longer
  BY <1>1 DEF Longer, TypeOK
<1>9. PlaceInv' /\ AnswerInv' /\ KeptInv'
  <2>1. \A u \in Threads : /\ Holds(u)' => Holds(u)
                           /\ Owes(u)' => Owes(u)
                           /\ cancelled \/ (Owes(u) => Owes(u)')
    BY <1>1, <1>2 DEF Holds, Owes, Working
  <2> QED
    BY <1>1, <1>4, <1>5, <1>7, <1>8, <2>1, Still
<1>10. PendInv'
  <2>1. \A w \in Workers : pc'[w] \in {"idle", "done"} <=> pc[w] \in {"idle", "done"}
    BY <1>1, <1>2, <1>3
  <2>2. Busy' = Busy
    BY <2>1, BusySame
  <2>3. Serving' = Serving /\ (pc'[Main] = "enqueue") = (pc[Main] = "enqueue")
    BY <1>1, <1>2, <1>3 DEF Serving
  <2> QED
    BY <1>1, <2>2, <2>3, PendFrame
<1>11. LateInv'
  <2>1. None \notin Threads
    BY McpAssumption DEF Threads
  <2>2. \A u \in Threads : pc[u] # "write"
    BY <1>1, <2>1 DEF LateInv
  <2> QED
    BY <1>1, <1>2, <2>2 DEF LateInv
<1>12. ParseInv'
  <2>1. CASE t = Main /\ ~cancelled
    <3>1. pc'[Main] = "write" /\ pc[Main] = "reply"
      BY <1>1, <2>1
    <3>2. input[item[Main]] = "parse" => CallsBefore(item[Main])
      BY <2>1, <3>1 DEF ParseInv
    <3> QED
      BY <1>1, <2>1, <3>1, <3>2 DEF ParseInv, CallsBefore
  <2>2. CASE t # Main \/ cancelled
    <3>1. Len(input') \in Nat /\ Len(input') <= MaxInput
      BY <1>4 DEF TypeOK
    <3>2. pc'[Main] \in {"reply", "write"} => pc'[Main] = pc[Main]
      BY <1>1, <1>2, <1>3, <2>2
    <3>3. ASSUME pc'[Main] \in {"reply", "write"} PROVE item[Main] \in 1..Len(input)
      BY <1>3, <3>2, <3>3, Writing
    <3> QED
      BY <1>1, <1>8, <3>1, <3>2, <3>3, ParseFrame
  <2> QED
    BY <2>1, <2>2
<1> QED
  BY <1>4, <1>5, <1>6, <1>9, <1>10, <1>11, <1>12

\* A thread has written its answer.
LEMMA EndWriteStep == ASSUME IInv, NEW t \in Threads, EndWrite(t) PROVE IInv'
<1> USE DEF IInv
<1> DEFINE m == item[t]
<1>1. /\ pc[t] = "write" /\ pc'[t] = After(t) /\ writer' = None
      /\ \A u \in Threads \ {t} : pc'[u] = pc[u]
      /\ answers' = [answers EXCEPT ![m] = @ + 1]
      /\ late' = IF cancelled THEN late + 1 ELSE late
      /\ UNCHANGED <<input, reader, chan, item, queue, pending, capability, poisoned,
                     cancelled, outcome>>
  BY GotoEffect DEF EndWrite, tools
<1>2. /\ m \in 1..Len(input) /\ m \in 1..Received /\ m \in Messages
      /\ Expected(m) /\ Owes(t) /\ Holds(t)
      /\ input[m] = "parse" => t = Main
      /\ After(t) \in {"loop", "complete"} /\ (t = Main <=> After(t) = "loop")
  BY <1>1, Writing
<1>3. Main \in Threads /\ Main \notin Workers /\ Workers \subseteq Threads
  BY McpAssumption DEF Threads
<1>4. answers[m] = 0 /\ answers'[m] = 1 /\ \A n \in Messages \ {m} : answers'[n] = answers[n]
  BY <1>1, <1>2 DEF AnswerInv, TypeOK
<1>5. Received' = Received /\ Received \in 0..Len(input) /\ Len(input) \in Nat
      /\ Len(input) <= MaxInput
  BY <1>1, ReceivedType DEF Received
<1>6. LateInv'
  <2>1. None \notin Threads /\ writer = t
    BY <1>1, McpAssumption DEF Threads, LateInv
  <2>2. late = 0
    BY <2>1 DEF LateInv
  <2>3. \A u \in Threads : pc'[u] # "write"
    BY <1>1, <1>2, <2>1 DEF LateInv
  <2> QED
    BY <1>1, <2>2, <2>3 DEF LateInv
<1>7. TypeOK'
  <2>1. pc' \in [Threads -> {"idle", "lock", "tool", "reply", "write", "complete",
                         "done", "loop", "recv", "enqueue", "flush", "join",
                         "returned"}]
    BY <1>2 DEF EndWrite, Goto, TypeOK
  <2>2. answers' \in [Messages -> Nat]
    BY <1>1, <1>2 DEF TypeOK
  <2>3. late' \in Nat /\ writer' \in Threads \union {None}
    BY <1>1, <1>6 DEF LateInv
  <2> QED
    BY <1>1, <2>1, <2>2, <2>3 DEF TypeOK
<1>8. OrderInv'
  BY <1>1, <1>2, <1>3 DEF OrderInv, Received, Serving
<1>9. KindInv'
  BY <1>1, <1>2, <1>3 DEF KindInv
<1>10. \A u \in Threads : (Holds(u)' => Holds(u)) /\ (Owes(u)' <=> Owes(u) /\ u # t)
  BY <1>1, <1>2 DEF Holds, Owes, Working
<1>11. PlaceInv'
  BY <1>1, <1>5, <1>10, PlaceFrame
<1> HIDE DEF m
<1>12. AnswerInv'
  <2>1. \A n \in Messages : answers'[n] \in {0, 1}
    BY <1>4 DEF AnswerInv
  <2>2. ASSUME NEW n \in Messages, n > Received' PROVE answers'[n] = 0
    BY <1>2, <1>4, <1>5, <2>2 DEF AnswerInv
  <2>3. ASSUME NEW i \in 1..Len(queue') PROVE answers'[queue'[i]] = 0
    <3>1. queue'[i] = queue[i] /\ queue[i] # m /\ queue[i] \in 1..Received
      BY <1>1, <1>2, <2>3 DEF PlaceInv, m
    <3>2. queue[i] \in Messages
      BY <1>5, <3>1, McpAssumption DEF Messages
    <3> QED
      BY <1>1, <1>4, <2>3, <3>1, <3>2 DEF AnswerInv
  <2>4. ASSUME NEW u \in Threads, Owes(u)' PROVE answers'[item'[u]] = 0
    <3>1. Owes(u) /\ Holds(u) /\ u # t
      BY <1>10, <2>4 DEF Owes
    <3>2. item[u] # m /\ item[u] \in 1..Received
      BY <1>2, <3>1 DEF PlaceInv, m
    <3>3. item[u] \in Messages
      BY <1>5, <3>2, McpAssumption DEF Messages
    <3> QED
      BY <1>1, <1>4, <3>1, <3>2, <3>3 DEF AnswerInv
  <2>5. ASSUME NEW n \in 1..Len(input'), ~Expected(n)' PROVE answers'[n] = 0
    <3>1. n \in 1..Len(input) /\ ~Expected(n) /\ n # m
      BY <1>1, <1>2, <2>5 DEF Expected
    <3>2. n \in Messages
      BY <1>5, <3>1, McpAssumption DEF Messages
    <3> QED
      BY <1>4, <3>1, <3>2 DEF AnswerInv
  <2> QED
    BY <2>1, <2>2, <2>3, <2>4, <2>5, Zenon DEF AnswerInv
<1>13. KeptInv'
  <2> SUFFICES ASSUME NEW n \in 1..Received, Expected(n)', ~cancelled,
                      \A i \in 1..Len(queue) : queue[i] # n, answers'[n] # 1
               PROVE  \E u \in Threads : Owes(u)' /\ item'[u] = n
    BY <1>1, <1>5, Zenon DEF KeptInv
  <2>1. n \in Messages /\ n # m
    BY <1>4, <1>5, McpAssumption DEF Messages
  <2>2. Expected(n) /\ answers[n] # 1
    BY <1>1, <1>4, <2>1 DEF Expected
  <2>3. PICK u \in Threads : Owes(u) /\ item[u] = n
    BY <2>2 DEF KeptInv
  <2>4. u # t
    BY <2>1, <2>3 DEF m
  <2> QED
    BY <1>1, <1>10, <2>3, <2>4
<1>14. PendInv'
  <2>1. \A w \in Workers : pc'[w] \in {"idle", "done"} <=> pc[w] \in {"idle", "done"}
    BY <1>1, <1>2, <1>3
  <2>2. Busy' = Busy
    BY <2>1, BusySame
  <2>3. Serving' = Serving /\ (pc'[Main] = "enqueue") = (pc[Main] = "enqueue")
    BY <1>1, <1>2, <1>3 DEF Serving
  <2> QED
    BY <1>1, <2>2, <2>3, PendFrame
<1>15. ParseInv'
  <2>1. ASSUME NEW k \in 1..Len(input), CallsBefore(k) PROVE CallsBefore(k)'
    <3> SUFFICES ASSUME NEW n \in 1..(k - 1), input'[n] = "call" PROVE answers'[n] = 1
      BY DEF CallsBefore
    <3>1. answers[n] = 1 /\ n \in Messages
      BY <1>1, <1>5, <2>1, McpAssumption DEF CallsBefore, Messages
    <3> QED
      BY <1>4, <3>1
  <2>2. ASSUME NEW k \in 1..Len(input'), input'[k] = "parse", answers'[k] = 1
        PROVE  CallsBefore(k)'
    <3>0. k \in 1..Len(input) /\ input[k] = "parse" /\ k \in Messages
      BY <1>1, <1>5, <2>2, McpAssumption DEF Messages
    <3>1. CASE k = m
      <4>1. t = Main /\ item[Main] = k
        BY <1>2, <3>0, <3>1 DEF m
      <4>2. CallsBefore(k)
        BY <1>1, <3>0, <4>1 DEF ParseInv
      <4> QED
        BY <2>1, <3>0, <4>2
    <3>2. CASE k # m
      <4>1. answers[k] = 1
        BY <1>4, <2>2, <3>0, <3>2
      <4> QED
        BY <2>1, <3>0, <4>1 DEF ParseInv
    <3> QED
      BY <3>1, <3>2
  <2>3. ASSUME pc'[Main] \in {"reply", "write"}, input'[item'[Main]] = "parse",
               pc'[Main] = "reply" => ~cancelled'
        PROVE  CallsBefore(item[Main])'
    <3>1. pc'[Main] = pc[Main] /\ item[Main] \in 1..Len(input)
      BY <1>1, <1>2, <1>3, <2>3, Writing
    <3>2. PICK k \in 1..Len(input) : k = item[Main]
      BY <3>1
    <3>3. CallsBefore(item[Main])
      BY <1>1, <2>3, <3>1 DEF ParseInv
    <3>4. CallsBefore(k)'
      BY <2>1, <3>2, <3>3, Zenon
    <3>5. item'[Main] = k
      BY <1>1, <3>2
    <3> QED
      BY <3>4, <3>5, Zenon
  <2> QED
    BY <2>2, <2>3, Zenon DEF ParseInv
<1> QED
  BY <1>6, <1>7, <1>8, <1>9, <1>11, <1>12, <1>13, <1>14, <1>15

-----------------------------------------------------------------------------
(* The steps that move a message                                           *)

\* What a channel with one place holds.
LEMMA OneMessage ==
  ASSUME NEW c \in Seq(Messages), Len(c) <= 1, c # <<>>
  PROVE  Len(c) = 1 /\ Head(c) = c[1] /\ Head(c) \in Messages
<1>1. Len(c) \in Nat /\ Len(c) # 0
  OBVIOUS
<1>2. Len(c) = 1
  BY <1>1
<1>3. Head(c) = c[1]
  OBVIOUS
<1>4. c[1] \in Messages
  BY <1>2
<1> QED
  BY <1>2, <1>3, <1>4

\* From the channel into the hands of the main thread, or away.
LEMMA ReceiveStep == IInv /\ Receive => IInv'
<1> SUFFICES ASSUME IInv, Receive PROVE IInv'
  OBVIOUS
<1> USE DEF IInv
<1> DEFINE m == Head(chan)
<1>1. /\ pc[Main] = "recv" /\ chan # <<>> /\ chan' = <<>>
      /\ ReceiveCall(m) \/ ReceiveMethod(m) \/ ReceiveNotification(m)
           \/ ReceiveParseError(m) \/ ReceiveIoError(m)
      /\ UNCHANGED <<input, reader, queue, capability, poisoned, writer, answers, late,
                     cancelled>>
  BY Zenon DEF Receive, tools, output
<1>2. /\ Len(chan) = 1 /\ m = chan[1] /\ Len(chan') = 0 /\ m \in Messages
  <2>1. chan \in Seq(Messages) /\ Len(chan) <= 1 /\ chan # <<>>
    BY <1>1 DEF TypeOK
  <2>2. Len(chan) = 1 /\ m = chan[1] /\ m \in Messages
    BY <2>1, OneMessage
  <2>3. Len(chan') = 0
    BY <1>1
  <2> QED
    BY <2>2, <2>3
<1>3. m = Received + 1 /\ m \in 1..Len(input) /\ Received \in Nat /\ Received' = m
      /\ Len(input) \in Nat /\ Len(input) <= MaxInput
  BY <1>1, <1>2, ReceivedType DEF OrderInv, Received
<1> HIDE DEF m
<1>4. \/ /\ input[m] \in {"call", "note"} /\ pending' = pending + 1
         /\ pc'[Main] = "enqueue" /\ item'[Main] = m /\ UNCHANGED outcome
      \/ /\ input[m] = "method" /\ pc'[Main] = "reply" /\ item'[Main] = m
         /\ UNCHANGED <<pending, outcome>>
      \/ /\ input[m] = "parse" /\ pc'[Main] = "flush" /\ item'[Main] = m
         /\ UNCHANGED <<pending, outcome>>
      \/ /\ input[m] \in {"note", "io"} /\ pc'[Main] \in {"loop", "join", "returned"}
         /\ pc'[Main] = "join" => input[m] = "io"
         /\ pc'[Main] = "returned" => cancelled
         /\ UNCHANGED <<item, pending>> /\ outcome' \in {outcome, "io"}
  <2>1. Main \in Threads
    BY DEF Threads
  <2>2. CASE ReceiveCall(m)
    BY <2>1, <2>2, GotoWithEffect DEF ReceiveCall
  <2>3. CASE ReceiveMethod(m)
    BY <2>1, <2>3, GotoWithEffect DEF ReceiveMethod
  <2>4. CASE ReceiveNotification(m)
    BY <2>1, <2>4, GotoEffect DEF ReceiveNotification
  <2>5. CASE ReceiveParseError(m)
    BY <2>1, <2>5, GotoWithEffect DEF ReceiveParseError
  <2>6. CASE ReceiveIoError(m)
    BY <2>1, <2>6, GotoEffect DEF ReceiveIoError
  <2> QED
    BY <1>1, <2>2, <2>3, <2>4, <2>5, <2>6
<1>5. /\ \A w \in Workers : pc'[w] = pc[w] /\ item'[w] = item[w]
      /\ Main \in Threads /\ Workers \subseteq Threads /\ Main \notin Workers
      /\ Threads = Workers \union {Main}
  <2>1. \A u \in Threads \ {Main} : pc'[u] = pc[u] /\ item'[u] = item[u]
    <3>1. CASE ReceiveCall(m) \/ ReceiveMethod(m) \/ ReceiveParseError(m)
      BY <3>1, GotoWithEffect DEF ReceiveCall, ReceiveMethod,
         ReceiveParseError, Threads
    <3>2. CASE ReceiveNotification(m) \/ ReceiveIoError(m)
      BY <3>2, GotoEffect DEF ReceiveNotification, ReceiveIoError, Threads
    <3> QED
      BY <1>1, <3>1, <3>2
  <2> QED
    BY <2>1, McpAssumption DEF Threads
<1>6. TypeOK'
  <2>1. /\ pc' \in [Threads -> {"idle", "lock", "tool", "reply", "write", "complete",
                         "done", "loop", "recv", "enqueue", "flush", "join",
                         "returned"}]
        /\ item' \in [Threads -> Messages \union {0}]
    <3>1. CASE ReceiveCall(m) \/ ReceiveMethod(m) \/ ReceiveParseError(m)
      BY <3>1, <1>2 DEF ReceiveCall, ReceiveMethod, ReceiveParseError,
         GotoWith, Goto, TypeOK
    <3>2. CASE ReceiveNotification(m) \/ ReceiveIoError(m)
      BY <3>2 DEF ReceiveNotification, ReceiveIoError, Goto, TypeOK
    <3> QED
      BY <1>1, <3>1, <3>2
  <2>2. pending' \in Nat /\ outcome' \in {"none", "ok", "cancelled", "io"}
    BY <1>4 DEF TypeOK
  <2>3. chan' \in Seq(Messages) /\ Len(chan') <= 1
    BY <1>1
  <2> QED
    BY <1>1, <2>1, <2>2, <2>3, Zenon DEF TypeOK
<1>7. OrderInv'
  <2>1. pc'[Main] = "join" => reader = "done"
    BY <1>1, <1>2, <1>4 DEF OrderInv
  <2>2. \A w \in Workers : pc'[w] # "done"
    BY <1>1, <1>5 DEF OrderInv, Serving
  <2> QED
    BY <1>1, <1>2, <1>3, <1>4, <2>1, <2>2 DEF OrderInv
<1>8. KindInv'
  BY <1>1, <1>4, <1>5 DEF KindInv
<1>9. ~Holds(Main) /\ ~Owes(Main)
  BY <1>1 DEF Holds, Owes, Working
<1>10. /\ \A w \in Workers : /\ Holds(w)' <=> Holds(w)
                             /\ Owes(w)' <=> Owes(w)
       /\ Holds(Main)' => item'[Main] = m
       /\ Owes(Main)' <=> Expected(m) \/ pc'[Main] = "enqueue"
  <2>1. \A w \in Workers : (Holds(w)' <=> Holds(w)) /\ (Owes(w)' <=> Owes(w))
    BY <1>5 DEF Holds, Owes
  <2>2. Holds(Main)' => item'[Main] = m
    BY <1>4 DEF Holds, Working
  <2>3. Owes(Main)' <=> Expected(m) \/ pc'[Main] = "enqueue"
    BY <1>4 DEF Owes, Holds, Working, Expected
  <2> QED
    BY <2>1, <2>2, <2>3
<1>11. PlaceInv'
  <2>1. \A t \in Threads : Holds(t)' => item'[t] \in 1..m /\ (t # Main => item'[t] < m)
    BY <1>3, <1>5, <1>10 DEF PlaceInv
  <2>2. \A i \in 1..Len(queue) : queue[i] \in 1..m /\ queue[i] < m
    BY <1>3 DEF PlaceInv
  <2>3. \A t, u \in Threads : Holds(t)' /\ Holds(u)' /\ item'[t] = item'[u] => t = u
    <3> SUFFICES ASSUME NEW t \in Threads, NEW u \in Threads, Holds(t)', Holds(u)',
                        item'[t] = item'[u], t # u
                 PROVE  FALSE
      OBVIOUS
    <3>1. CASE t = Main \/ u = Main
      BY <1>3, <1>10, <2>1, <3>1
    <3>2. CASE t # Main /\ u # Main
      BY <1>5, <1>10, <3>2 DEF PlaceInv
    <3> QED
      BY <3>1, <3>2
  <2>4. ASSUME NEW t \in Threads, Holds(t)', NEW i \in 1..Len(queue) PROVE queue[i] # item'[t]
    <3>1. CASE t = Main
      BY <1>3, <1>10, <2>2, <2>4, <3>1
    <3>2. CASE t # Main
      BY <1>5, <1>10, <2>4, <3>2 DEF PlaceInv
    <3> QED
      BY <3>1, <3>2
  <2>5. \A i, j \in 1..Len(queue) : queue[i] = queue[j] => i = j
    BY DEF PlaceInv
  <2> QED
    BY <1>1, <1>3, <2>1, <2>2, <2>3, <2>4, <2>5, Zenon DEF PlaceInv
<1>12. answers[m] = 0
  BY <1>2, <1>3 DEF AnswerInv
<1>13. AnswerInv'
  <2>1. ASSUME NEW n \in Messages, n > Received' PROVE answers[n] = 0
    BY <1>3, <2>1 DEF AnswerInv, Messages
  <2>2. ASSUME NEW t \in Threads, Owes(t)' PROVE answers[item'[t]] = 0
    <3>1. CASE t = Main
      BY <1>10, <1>12, <2>2, <3>1 DEF Owes
    <3>2. CASE t # Main
      BY <1>5, <1>10, <2>2, <3>2 DEF AnswerInv
    <3> QED
      BY <3>1, <3>2
  <2>3. \A n \in 1..Len(input) : ~Expected(n)' => ~Expected(n)
    BY <1>1 DEF Expected
  <2> QED
    BY <1>1, <2>1, <2>2, <2>3 DEF AnswerInv
<1>14. KeptInv'
  <2> SUFFICES ASSUME NEW n \in 1..m, Expected(n)', ~cancelled,
                      \A i \in 1..Len(queue) : queue[i] # n, answers[n] # 1
               PROVE  \E u \in Threads : Owes(u)' /\ item'[u] = n
    BY <1>1, <1>3, Zenon DEF KeptInv
  <2>1. Expected(n)
    BY <1>1 DEF Expected
  <2>2. CASE n = m
    <3>1. Owes(Main)' /\ item'[Main] = m
      BY <1>10, <2>1, <2>2 DEF Owes
    <3> QED
      BY <1>5, <2>2, <3>1
  <2>3. CASE n # m
    <3>1. n \in 1..Received
      BY <1>3, <2>3
    <3>2. PICK u \in Threads : Owes(u) /\ item[u] = n
      BY <2>1, <3>1 DEF KeptInv
    <3>3. u # Main
      BY <1>9, <3>2
    <3> QED
      BY <1>5, <1>10, <3>2, <3>3
  <2> QED
    BY <2>2, <2>3
<1>15. PendInv'
  <2>1. Busy' = Busy
    BY <1>5, BusySame
  <2>2. Cardinality(Busy) \in Nat /\ Len(queue) \in Nat /\ pending \in Nat
    <3>1. IsFiniteSet(Busy)
      BY McpAssumption, FS_Subset DEF Busy
    <3> QED
      BY <3>1, FS_CardinalityType DEF TypeOK
  <2>3. Serving /\ pending = Open /\ Open = Len(queue) + Cardinality(Busy)
    BY <1>1, <2>2 DEF PendInv, Open, Serving
  <2>4. pending' = Open'
    BY <1>1, <1>4, <2>1, <2>2, <2>3 DEF Open
  <2>5. pending' \in Nat
    BY <1>4, <2>2
  <2> QED
    BY <2>4, <2>5 DEF PendInv
<1>16. LateInv'
  <2>1. \A t \in Threads : pc'[t] = "write" => pc[t] = "write"
    BY <1>4, <1>5
  <2> QED
    BY <1>1, <2>1, LateFrame
<1>17. ParseInv'
  <2>1. \A k \in 1..Len(input) : CallsBefore(k)' <=> CallsBefore(k)
    BY <1>1 DEF CallsBefore
  <2>2. pc'[Main] # "write" /\ (pc'[Main] = "reply" => input[item'[Main]] = "method")
    BY <1>4
  <2> QED
    BY <1>1, <2>1, <2>2 DEF ParseInv
<1> QED
  BY <1>6, <1>7, <1>8, <1>11, <1>13, <1>14, <1>15, <1>16, <1>17

\* From there into the queue.
LEMMA EnqueueStep == IInv /\ Enqueue => IInv'
<1> SUFFICES ASSUME IInv, Enqueue PROVE IInv'
  OBVIOUS
<1> USE DEF IInv
<1>1. CASE ~(Len(queue) < QueueCapacity)
  BY <1>1, MainMoves DEF Enqueue, Return, tools, output, TypeOK
<1>2. CASE Len(queue) < QueueCapacity
  <2> DEFINE m == item[Main]
             n == Len(queue)
  <2>0. pc[Main] = "enqueue" /\ Main \in Threads /\ Workers \subseteq Threads
        /\ Main \notin Workers /\ Threads = Workers \union {Main}
    BY McpAssumption DEF Enqueue, Threads
  <2>1. /\ queue' = Append(queue, m) /\ pc'[Main] = "loop" /\ item'[Main] = 0
        /\ \A u \in Threads \ {Main} : pc'[u] = pc[u] /\ item'[u] = item[u]
        /\ UNCHANGED <<input, reader, chan, pending, capability, poisoned, writer,
                       answers, late, cancelled, outcome>>
    BY <1>2, <2>0, GotoWithEffect DEF Enqueue, tools, output
  <2>2. \A w \in Workers : pc'[w] = pc[w] /\ item'[w] = item[w]
    BY <2>0, <2>1
  <2>3. Holds(Main) /\ Owes(Main)
    BY <2>0 DEF Holds, Owes, Working
  <2>4. /\ m \in 1..Received /\ Received \in 0..Len(input) /\ Len(input) \in Nat
        /\ Len(input) <= MaxInput /\ Received' = Received
    BY <2>0, <2>1, <2>3, ReceivedType DEF PlaceInv, Received
  <2>5. m \in Messages
    BY <2>4, McpAssumption DEF Messages
  <2>6. queue \in Seq(Messages) /\ n \in Nat
    BY DEF TypeOK
  <2>7. /\ queue' \in Seq(Messages) /\ Len(queue') = n + 1
        /\ queue'[n + 1] = m /\ \A i \in 1..n : queue'[i] = queue[i]
    BY <2>1, <2>5, <2>6
  <2> HIDE DEF m, n
  <2>8. TypeOK'
    <3>1. /\ pc' \in [Threads -> {"idle", "lock", "tool", "reply", "write", "complete",
                         "done", "loop", "recv", "enqueue", "flush", "join",
                         "returned"}]
          /\ item' \in [Threads -> Messages \union {0}]
      BY <1>2 DEF Enqueue, GotoWith, Goto, TypeOK
    <3>2. Len(queue') <= QueueCapacity
      BY <1>2, <2>6, <2>7, McpAssumption DEF n
    <3> QED
      BY <2>1, <2>7, <3>1, <3>2, Zenon DEF TypeOK
  <2>9. OrderInv'
    <3>1. \A w \in Workers : pc'[w] # "done"
      BY <2>0, <2>2 DEF OrderInv, Serving
    <3> QED
      BY <2>0, <2>1, <2>4, <3>1 DEF OrderInv
  <2>10. KindInv'
    <3>1. \A i \in 1..Len(queue') : input[queue'[i]] \in {"call", "note"}
      <4> SUFFICES ASSUME NEW i \in 1..(n + 1) PROVE input[queue'[i]] \in {"call", "note"}
        BY <2>7
      <4>1. CASE i = n + 1
        BY <2>0, <2>7, <4>1 DEF KindInv, m
      <4>2. CASE i # n + 1
        BY <2>6, <2>7, <4>2 DEF KindInv, n
      <4> QED
        BY <4>1, <4>2
    <3> QED
      BY <2>1, <2>2, <3>1 DEF KindInv
  <2>11. /\ \A w \in Workers : (Holds(w)' <=> Holds(w)) /\ (Owes(w)' <=> Owes(w))
         /\ ~Holds(Main)' /\ ~Owes(Main)'
    BY <2>1, <2>2 DEF Holds, Owes, Working
  <2>12. PlaceInv'
    <3>1. \A t \in Threads : Holds(t)' => Holds(t) /\ t # Main /\ item'[t] = item[t] /\ item[t] # m
      BY <2>0, <2>2, <2>3, <2>11 DEF PlaceInv, m
    <3>2. \A i \in 1..n : queue[i] # m
      BY <2>0, <2>3 DEF PlaceInv, m, n
    <3>3. \A i \in 1..Len(queue') : queue'[i] \in 1..Received
      BY <2>4, <2>6, <2>7 DEF PlaceInv, n
    <3>4. \A i, j \in 1..Len(queue') : queue'[i] = queue'[j] => i = j
      BY <2>6, <2>7, <3>2 DEF PlaceInv, n
    <3>5. \A t \in Threads : Holds(t)' => \A i \in 1..Len(queue') : queue'[i] # item'[t]
      BY <2>6, <2>7, <3>1 DEF PlaceInv, n
    <3>6. \A t \in Threads : Holds(t)' => item'[t] \in 1..Received
      BY <3>1 DEF PlaceInv
    <3>7. \A t, u \in Threads : Holds(t)' /\ Holds(u)' /\ item'[t] = item'[u] => t = u
      BY <3>1 DEF PlaceInv
    <3> QED
      BY <2>4, <3>3, <3>4, <3>5, <3>6, <3>7, Zenon DEF PlaceInv
  <2>13. AnswerInv'
    <3>1. \A i \in 1..Len(queue') : answers[queue'[i]] = 0
      BY <2>0, <2>3, <2>6, <2>7 DEF AnswerInv, m, n
    <3>2. \A t \in Threads : Owes(t)' => answers[item'[t]] = 0
      BY <2>0, <2>2, <2>11 DEF AnswerInv
    <3> QED
      BY <2>1, <2>4, <3>1, <3>2 DEF AnswerInv, Expected
  <2>14. KeptInv'
    <3> SUFFICES ASSUME NEW k \in 1..Received, Expected(k), ~cancelled, answers[k] # 1,
                        \A i \in 1..Len(queue') : queue'[i] # k
                 PROVE  \E u \in Threads : Owes(u)' /\ item'[u] = k
      BY <2>1, <2>4, Zenon DEF KeptInv, Expected
    <3>1. n + 1 \in 1..Len(queue') /\ 1..n \subseteq 1..Len(queue')
      BY <2>6, <2>7
    <3>2. k # m /\ \A i \in 1..n : queue[i] # k
      BY <2>7, <3>1
    <3>3. PICK u \in Threads : Owes(u) /\ item[u] = k
      BY <3>2 DEF KeptInv, n
    <3>4. u # Main
      BY <3>2, <3>3 DEF m
    <3> QED
      BY <2>0, <2>2, <2>11, <3>3, <3>4
  <2>15. PendInv'
    <3>1. Busy' = Busy
      BY <2>2, BusySame
    <3>2. Cardinality(Busy) \in Nat
      <4>1. IsFiniteSet(Busy)
        BY McpAssumption, FS_Subset DEF Busy
      <4> QED
        BY <4>1, FS_CardinalityType
    <3>3. Open' = Open
      BY <2>0, <2>1, <2>6, <2>7, <3>1, <3>2 DEF Open, n
    <3>4. Serving
      BY <2>0 DEF Serving
    <3> QED
      BY <2>1, <3>3, <3>4, Zenon DEF PendInv
  <2>16. LateInv'
    <3>1. \A t \in Threads : pc'[t] = "write" => pc[t] = "write"
      BY <2>0, <2>1
    <3> QED
      BY <2>1, <3>1, LateFrame
  <2>17. ParseInv'
    <3>1. Longer /\ Len(input') \in Nat /\ Len(input') <= MaxInput
      BY <2>1, <2>4 DEF Longer
    <3> QED
      BY <2>1, <3>1, ParseFrame
  <2> QED
    BY <2>8, <2>9, <2>10, <2>12, <2>13, <2>14, <2>15, <2>16, <2>17
<1> QED
  BY <1>1, <1>2

\* From the queue into the hands of a worker.
LEMMA TakeStep == ASSUME IInv, NEW w \in Workers, Take(w) PROVE IInv'
<1> USE DEF IInv
<1> DEFINE m == Head(queue)
           n == Len(queue)
<1>0. /\ Main \in Threads /\ Workers \subseteq Threads /\ w \in Threads
      /\ Main \notin Workers /\ w # Main
  BY McpAssumption DEF Threads
<1>1. /\ pc[w] = "idle" /\ queue # <<>> /\ queue' = Tail(queue)
      /\ \E next \in IF cancelled \/ input[m] = "note"
                     THEN {"complete"} ELSE {"lock", "reply"} : GotoWith(w, next, m)
      /\ UNCHANGED <<input, reader, chan, pending, capability, poisoned, writer,
                     answers, late, cancelled, outcome>>
  BY DEF Take, tools, output
<1>2. queue \in Seq(Messages) /\ n \in Nat /\ n > 0 /\ n <= QueueCapacity
  BY <1>1 DEF TypeOK
<1>3. /\ m = queue[1] /\ m \in Messages /\ queue' \in Seq(Messages) /\ Len(queue') = n - 1
      /\ \A i \in 1..(n - 1) : queue'[i] = queue[i + 1]
  BY <1>1, <1>2
<1> HIDE DEF m, n
<1>4. PICK next \in {"complete", "lock", "reply"} :
        /\ GotoWith(w, next, m)
        /\ IF cancelled \/ input[m] = "note" THEN next = "complete" ELSE next # "complete"
  BY <1>1
<1>5. /\ pc'[w] = next /\ item'[w] = m
      /\ \A u \in Threads \ {w} : pc'[u] = pc[u] /\ item'[u] = item[u]
  BY <1>0, <1>4, GotoWithEffect
<1>6. TypeOK'
  <2>1. /\ pc' \in [Threads -> {"idle", "lock", "tool", "reply", "write", "complete",
                         "done", "loop", "recv", "enqueue", "flush", "join",
                         "returned"}]
        /\ item' \in [Threads -> Messages \union {0}]
    BY <1>3, <1>4 DEF GotoWith, Goto, TypeOK
  <2>2. Len(queue') <= QueueCapacity
    BY <1>2, <1>3, McpAssumption
  <2> QED
    BY <1>1, <1>3, <2>1, <2>2, Zenon DEF TypeOK
<1>7. Received' = Received /\ Received \in 0..Len(input) /\ Len(input) \in Nat
      /\ Len(input) <= MaxInput
  BY <1>1, ReceivedType DEF Received
<1>8. OrderInv'
  <2>1. \A u \in Workers : pc[u] # "done"
    BY <1>1 DEF OrderInv
  <2> QED
    BY <1>0, <1>1, <1>5, <1>7, <2>1 DEF OrderInv
<1>9. \A i \in 1..Len(queue') : i + 1 \in 1..n /\ queue'[i] = queue[i + 1]
  BY <1>2, <1>3
<1>10. 1 \in 1..n /\ m = queue[1] /\ input[m] \in {"call", "note"} /\ m \in 1..Received
       /\ answers[m] = 0
  <2>1. 1 \in 1..Len(queue)
    BY <1>2 DEF n
  <2> QED
    BY <1>3, <2>1 DEF KindInv, PlaceInv, AnswerInv, n
<1>11. KindInv'
  <2>1. \A i \in 1..Len(queue') : input[queue'[i]] \in {"call", "note"}
    BY <1>9 DEF KindInv, n
  <2>2. next # "complete" => input[m] = "call"
    BY <1>4, <1>10
  <2> QED
    BY <1>0, <1>1, <1>5, <2>1, <2>2 DEF KindInv
<1>12. ~Holds(w) /\ Holds(w)' /\ (Owes(w)' <=> next # "complete")
       /\ \A u \in Threads \ {w} : (Holds(u)' <=> Holds(u)) /\ (Owes(u)' <=> Owes(u))
  BY <1>1, <1>5 DEF Holds, Owes, Working
<1>13. PlaceInv'
  <2>1. \A u \in Threads \ {w} : Holds(u)' => Holds(u) /\ item'[u] = item[u] /\ item[u] # m
    BY <1>5, <1>10, <1>12 DEF PlaceInv, n
  <2>2. \A t \in Threads : Holds(t)' => item'[t] \in 1..Received'
    <3>1. \A t \in Threads \ {w} : Holds(t)' => item'[t] \in 1..Received'
      BY <1>7, <2>1 DEF PlaceInv
    <3> QED
      BY <1>5, <1>7, <1>10, <3>1
  <2>3. \A i \in 1..Len(queue') : queue'[i] \in 1..Received'
    BY <1>7, <1>9 DEF PlaceInv, n
  <2>4. ASSUME NEW t \in Threads, NEW u \in Threads, Holds(t)', Holds(u)', item'[t] = item'[u]
        PROVE  t = u
    <3>1. CASE t = w \/ u = w
      BY <1>5, <2>1, <2>4, <3>1
    <3>2. CASE t # w /\ u # w
      BY <2>1, <2>4, <3>2 DEF PlaceInv
    <3> QED
      BY <3>1, <3>2
  <2>5. ASSUME NEW i \in 1..Len(queue'), NEW j \in 1..Len(queue'), queue'[i] = queue'[j]
        PROVE  i = j
    <3>1. i + 1 = j + 1
      BY <1>9, <2>5 DEF PlaceInv, n
    <3> QED
      BY <3>1
  <2>6. ASSUME NEW t \in Threads, Holds(t)', NEW i \in 1..Len(queue')
        PROVE  queue'[i] # item'[t]
    <3>1. i + 1 \in 1..n /\ i + 1 # 1 /\ queue'[i] = queue[i + 1]
      BY <1>9
    <3>2. CASE t = w
      BY <1>3, <1>5, <1>10, <3>1, <3>2 DEF PlaceInv, n
    <3>3. CASE t # w
      BY <2>1, <2>6, <3>1, <3>3 DEF PlaceInv, n
    <3> QED
      BY <3>2, <3>3
  <2> QED
    BY <2>2, <2>3, <2>4, <2>5, <2>6, Zenon DEF PlaceInv
<1>14. AnswerInv'
  <2>1. \A i \in 1..Len(queue') : answers[queue'[i]] = 0
    BY <1>9 DEF AnswerInv, n
  <2>2. ASSUME NEW t \in Threads, Owes(t)' PROVE answers[item'[t]] = 0
    <3>1. CASE t = w
      BY <1>5, <1>10, <3>1
    <3>2. CASE t # w
      BY <1>5, <1>12, <2>2, <3>2 DEF AnswerInv
    <3> QED
      BY <3>1, <3>2
  <2> QED
    BY <1>1, <1>7, <2>1, <2>2 DEF AnswerInv, Expected
<1>15. KeptInv'
  <2> SUFFICES ASSUME NEW k \in 1..Received, Expected(k), ~cancelled, answers[k] # 1,
                      \A i \in 1..Len(queue') : queue'[i] # k
               PROVE  \E u \in Threads : Owes(u)' /\ item'[u] = k
    BY <1>1, <1>7, Zenon DEF KeptInv, Expected
  <2>1. CASE k = m
    <3>1. next # "complete"
      BY <1>4, <2>1 DEF Expected
    <3> QED
      BY <1>0, <1>5, <1>12, <2>1, <3>1
  <2>2. CASE k # m
    <3>1. \A i \in 1..n : queue[i] # k
      <4> SUFFICES ASSUME NEW i \in 1..n, i # 1 PROVE queue[i] # k
        BY <1>10, <2>2
      <4>1. i - 1 \in 1..Len(queue') /\ queue'[i - 1] = queue[i]
        BY <1>2, <1>3
      <4> QED
        BY <4>1
    <3>2. PICK u \in Threads : Owes(u) /\ item[u] = k
      BY <3>1 DEF KeptInv, n
    <3>3. u # w
      BY <1>12, <3>2 DEF Owes
    <3> QED
      BY <1>5, <1>12, <3>2, <3>3
  <2> QED
    BY <2>1, <2>2
<1>16. PendInv'
  <2>1. Busy' = Busy \union {w} /\ w \notin Busy /\ IsFiniteSet(Busy)
    BY <1>0, <1>1, <1>5, FS_Subset, McpAssumption DEF Busy
  <2>2. Cardinality(Busy') = Cardinality(Busy) + 1 /\ Cardinality(Busy) \in Nat
    BY <2>1, FS_AddElement, FS_CardinalityType
  <2>3. pc'[Main] = pc[Main]
    BY <1>0, <1>5
  <2>4. Open' = Open
    <3>1. Len(queue') + Cardinality(Busy') = Len(queue) + Cardinality(Busy)
          /\ Len(queue) \in Nat /\ Len(queue') \in Nat /\ Cardinality(Busy') \in Nat
      BY <1>2, <1>3, <2>2 DEF n
    <3> HIDE DEF Busy
    <3> QED
      BY <2>2, <2>3, <3>1 DEF Open
  <2> QED
    BY <1>1, <2>3, <2>4, Zenon DEF PendInv, Serving
<1>17. LateInv'
  <2>1. \A t \in Threads : pc'[t] = "write" => pc[t] = "write"
    BY <1>5
  <2> QED
    BY <1>1, <2>1, LateFrame
<1>18. ParseInv'
  <2>1. Longer /\ Len(input') \in Nat /\ Len(input') <= MaxInput
    BY <1>1, <1>7 DEF Longer
  <2>2. pc'[Main] = pc[Main] /\ item'[Main] = item[Main]
    BY <1>0, <1>5
  <2>3. pc'[Main] \in {"reply", "write"} => item[Main] \in 1..Len(input)
    BY <1>0, <2>2, Writing
  <2> QED
    BY <1>1, <2>1, <2>2, <2>3, ParseFrame
<1> QED
  BY <1>6, <1>8, <1>11, <1>13, <1>14, <1>15, <1>16, <1>17, <1>18

\* The answer to a parse error, when all the calls are done.
LEMMA FlushStep == IInv /\ Flush => IInv'
<1> SUFFICES ASSUME IInv, Flush PROVE IInv'
  OBVIOUS
<1> USE DEF IInv
<1>1. CASE pending # 0
  BY <1>1, MainMoves DEF Flush, Return, tools, output, TypeOK
<1>2. CASE pending = 0
  <2>0. Main \in Threads /\ Workers \subseteq Threads /\ Main \notin Workers
        /\ Threads = Workers \union {Main}
    BY McpAssumption DEF Threads
  <2>1. /\ pc[Main] = "flush" /\ pc'[Main] = "reply"
        /\ \A u \in Threads \ {Main} : pc'[u] = pc[u]
        /\ UNCHANGED <<input, reader, chan, item, queue, pending, capability, poisoned,
                       writer, answers, late, cancelled, outcome>>
    BY <1>2, <2>0, GotoEffect DEF Flush, tools, output
  <2>2. \A w \in Workers : pc'[w] = pc[w]
    BY <2>0, <2>1
  <2>3. TypeOK'
    BY <1>2 DEF Flush, Goto, TypeOK, tools, output
  <2>4. Received' = Received /\ Received \in 0..Len(input) /\ Len(input) \in Nat
        /\ Len(input) <= MaxInput
    BY <2>1, ReceivedType DEF Received
  <2>5. OrderInv'
    BY <2>1, <2>2, <2>4 DEF OrderInv, Serving
  <2>6. KindInv'
    BY <2>1, <2>2 DEF KindInv
  <2>7. \A t \in Threads : (Holds(t)' <=> Holds(t)) /\ (Owes(t)' <=> Owes(t))
    BY <2>1 DEF Holds, Owes, Working
  <2>8. Longer
    BY <2>1, <2>4 DEF Longer
  <2>9. PlaceInv' /\ AnswerInv' /\ KeptInv'
    BY <2>1, <2>3, <2>4, <2>5, <2>7, <2>8, Still
  <2>10. Cardinality(Busy) \in Nat /\ Len(queue) \in Nat /\ IsFiniteSet(Busy)
    <3>1. IsFiniteSet(Busy)
      BY McpAssumption, FS_Subset DEF Busy
    <3> QED
      BY <3>1, FS_CardinalityType DEF TypeOK
  <2>11. Busy' = Busy
    BY <2>2, BusySame
  <2>12. PendInv'
    <3>1. Serving' = Serving /\ (pc'[Main] = "enqueue") = (pc[Main] = "enqueue")
      BY <2>1 DEF Serving
    <3> QED
      BY <2>1, <2>11, <3>1, PendFrame
  <2>13. LateInv'
    <3>1. \A t \in Threads : pc'[t] = "write" => pc[t] = "write"
      BY <2>1
    <3> QED
      BY <2>1, <3>1, LateFrame
  <2>14. cancelled \/ CallsBefore(item[Main])
    <3>1. Open = 0 /\ pc[Main] = "flush"
      BY <1>2, <2>1 DEF PendInv, Serving
    <3>2. Len(queue) = 0 /\ Busy = {}
      <4>1. Len(queue) = 0 /\ Cardinality(Busy) = 0
        BY <2>10, <3>1 DEF Open
      <4> QED
        BY <2>10, <4>1, FS_EmptySet
    <3>3. \A w \in Workers : ~Owes(w)
      BY <3>2 DEF Busy, Owes, Holds, Working
    <3>4. item[Main] \in 1..Received
      BY <2>0, <2>1 DEF PlaceInv, Holds, Working
    <3> SUFFICES ASSUME ~cancelled, NEW n \in 1..(item[Main] - 1), input[n] = "call"
                 PROVE  answers[n] = 1
      BY DEF CallsBefore
    <3>5. n \in 1..Received /\ Expected(n) /\ n # item[Main]
      BY <2>4, <3>4 DEF Expected
    <3>6. ~\E t \in Threads : Owes(t) /\ item[t] = n
      BY <2>0, <3>3, <3>5
    <3>7. ~\E i \in 1..Len(queue) : queue[i] = n
      BY <3>2
    <3> QED
      BY <3>5, <3>6, <3>7, Zenon DEF KeptInv
  <2>15. ParseInv'
    <3>1. \A k \in 1..Len(input) : CallsBefore(k)' <=> CallsBefore(k)
      BY <2>1 DEF CallsBefore
    <3>2. cancelled' \/ CallsBefore(item[Main])'
      BY <2>1, <2>14 DEF CallsBefore
    <3>3. item'[Main] = item[Main] /\ pc'[Main] # "write"
      BY <2>1
    <3>4. \A m \in 1..Len(input') : input'[m] = "parse" /\ answers'[m] = 1 => CallsBefore(m)'
      BY <2>1, <3>1 DEF ParseInv
    <3> QED
      BY <3>2, <3>3, <3>4, Zenon DEF ParseInv
  <2> QED
    BY <2>3, <2>5, <2>6, <2>9, <2>12, <2>13, <2>15
<1> QED
  BY <1>1, <1>2

-----------------------------------------------------------------------------
(* The theorems                                                            *)

\* The invariant holds when the server starts.
LEMMA InitInv == Init => IInv
<1> SUFFICES ASSUME Init PROVE IInv
  OBVIOUS
<1> USE McpAssumption DEF Init
<1>1. <<>> \in Seq(Messages) /\ <<>> \in Seq(Kinds) /\ Len(<<>>) = 0
  OBVIOUS
<1>2. /\ Main \in Threads /\ pc[Main] = "loop"
      /\ \A w \in Workers : pc[w] = "idle"
  BY DEF Threads
<1>3. \A t \in Threads : pc[t] \in {"loop", "idle"}
  OBVIOUS
<1>4. TypeOK
  <2>1. /\ pc \in [Threads -> {"idle", "lock", "tool", "reply", "write", "complete",
                          "done", "loop", "recv", "enqueue", "flush", "join",
                          "returned"}]
        /\ item \in [Threads -> Messages \union {0}]
        /\ answers \in [Messages -> Nat]
    OBVIOUS
  <2>2. Len(input) <= MaxInput /\ Len(queue) <= QueueCapacity /\ Len(chan) <= 1
    BY <1>1
  <2> QED
    BY <1>1, <2>1, <2>2 DEF TypeOK
<1>5. OrderInv
  BY <1>1, <1>2 DEF OrderInv
<1>6. PlaceInv
  BY <1>1, <1>3 DEF PlaceInv, Holds, Working
<1>7. KindInv
  BY <1>1, <1>2 DEF KindInv
<1>8. AnswerInv
  BY <1>1, <1>3 DEF AnswerInv, Owes, Holds, Working
<1>9. Received = 0
  BY <1>1 DEF Received
<1>10. KeptInv
  BY <1>9 DEF KeptInv
<1>11. PendInv
  <2>1. Busy = {}
    BY <1>2 DEF Busy
  <2> QED
    BY <1>1, <1>2, <2>1, FS_EmptySet DEF PendInv, Open
<1>12. LateInv
  BY <1>3 DEF LateInv
<1>13. ParseInv
  BY <1>1, <1>2 DEF ParseInv
<1> QED
  BY <1>4, <1>5, <1>6, <1>7, <1>8, <1>10, <1>11, <1>12, <1>13 DEF IInv

\* Every step of every thread keeps it.
LEMMA StepInv == IInv /\ [Next]_vars => IInv'
<1> SUFFICES ASSUME IInv, [Next]_vars PROVE IInv'
  OBVIOUS
<1>1. ASSUME NEW k \in Kinds, ReadMessage(k) PROVE IInv'
  BY <1>1, ReadMessageStep
<1>2. CASE ReadEof \/ ReaderStep
  BY <1>2, ReadEofStep, SendMessageStep DEF ReaderStep
<1>3. CASE MainStep
  BY <1>3, PollStep, PollAgainStep, ReceiveStep, ReceiveHangupStep,
     EnqueueStep, FlushStep,
     JoinStep, Zenon DEF MainStep
<1>4. ASSUME NEW w \in Workers, WorkerStep(w) \/ Tool(w) PROVE IInv'
  BY <1>4, TakeStep, LockStep, CompleteStep, LeaveStep, ToolStep, Zenon DEF
     WorkerStep
<1>5. ASSUME NEW t \in Threads, WriteStep(t) PROVE IInv'
  BY <1>5, BeginWriteStep, EndWriteStep, Zenon DEF WriteStep
<1>6. CASE Cancel
  BY <1>6, CancelStep
<1>7. CASE UNCHANGED vars
  BY <1>7, StutterStep
<1> QED
  BY <1>1, <1>2, <1>3, <1>4, <1>5, <1>6, <1>7, Zenon DEF Next

\* The invariant of the server.
LEMMA Invariant == Spec => []IInv
BY InitInv, StepInv, PTL DEF Spec

\* What the threads, the channel, the queue and the locks hold is what the
\* code can hold; the queue and the channel keep to their capacities and the
\* counter of the pending calls never wraps below zero.
THEOREM McpTypeCorrect == Spec => []TypeOK
<1>1. IInv => TypeOK
  BY DEF IInv
<1> QED
  BY <1>1, Invariant, PTL

\* No request is answered twice, and no notification is answered.
THEOREM AnsweredOnce == Spec => []AtMostOneAnswer
<1>1. IInv => AtMostOneAnswer
  <2> SUFFICES ASSUME IInv, NEW m \in DOMAIN input
               PROVE  answers[m] <= (IF Expected(m) THEN 1 ELSE 0)
    BY DEF AtMostOneAnswer
  <2>1. m \in 1..Len(input) /\ m \in Messages
    BY McpAssumption DEF IInv, TypeOK, Messages
  <2> QED
    BY <2>1 DEF IInv, AnswerInv
<1> QED
  BY <1>1, Invariant, PTL

\* While the server serves, its counter is the number of open tool calls.
THEOREM CounterExact == Spec => []PendingExact
<1>1. IInv => PendingExact
  <2> SUFFICES ASSUME IInv, Serving
               PROVE  pending = (IF pc[Main] = "enqueue" THEN 1 ELSE 0) + Len(queue)
                                  + Cardinality({w \in Workers : pc[w] # "idle"})
    BY DEF PendingExact
  <2>1. Busy = {w \in Workers : pc[w] # "idle"}
    BY DEF IInv, OrderInv, Busy
  <2>2. pending = Open
    BY DEF IInv, PendInv
  <2> QED
    BY <2>1, <2>2, Zenon DEF Open
<1> QED
  BY <1>1, Invariant, PTL

\* The answer to a parse error comes behind those of the calls before it.
THEOREM ParseErrorsInOrder == Spec => []ParseErrorInOrder
<1>1. IInv => ParseErrorInOrder
  <2> SUFFICES ASSUME IInv, NEW m \in DOMAIN input, input[m] = "parse", answers[m] = 1
               PROVE  CallsBefore(m)
    BY DEF ParseErrorInOrder, CallsBefore
  <2>1. m \in 1..Len(input)
    BY DEF IInv, TypeOK
  <2> QED
    BY <2>1 DEF IInv, ParseInv
<1> QED
  BY <1>1, Invariant, PTL

\* After the cancellation at most one response still comes out.
THEOREM LateWritesBounded == Spec => []LateWriteAtMostOne
<1>1. IInv => LateWriteAtMostOne
  BY DEF IInv, LateInv, LateWriteAtMostOne
<1> QED
  BY <1>1, Invariant, PTL

\* A server that returns without a cancellation has answered everything.
THEOREM AllAnsweredOnReturn == Spec => []AnsweredOnReturn
<1>1. IInv => AnsweredOnReturn
  <2> SUFFICES ASSUME IInv, pc[Main] = "returned", ~cancelled,
                      NEW m \in DOMAIN input, Expected(m)
               PROVE  answers[m] = 1
    BY DEF AnsweredOnReturn
  <2>1. reader = "done" /\ chan = <<>> /\ \A w \in Workers : pc[w] = "done"
    BY DEF IInv, OrderInv
  <2>2. Len(queue) = 0
    <3>1. PICK w \in Workers : TRUE
      BY McpAssumption
    <3>2. queue = <<>>
      BY <2>1, <3>1 DEF IInv, OrderInv
    <3> QED
      BY <3>2
  <2>3. m \in 1..Received
    BY <2>1 DEF IInv, TypeOK, Received
  <2>4. ~\E t \in Threads : Owes(t) /\ item[t] = m
    BY <2>1 DEF Owes, Holds, Working, Threads
  <2>5. ~\E i \in 1..Len(queue) : queue[i] = m
    BY <2>2
  <2> QED
    BY <2>3, <2>4, <2>5, Zenon DEF IInv, KeptInv
<1> QED
  BY <1>1, Invariant, PTL
=============================================================================
