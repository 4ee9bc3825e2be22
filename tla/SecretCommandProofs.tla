------------------------ MODULE SecretCommandProofs ------------------------
(***************************************************************************)
(* Proofs about SecretCommand, for every payload, pipe size and limit.     *)
(***************************************************************************)
EXTENDS SecretCommand, TLAPS, WellFoundedInduction, SequenceTheorems

-----------------------------------------------------------------------------
(* Values and prefixes                                                     *)

\* A bounded set of numbers that is not empty has its maximum.
LEMMA BoundedMax ==
  ASSUME NEW bound \in Nat, NEW set \in SUBSET (0..bound), set # {}
  PROVE  Max(set) \in set
<1> DEFINE R == {p \in Nat \X Nat : p[1] < p[2]}
           T == {n \in 0..bound : bound - n \in set}
<1>1. IsWellFoundedOn(R, Nat)
  BY NatLessThanWellFounded DEF OpToRel
<1>2. T \subseteq Nat /\ T # {}
  <2>1. PICK x \in set : TRUE
    OBVIOUS
  <2>2. x \in 0..bound
    OBVIOUS
  <2>3. bound - x \in 0..bound /\ bound - (bound - x) = x
    BY <2>2
  <2>4. bound - x \in T
    BY <2>3
  <2>5. T \subseteq 0..bound /\ 0..bound \subseteq Nat
    OBVIOUS
  <2> QED
    BY <2>4, <2>5, Zenon
<1> HIDE DEF R
<1>3. PICK n \in T : \A y \in T : ~ (<<y, n>> \in R)
  BY <1>1, <1>2, WFMin
<1>4. n \in 0..bound /\ bound - n \in set
  BY <1>3
<1>5. ASSUME NEW x \in set PROVE bound - n >= x
  <2>1. x \in 0..bound
    OBVIOUS
  <2>2. bound - x \in 0..bound /\ bound - (bound - x) = x
    BY <2>1
  <2>3. bound - x \in T
    BY <2>2
  <2>4. ~ (<<bound - x, n>> \in R)
    BY <2>3, <1>3, Zenon
  <2>5. bound - x \in Nat /\ n \in Nat
    BY <2>2, <1>4
  <2>6. ~ (bound - x < n)
    BY <2>4, <2>5 DEF R
  <2> QED
    BY <2>1, <2>6, <1>4
<1> QED
  BY <1>4, <1>5 DEF Max

\* A value without its line ends is a value.
LEMMA TrimmedType ==
  ASSUME NEW text \in Seq(Character)
  PROVE  Trimmed(text) \in Seq(Character)
<1> DEFINE S == {i \in DOMAIN text : text[i] # "nl"} \union {0}
<1>1. Len(text) \in Nat /\ DOMAIN text = 1..Len(text)
  BY LenProperties
<1>2. DOMAIN text \subseteq 0..Len(text) /\ 0 \in 0..Len(text)
  BY <1>1
<1>3. S \subseteq 0..Len(text) /\ S # {}
  BY <1>2, Zenon
<1> HIDE DEF S
<1>4. Max(S) \in 0..Len(text)
  BY <1>3, <1>1, BoundedMax, Zenon
<1>5. \A i \in 1..Max(S) : text[i] \in Character
  <2>1. ASSUME NEW i \in 1..Max(S) PROVE i \in 1..Len(text)
    BY <1>4, <1>1
  <2> QED
    BY <2>1, ElementOfSeq, Zenon
<1>6. SubSeq(text, 1, Max(S)) \in Seq(Character)
  BY <1>4, <1>5, SubSeqProperties
<1> QED
  BY <1>6 DEF Trimmed, S

\* What is made of an output is text.
LEMMA LossyType ==
  ASSUME NEW text \in Seq(Unit)
  PROVE  Lossy(text) \in Seq(Character)
<1>1. Len(text) \in Nat /\ DOMAIN text = 1..Len(text)
  BY LenProperties
<1>2. ASSUME NEW i \in 1..Len(text)
      PROVE  (IF Whole(text, i) THEN text[i] ELSE "replaced") \in Character
  <2>1. text[i] \in Unit
    BY ElementOfSeq, Zenon
  <2> QED
    BY <2>1 DEF Character
<1> DEFINE f == [i \in 1..Len(text) |-> IF Whole(text, i) THEN text[i] ELSE "replaced"]
<1>3. f \in Seq(Character)
  BY <1>1, <1>2
<1>4. Lossy(text) = f
  BY <1>1, Zenon DEF Lossy
<1> QED
  BY <1>3, <1>4

\* What a reader captures of an output.
Prefix(text) == SubSeq(text, 1, Min({Len(text), Capture}))

\* The smaller of two numbers.
LEMMA MinOfTwo ==
  ASSUME NEW a \in Nat, NEW b \in Nat
  PROVE  Min({a, b}) = IF a <= b THEN a ELSE b
<1> DEFINE m == IF a <= b THEN a ELSE b
<1>1. m \in {a, b} /\ \A y \in {a, b} : m <= y
  OBVIOUS
<1>2. ASSUME NEW x \in {a, b}, \A y \in {a, b} : x <= y PROVE x = m
  BY <1>2
<1> HIDE DEF m
<1>3. Min({a, b}) = m
  BY <1>1, <1>2 DEF Min
<1> QED
  BY <1>3 DEF m

\* The last piece that fits makes the capture the prefix.
LEMMA PrefixFilled ==
  ASSUME NEW g \in Seq(Unit), NEW p \in Seq(Unit), Len(g) = Capture
  PROVE  Prefix(g \o p) = g
<1> USE SecretAssumption
<1>1. Len(g) \in Nat /\ Len(p) \in Nat /\ Len(g \o p) = Len(g) + Len(p)
  BY ConcatProperties, LenProperties
<1>2. Min({Len(g \o p), Capture}) = Capture
  BY <1>1, MinOfTwo
<1>3. SubSeq(g \o p, 1, Capture) = SubSeq(g, 1, Capture)
  BY <1>1, SubSeqOfConcat1
<1>4. SubSeq(g, 1, Capture) = g
  BY SubSeqFull
<1> QED
  BY <1>2, <1>3, <1>4 DEF Prefix

\* An output that is shorter than the limit is its own prefix.
LEMMA PrefixWhole ==
  ASSUME NEW text \in Seq(Unit), Len(text) <= Capture
  PROVE  Prefix(text) = text
<1> USE SecretAssumption
<1>1. Min({Len(text), Capture}) = Len(text)
  BY MinOfTwo, LenProperties
<1> QED
  BY <1>1, SubSeqFull DEF Prefix

\* What is printed behind a full prefix does not change it.
LEMMA PrefixStays ==
  ASSUME NEW text \in Seq(Unit), NEW unit \in Unit,
         Len(Prefix(text)) = Capture
  PROVE  Prefix(Append(text, unit)) = Prefix(text)
<1> USE SecretAssumption
<1>1. Len(text) \in Nat
  BY LenProperties
<1>2. Len(text) >= Capture
  <2>1. SUFFICES ASSUME Len(text) < Capture PROVE FALSE
    BY <1>1
  <2>2. Prefix(text) = text
    BY <2>1, <1>1, PrefixWhole
  <2> QED
    BY <2>1, <2>2
<1>3. <<unit>> \in Seq(Unit) /\ Len(<<unit>>) = 1
  OBVIOUS
<1>4. Append(text, unit) = text \o <<unit>> /\ Len(text \o <<unit>>) = Len(text) + 1
  BY <1>3, AppendIsConcat, ConcatProperties
<1>5. Min({Len(text), Capture}) = Capture /\ Min({Len(text) + 1, Capture}) = Capture
  BY <1>1, <1>2, MinOfTwo
<1>6. SubSeq(text \o <<unit>>, 1, Capture) = SubSeq(text, 1, Capture)
  BY <1>1, <1>2, <1>3, SubSeqOfConcat1
<1> QED
  BY <1>4, <1>5, <1>6 DEF Prefix

\* A piece moves from the pipe to the capture.
LEMMA Moves ==
  ASSUME NEW g \in Seq(Unit), NEW p \in Seq(Unit), p # <<>>
  PROVE  /\ Append(g, Head(p)) \in Seq(Unit) /\ Tail(p) \in Seq(Unit)
         /\ Append(g, Head(p)) \o Tail(p) = g \o p
         /\ Len(Append(g, Head(p))) = Len(g) + 1
         /\ Len(Tail(p)) = Len(p) - 1
<1>1. Head(p) \in Unit /\ Tail(p) \in Seq(Unit) /\ Len(Tail(p)) = Len(p) - 1
  BY HeadTailProperties
<1>2. <<Head(p)>> \in Seq(Unit)
  BY <1>1
<1>3. Append(g, Head(p)) = g \o <<Head(p)>>
  BY <1>1, AppendIsConcat
<1>4. p = <<Head(p)>> \o Tail(p)
  <2>1. Len(p) \in Nat \ {0}
    BY EmptySeq, LenProperties
  <2>2. SubSeq(p, 1, Len(p)) = <<p[1]>> \o SubSeq(p, 2, Len(p))
    BY <2>1, SubSeqRecursiveFirst
  <2>3. SubSeq(p, 1, Len(p)) = p /\ Tail(p) = SubSeq(p, 2, Len(p))
    BY SubSeqFull, TailIsSubSeq
  <2>4. Head(p) = p[1]
    OBVIOUS
  <2> QED
    BY <2>2, <2>3, <2>4
<1>5. (g \o <<Head(p)>>) \o Tail(p) = g \o (<<Head(p)>> \o Tail(p))
  BY <1>1, <1>2, ConcatAssociative
<1>6. Append(g, Head(p)) \in Seq(Unit) /\ Len(Append(g, Head(p))) = Len(g) + 1
  BY <1>1, AppendProperties
<1> QED
  BY <1>1, <1>3, <1>4, <1>5, <1>6

\* A piece that is written is behind all that was.
LEMMA Writes ==
  ASSUME NEW g \in Seq(Unit), NEW p \in Seq(Unit), NEW unit \in Unit
  PROVE  Append(g \o p, unit) = g \o Append(p, unit)
<1>1. g \o p \in Seq(Unit)
  BY ConcatProperties
<1>2. <<unit>> \in Seq(Unit)
  OBVIOUS
<1>3. Append(g \o p, unit) = (g \o p) \o <<unit>> /\ Append(p, unit) = p \o <<unit>>
  BY <1>1, AppendIsConcat
<1> QED
  BY <1>2, <1>3, ConcatAssociative

-----------------------------------------------------------------------------
(* The invariant                                                           *)

\* Where the caller is tells what has become of the child and the readers.
CtlInv ==
  /\ pc \in {"start", "spawn"} => child = "none"
  /\ pc = "join" => child = "reaped"
  /\ pc = "done" => child \in {"none", "reaped"}
  /\ child = "none" => heir = FALSE
  /\ pc = "write" => input > 0
  /\ pc \in {"start", "spawn", "write"} => \A s \in Streams : reader[s] = "off"
  /\ pc # "done" => result = NoResult

\* A program that is asked for a password is the one of the first source that
\* is configured.
SourceInv ==
  /\ op = "resolve" /\ pc \notin {"start", "done"} =>
       /\ opts.env # "text"
       /\ \/ backend = "symvault" /\ opts.ref = TRUE
          \/ backend = "keychain" /\ opts.ref = FALSE /\ opts.keychain = TRUE
  /\ FailsClosed

\* What was printed is captured or in the pipe while a reader reads, and what
\* it has captured at its end is a prefix that nothing changes any more.
StreamInv ==
  \A s \in Streams :
    IF reader[s] = "finished"
    THEN got[s] = Prefix(wrote[s]) /\ (Len(got[s]) = Capture \/ ~Holders)
    ELSE wrote[s] = got[s] \o pipe[s] /\ Len(got[s]) < Capture

\* A password of a program is what was captured of its output.
ValueInv ==
  result.source \in {"symvault", "keychain"} =>
    /\ pc = "done" /\ child # "running"
    /\ status = TRUE /\ reader["out"] = "finished"
    /\ result.value = Trimmed(Lossy(got["out"]))

IInv == TypeOK /\ CtlInv /\ SourceInv /\ StreamInv /\ ValueInv

\* The invariant holds before the command.
LEMMA IInvInit == Init => IInv
<1> SUFFICES ASSUME Init PROVE IInv
  OBVIOUS
<1> USE SecretAssumption DEF Init, NoResult
<1>1. <<>> \in Seq(Unit) /\ Len(<<>>) = 0
  BY EmptySeq
<1>2. TypeOK
  <2>1. /\ pipe \in [Streams -> Seq(Unit)] /\ got \in [Streams -> Seq(Unit)]
        /\ wrote \in [Streams -> Seq(Unit)]
        /\ reader \in [Streams -> {"off", "reading", "finished"}]
    BY <1>1
  <2>2. \A s \in Streams : Len(pipe[s]) <= PipeCap /\ Len(got[s]) <= Capture
    BY <1>1
  <2>3. result.kind = "none" /\ result.source = "none" /\ result.value \in Seq(Character)
    BY <1>1
  <2>4. input \in 0..Payload /\ stdin \in 0..PipeCap
    OBVIOUS
  <2> QED
    BY <2>1, <2>2, <2>3, <2>4, Zenon DEF TypeOK
<1>3. CtlInv
  BY DEF CtlInv
<1>4. SourceInv
  BY DEF SourceInv, FailsClosed
<1>5. StreamInv
  <2>1. <<>> \o <<>> = <<>>
    OBVIOUS
  <2> QED
    BY <1>1, <2>1 DEF StreamInv
<1>6. ValueInv
  BY DEF ValueInv
<1> QED
  BY <1>2, <1>3, <1>4, <1>5, <1>6 DEF IInv

\* What each way of the start comes to.
LEMMA ResolveEffect ==
  ASSUME TypeOK, Resolve
  PROVE  \/ pc' = "done" /\ backend' = backend /\ result'.kind \in {"secret", "error"}
            /\ result'.source \in {"none", "env", "config"}
            /\ result'.value \in Seq(Character)
            /\ (result'.kind = "secret" =>
                  \A i \in 1..4 : Configured[Sources[i]] =>
                    \E k \in 1..i : result'.source = Sources[k])
         \/ pc' = "spawn" /\ UNCHANGED result /\ opts.env # "text"
            /\ \/ backend' = "symvault" /\ opts.ref = TRUE
               \/ backend' = "keychain" /\ opts.ref = FALSE /\ opts.keychain = TRUE
<1>1. opts.env \in {"unset", "text", "bytes"} /\ opts.ref \in BOOLEAN /\ opts.keychain \in BOOLEAN
      /\ opts.plain \in BOOLEAN
  BY DEF TypeOK, Options
<1>2. <<"s">> \in Seq(Character) /\ <<>> \in Seq(Character)
  BY DEF Unit, Character
<1>3. CASE opts.env = "text"
  <2>1. result' = [kind |-> "secret", source |-> "env", value |-> <<"s">>]
        /\ pc' = "done" /\ backend' = backend
    BY <1>3 DEF Resolve, Return
  <2>2. result'.kind = "secret" /\ result'.source = "env" /\ result'.value = <<"s">>
    BY <2>1
  <2>3. Sources[1] = "env" /\ \A i \in 1..4 : 1 \in 1..i
    BY DEF Sources
  <2> QED
    BY <1>2, <2>1, <2>2, <2>3, Zenon
<1>4. CASE opts.env # "text" /\ opts.ref
  BY <1>1, <1>4 DEF Resolve, Run
<1>5. CASE opts.env # "text" /\ ~opts.ref /\ opts.keychain
  <2>1. Keychain
    BY <1>5 DEF Resolve
  <2>2. CASE Run("keychain")
    BY <2>2, <1>1, <1>5 DEF Run
  <2>3. CASE Fail /\ UNCHANGED backend
    <3>1. result' = [kind |-> "error", source |-> "none", value |-> <<>>]
          /\ pc' = "done" /\ backend' = backend
      BY <2>3 DEF Fail, Return
    <3>2. result'.kind = "error" /\ result'.source = "none" /\ result'.value = <<>>
      BY <3>1
    <3> QED
      BY <1>2, <3>1, <3>2, Zenon
  <2> QED
    BY <2>1, <2>2, <2>3 DEF Keychain
<1>6. CASE opts.env # "text" /\ ~opts.ref /\ ~opts.keychain
  <2>1. PICK source \in {"config", "none"} :
          /\ result' = [kind |-> "secret", source |-> source,
                        value |-> IF source = "config" THEN <<"s">> ELSE <<>>]
          /\ pc' = "done" /\ backend' = backend
          /\ source = "config" \/ opts.plain = FALSE
    BY <1>1, <1>6 DEF Resolve, Return
  <2>2. /\ result'.kind = "secret" /\ result'.source = source
        /\ result'.value = IF source = "config" THEN <<"s">> ELSE <<>>
    BY <2>1
  <2>3. /\ Configured["env"] = FALSE /\ Configured["symvault"] = FALSE
        /\ Configured["keychain"] = FALSE
        /\ Configured["config"] = opts.plain
    BY <1>1, <1>6 DEF Configured
  <2>4. ASSUME NEW i \in 1..4, Configured[Sources[i]] PROVE i = 4 /\ source = "config"
    <3>1. i = 1 \/ i = 2 \/ i = 3 \/ i = 4
      OBVIOUS
    <3>2. /\ Sources[1] = "env" /\ Sources[2] = "symvault" /\ Sources[3] = "keychain"
          /\ Sources[4] = "config"
      BY DEF Sources
    <3> QED
      BY <2>1, <2>3, <2>4, <3>1, <3>2, Zenon
  <2>5. Sources[4] = "config" /\ 4 \in 1..4
    BY DEF Sources
  <2> QED
    BY <1>2, <2>1, <2>2, <2>4, <2>5, Zenon
<1> QED
  BY <1>3, <1>4, <1>5, <1>6, Zenon

\* What the caller makes of an output.
LEMMA OutputEffect ==
  ASSUME TypeOK, Output
  PROVE  /\ pc' = "done"
         /\ \/ result'.kind = "error" /\ result'.source = "none" /\ result'.value = <<>>
            \/ result'.kind = "stored" /\ result'.source = "none" /\ result'.value = <<>>
            \/ /\ op = "resolve" /\ status = TRUE
               /\ result'.kind = "secret" /\ result'.source = backend
               /\ result'.value = Trimmed(Lossy(got["out"]))
<1>1. status \in BOOLEAN
  BY DEF TypeOK
<1> DEFINE value == Trimmed(Lossy(got["out"]))
<1>2. CASE ~status
  BY <1>2 DEF Output, Fail, Return
<1>3. CASE status /\ op # "resolve"
  BY <1>3 DEF Output, Return
<1>4. CASE status /\ op = "resolve"
  <2>1. \/ Fail
        \/ Return("secret", backend, value)
    BY <1>4 DEF Output
  <2>2. CASE Fail
    BY <2>2 DEF Fail, Return
  <2>3. CASE Return("secret", backend, value)
    BY <2>3, <1>1, <1>4 DEF Return
  <2> QED
    BY <2>1, <2>2, <2>3
<1> QED
  BY <1>2, <1>3, <1>4

\* TypeOK without the streams, and with them.
Scalars ==
  /\ op \in Operations /\ opts \in Options
  /\ backend \in {"none", "symvault", "keychain"}
  /\ pc \in {"start", "spawn", "write", "poll", "kill", "join", "done"}
  /\ input \in 0..Payload /\ stdin \in 0..PipeCap
  /\ child \in {"none", "running", "zombie", "reaped"}
  /\ status \in BOOLEAN /\ heir \in BOOLEAN /\ late \in BOOLEAN

Texts ==
  /\ pipe \in [Streams -> Seq(Unit)]
  /\ \A s \in Streams : Len(pipe[s]) <= PipeCap
  /\ reader \in [Streams -> {"off", "reading", "finished"}]
  /\ got \in [Streams -> Seq(Unit)]
  /\ \A s \in Streams : Len(got[s]) <= Capture
  /\ wrote \in [Streams -> Seq(Unit)]

Results ==
  /\ result.kind \in {"none", "secret", "stored", "error"}
  /\ result.source \in {"none", "env", "symvault", "keychain", "config"}
  /\ result.value \in Seq(Character)

\* The type invariant is that of its three parts.
LEMMA TypeParts == TypeOK <=> Scalars /\ Texts /\ Results
BY Zenon DEF TypeOK, Scalars, Texts, Results

\* And so it is after a step.
LEMMA TypePartsNext == TypeOK' <=> Scalars' /\ Texts' /\ Results'
BY Zenon DEF TypeOK, Scalars, Texts, Results

\* What the start of an operation comes to.
LEMMA StartEffect ==
  ASSUME TypeOK, Start
  PROVE  /\ \/ /\ pc' = "done" /\ backend' = backend
               /\ result'.kind \in {"secret", "error"}
               /\ result'.source \in {"none", "env", "config"}
               /\ result'.value \in Seq(Character)
               /\ (result'.kind = "secret" =>
                     \A i \in 1..4 : Configured[Sources[i]] =>
                       \E k \in 1..i : result'.source = Sources[k])
            \/ /\ pc' = "spawn" /\ UNCHANGED result
               /\ backend' \in {"symvault", "keychain"}
               /\ op = "resolve" =>
                    /\ opts.env # "text"
                    /\ \/ backend' = "symvault" /\ opts.ref = TRUE
                       \/ /\ backend' = "keychain" /\ opts.ref = FALSE
                          /\ opts.keychain = TRUE
         /\ pc = "start"
         /\ UNCHANGED <<op, opts, input, stdin, pipe, reader, got, child, status,
                        heir, late, wrote>>
<1>1. pc = "start" /\ UNCHANGED <<op, opts, input, stdin, pipe, reader, got, child,
                                  status, heir, late, wrote>>
  BY DEF Start
<1>2. CASE op = "resolve"
  <2>1. Resolve
    BY <1>2 DEF Start
  <2> QED
    BY <1>1, <2>1, ResolveEffect, Zenon
<1>3. CASE op # "resolve"
  <2>1. Run("symvault") \/ Run("keychain") \/ (Fail /\ UNCHANGED backend)
    BY <1>3 DEF Start, Keychain
  <2>2. CASE Run("symvault") \/ Run("keychain")
    BY <1>1, <1>3, <2>2, Zenon DEF Run
  <2>3. CASE Fail /\ UNCHANGED backend
    <3>1. pc' = "done" /\ backend' = backend
          /\ result' = [kind |-> "error", source |-> "none", value |-> <<>>]
      BY <2>3, Zenon DEF Fail, Return
    <3>2. result'.kind = "error" /\ result'.source = "none" /\ result'.value \in Seq(Character)
      BY <3>1, EmptySeq
    <3>3. "error" # "secret"
      OBVIOUS
    <3> QED
      BY <1>1, <3>1, <3>2, <3>3, Zenon
  <2> QED
    BY <2>1, <2>2, <2>3, Zenon
<1> QED
  BY <1>2, <1>3, Zenon

\* A failure.
LEMMA FailEffect ==
  ASSUME Fail
  PROVE  /\ pc' = "done" /\ result'.kind = "error" /\ result'.source = "none"
         /\ result'.value = <<>>
BY DEF Fail, Return

\* The steps of the child, with any unit on any stream.
LEMMA ChildCases ==
  ASSUME Child
  PROVE  \/ ChildReads \/ ChildForks \/ ChildExits \/ HeirEnds
         \/ \E s \in Streams, unit \in Unit : ChildWrites(s, unit)
BY DEF Child, Streams, Unit

\* Only a start, a failure and the end of a run make a result.
LEMMA StepCases ==
  ASSUME [Next]_vars
  PROVE  Fail \/ UNCHANGED result \/ Start \/ Join
<1>1. CASE Spawn \/ Write \/ WriteFails \/ Poll \/ Kill \/ Tick
  BY <1>1, Zenon DEF Spawn, Write, WriteFails, Poll, Kill, Tick
<1>2. CASE Child
  BY <1>2, ChildCases DEF ChildReads, ChildWrites, ChildForks, ChildExits,
     HeirEnds, caller
<1>3. CASE \E s \in Streams : Read(s) \/ ReadEnd(s)
  BY <1>3, Zenon DEF Read, ReadEnd
<1> QED
  BY <1>1, <1>2, <1>3 DEF Next, Caller, vars

\* Every step keeps the types of what is not a text.
LEMMA ScalarsStep ==
  ASSUME IInv, [Next]_vars
  PROVE  Scalars'
<1> USE SecretAssumption
<1>1. Scalars
  BY TypeParts DEF IInv
<1> USE <1>1 DEF Scalars
<1>2. CASE Start
  BY <1>2, StartEffect DEF IInv
<1>3. CASE Spawn
  <2>1. CASE Fail
    BY <1>3, <2>1 DEF Spawn, Fail, Return
  <2>2. CASE ~Fail
    BY <1>3, <2>2 DEF Spawn
  <2> QED
    BY <2>1, <2>2
<1>4. CASE Write
  <2>1. input > 0
    BY <1>4 DEF IInv, CtlInv, Write
  <2> QED
    BY <1>4, <2>1 DEF Write
<1>5. CASE WriteFails
  BY <1>5 DEF WriteFails, Fail, Return
<1>6. CASE Poll
  BY <1>6 DEF Poll
<1>7. CASE Kill
  BY <1>7 DEF Kill, Fail, Return
<1>8. CASE Join
  <2>1. pc' = "done"
    BY <1>8, OutputEffect DEF Join, IInv
  <2> QED
    BY <1>8, <2>1 DEF Join
<1>9. CASE Child
  <2>1. CASE ChildReads
    BY <2>1 DEF ChildReads, caller
  <2>2. CASE ChildForks \/ ChildExits \/ HeirEnds
    BY <2>2 DEF ChildForks, ChildExits, HeirEnds, caller
  <2>3. CASE \E s \in Streams, unit \in Unit : ChildWrites(s, unit)
    BY <2>3 DEF ChildWrites, caller
  <2> QED
    BY <1>9, <2>1, <2>2, <2>3, ChildCases
<1>10. CASE Tick
  BY <1>10 DEF Tick
<1>11. ASSUME NEW s \in Streams, Read(s) \/ ReadEnd(s) PROVE Scalars'
  BY <1>11 DEF Read, ReadEnd
<1>12. CASE UNCHANGED vars
  BY <1>12 DEF vars
<1> QED
  BY <1>2, <1>3, <1>4, <1>5, <1>6, <1>7, <1>8, <1>9, <1>10, <1>11, <1>12 DEF
     Next, Caller

\* Every step keeps the types of the results.
LEMMA ResultsStep ==
  ASSUME IInv, [Next]_vars
  PROVE  Results'
<1>1. Results /\ Texts /\ Scalars
  BY TypeParts DEF IInv
<1>2. CASE Start
  BY <1>1, <1>2, StartEffect DEF Results, IInv
<1>3. CASE Fail
  BY <1>3, FailEffect, EmptySeq DEF Results
<1>4. CASE Join
  <2>1. Trimmed(Lossy(got["out"])) \in Seq(Character) /\ <<>> \in Seq(Character)
    BY <1>1, LossyType, TrimmedType, EmptySeq DEF Texts, Streams
  <2>2. backend \in {"none", "symvault", "keychain"}
    BY <1>1 DEF Scalars
  <2>3. Output /\ TypeOK
    BY <1>4 DEF Join, IInv
  <2> QED
    BY <2>1, <2>2, <2>3, OutputEffect DEF Results
<1>5. CASE UNCHANGED result
  BY <1>1, <1>5 DEF Results
<1>6. Fail \/ UNCHANGED result \/ Start \/ Join
  BY StepCases, Zenon
<1> QED
  BY <1>2, <1>3, <1>4, <1>5, <1>6

\* A step that moves nothing between the streams keeps what is said of them,
\* as long as no new holder comes to a stream that has come to its end.
LEMMA Quiet ==
  ASSUME IInv, UNCHANGED <<pipe, got, wrote>>,
         reader' \in [Streams -> {"off", "reading", "finished"}],
         \A s \in Streams : reader'[s] = "finished" <=> reader[s] = "finished",
         Holders' => Holders \/ \A s \in Streams : reader[s] = "off"
  PROVE  Texts' /\ StreamInv'
<1>1. Texts'
  BY TypeParts, Zenon DEF Texts, IInv
<1>2. StreamInv'
  BY Zenon DEF StreamInv, IInv, Prefix
<1> QED
  BY <1>1, <1>2

\* A text for one of the streams.
LEMMA Update ==
  ASSUME NEW f \in [Streams -> Seq(Unit)], NEW s \in Streams, NEW text \in Seq(Unit)
  PROVE  [f EXCEPT ![s] = text] \in [Streams -> Seq(Unit)]
OBVIOUS

\* What the child prints goes into the pipe, at its end.
LEMMA ChildWritesStep ==
  ASSUME IInv, NEW s \in Streams, NEW unit \in Unit, ChildWrites(s, unit)
  PROVE  Texts' /\ StreamInv'
<1> USE SecretAssumption
<1>1. Texts /\ StreamInv /\ UNCHANGED <<reader, got, child, heir>> /\ Holders
  BY TypeParts DEF IInv, ChildWrites, caller
<1>2. /\ wrote' = [wrote EXCEPT ![s] = Append(@, unit)]
      /\ \/ /\ reader[s] # "finished" /\ Len(pipe[s]) < PipeCap
            /\ pipe' = [pipe EXCEPT ![s] = Append(@, unit)]
         \/ reader[s] = "finished" /\ UNCHANGED pipe
  BY DEF ChildWrites
<1>3. /\ wrote[s] \in Seq(Unit) /\ pipe[s] \in Seq(Unit)
      /\ got[s] \in Seq(Unit)
  BY <1>1 DEF Texts
<1>4. /\ Append(wrote[s], unit) \in Seq(Unit) /\ Append(pipe[s], unit) \in Seq(Unit)
      /\ Len(Append(pipe[s], unit)) = Len(pipe[s]) + 1
      /\ Len(pipe[s]) \in Nat
  BY <1>3, AppendProperties, LenProperties
<1>5. Texts'
  <2>1. wrote' \in [Streams -> Seq(Unit)]
    BY <1>1, <1>2, <1>4, Update DEF Texts
  <2>2. pipe' \in [Streams -> Seq(Unit)]
    BY <1>1, <1>2, <1>4, Update DEF Texts
  <2>3. ASSUME NEW t \in Streams PROVE Len(pipe'[t]) <= PipeCap
    <3>1. CASE reader[s] = "finished"
      BY <3>1, <1>1, <1>2 DEF Texts
    <3>2. CASE reader[s] # "finished" /\ t = s
      <4>1. pipe'[t] = Append(pipe[s], unit) /\ Len(pipe[s]) < PipeCap
        BY <3>2, <1>1, <1>2 DEF Texts
      <4> QED
        BY <4>1, <1>4
    <3>3. CASE reader[s] # "finished" /\ t # s
      <4>1. pipe'[t] = pipe[t]
        BY <3>3, <1>1, <1>2 DEF Texts
      <4> QED
        BY <4>1, <1>1 DEF Texts
    <3> QED
      BY <3>1, <3>2, <3>3
  <2> QED
    BY <2>1, <2>2, <2>3, <1>1, Zenon DEF Texts
<1>6. wrote'[s] = Append(wrote[s], unit) /\ \A t \in Streams \ {s} : wrote'[t] = wrote[t] /\ pipe'[t] = pipe[t]
  BY <1>1, <1>2 DEF Texts
<1>7. CASE reader[s] = "finished"
  <2>1. got[s] = Prefix(wrote[s]) /\ Len(got[s]) = Capture
    BY <1>1, <1>7 DEF StreamInv
  <2>2. got[s] = Prefix(wrote'[s])
    BY <2>1, <1>3, <1>6, PrefixStays
  <2> QED
    BY <1>1, <1>5, <1>6, <1>7, <2>1, <2>2, Zenon DEF StreamInv, Prefix
<1>8. CASE reader[s] # "finished"
  <2>1. wrote[s] = got[s] \o pipe[s] /\ Len(got[s]) < Capture
    BY <1>1, <1>8 DEF StreamInv
  <2>2. pipe'[s] = Append(pipe[s], unit)
    BY <1>1, <1>2, <1>8 DEF Texts
  <2>3. wrote'[s] = got[s] \o pipe'[s]
    BY <1>3, <1>6, <2>1, <2>2, Writes
  <2>4. ASSUME NEW t \in Streams
        PROVE  IF reader'[t] = "finished"
               THEN got'[t] = Prefix(wrote'[t]) /\ (Len(got'[t]) = Capture \/ ~Holders')
               ELSE wrote'[t] = got'[t] \o pipe'[t] /\ Len(got'[t]) < Capture
    <3>1. CASE t = s
      BY <3>1, <1>1, <1>8, <2>1, <2>3, Zenon
    <3>2. CASE t # s
      <4>1. wrote'[t] = wrote[t] /\ pipe'[t] = pipe[t]
        BY <3>2, <1>6
      <4>2. Holders' = Holders
        BY <1>1 DEF Holders
      <4> HIDE DEF Prefix
      <4> QED
        BY <4>1, <4>2, <1>1, Zenon DEF StreamInv
    <3> QED
      BY <3>1, <3>2
  <2> QED
    BY <1>5, <2>4, Zenon DEF StreamInv, Prefix
<1> QED
  BY <1>7, <1>8

\* What a reader takes from the pipe goes to the capture, up to its limit.
LEMMA ReadStep ==
  ASSUME IInv, NEW s \in Streams, Read(s)
  PROVE  Texts' /\ StreamInv'
<1> USE SecretAssumption
<1>1. Texts /\ StreamInv /\ UNCHANGED <<wrote, child, heir>>
      /\ reader[s] = "reading" /\ pipe[s] # <<>>
  BY TypeParts DEF IInv, Read
<1>2. /\ wrote[s] \in Seq(Unit) /\ pipe[s] \in Seq(Unit)
      /\ got[s] \in Seq(Unit)
  BY <1>1 DEF Texts
<1>3. wrote[s] = got[s] \o pipe[s] /\ Len(got[s]) < Capture
  BY <1>1 DEF StreamInv
<1> DEFINE g == Append(got[s], Head(pipe[s]))
           p == Tail(pipe[s])
<1>4. /\ g \in Seq(Unit) /\ p \in Seq(Unit) /\ g \o p = got[s] \o pipe[s]
      /\ Len(g) = Len(got[s]) + 1 /\ Len(p) = Len(pipe[s]) - 1
  BY <1>1, <1>2, Moves
<1>5. Len(got[s]) \in Nat /\ Len(pipe[s]) \in Nat /\ Len(pipe[s]) <= PipeCap
  BY <1>1, <1>2, LenProperties DEF Texts
<1>6. /\ got' = [got EXCEPT ![s] = g] /\ got'[s] = g
      /\ IF Len(g) = Capture
         THEN /\ reader' = [reader EXCEPT ![s] = "finished"]
              /\ pipe' = [pipe EXCEPT ![s] = <<>>]
         ELSE /\ pipe' = [pipe EXCEPT ![s] = p]
              /\ UNCHANGED reader
  <2>1. got' = [got EXCEPT ![s] = g] /\ got'[s] = g
    BY <1>1 DEF Read, Texts
  <2> QED
    BY <2>1, Zenon DEF Read
<1> HIDE DEF g, p
<1>7. <<>> \in Seq(Unit) /\ Len(<<>>) = 0
  BY EmptySeq
<1>8. Len(g) <= Capture /\ Len(p) <= PipeCap
  BY <1>3, <1>4, <1>5
<1>9. Texts'
  <2>1. got' \in [Streams -> Seq(Unit)] /\ pipe' \in [Streams -> Seq(Unit)]
    <3>1. got' \in [Streams -> Seq(Unit)]
      BY <1>1, <1>4, <1>6, Update, Zenon DEF Texts
    <3>2. pipe' = [pipe EXCEPT ![s] = <<>>] \/ pipe' = [pipe EXCEPT ![s] = p]
      BY <1>6
    <3>3. pipe' \in [Streams -> Seq(Unit)]
      BY <3>2, <1>1, <1>4, <1>7, Update, Zenon DEF Texts
    <3> QED
      BY <3>1, <3>3
  <2>2. \A t \in Streams : Len(got'[t]) <= Capture
    BY <1>1, <1>6, <1>8 DEF Texts
  <2>3. ASSUME NEW t \in Streams PROVE Len(pipe'[t]) <= PipeCap
    <3>1. pipe' = [pipe EXCEPT ![s] = <<>>] \/ pipe' = [pipe EXCEPT ![s] = p]
      BY <1>6
    <3>2. CASE t = s
      <4>1. pipe'[t] = <<>> \/ pipe'[t] = p
        BY <3>1, <3>2, <1>1 DEF Texts
      <4>2. CASE pipe'[t] = <<>>
        BY <4>2, <1>7
      <4> QED
        BY <4>1, <4>2, <1>8
    <3>3. CASE t # s
      <4>1. pipe'[t] = pipe[t]
        BY <3>1, <3>3, <1>1 DEF Texts
      <4> QED
        BY <4>1, <1>1 DEF Texts
    <3> QED
      BY <3>2, <3>3
  <2>4. reader' \in [Streams -> {"off", "reading", "finished"}]
    BY <1>1, <1>6 DEF Texts
  <2> QED
    BY <2>1, <2>2, <2>3, <2>4, <1>1, Zenon DEF Texts
<1>10. ASSUME NEW t \in Streams \ {s}
       PROVE  got'[t] = got[t] /\ pipe'[t] = pipe[t] /\ reader'[t] = reader[t]
  BY <1>1, <1>6 DEF Texts
<1>11. IF reader'[s] = "finished"
       THEN got'[s] = Prefix(wrote'[s]) /\ (Len(got'[s]) = Capture \/ ~Holders')
       ELSE wrote'[s] = got'[s] \o pipe'[s] /\ Len(got'[s]) < Capture
  <2>1. CASE Len(g) = Capture
    <3>1. reader'[s] = "finished"
      BY <2>1, <1>1, <1>6 DEF Texts
    <3>2. Prefix(g \o p) = g
      BY <2>1, <1>4, PrefixFilled
    <3> QED
      BY <3>1, <3>2, <2>1, <1>1, <1>3, <1>4, <1>6, Zenon
  <2>2. CASE Len(g) # Capture
    <3>1. reader'[s] = "reading" /\ pipe'[s] = p
      BY <2>2, <1>1, <1>6 DEF Texts
    <3>2. Len(g) < Capture
      BY <2>2, <1>4, <1>5, <1>8
    <3>3. "reading" # "finished"
      OBVIOUS
    <3> QED
      BY <3>1, <3>2, <3>3, <1>1, <1>3, <1>4, <1>6, Zenon
  <2> QED
    BY <2>1, <2>2
<1>12. Holders' = Holders
  BY <1>1 DEF Holders
<1>13. ASSUME NEW t \in Streams
       PROVE  IF reader'[t] = "finished"
              THEN got'[t] = Prefix(wrote'[t]) /\ (Len(got'[t]) = Capture \/ ~Holders')
              ELSE wrote'[t] = got'[t] \o pipe'[t] /\ Len(got'[t]) < Capture
  <2>1. CASE t # s
    BY <2>1, <1>1, <1>10, <1>12, Zenon DEF StreamInv
  <2> QED
    BY <2>1, <1>11, Zenon
<1> QED
  BY <1>9, <1>13, Zenon DEF StreamInv, Prefix

\* A reader ends with what it has captured.
LEMMA ReadEndStep ==
  ASSUME IInv, NEW s \in Streams, ReadEnd(s)
  PROVE  Texts' /\ StreamInv'
<1> USE SecretAssumption
<1>1. Texts /\ StreamInv /\ UNCHANGED <<wrote, got, pipe, child, heir>>
      /\ reader[s] = "reading" /\ pipe[s] = <<>> /\ ~Holders
      /\ reader' = [reader EXCEPT ![s] = "finished"]
  BY TypeParts DEF IInv, ReadEnd
<1>2. Texts'
  BY <1>1 DEF Texts
<1>3. wrote[s] = got[s] \o <<>> /\ Len(got[s]) < Capture /\ got[s] \in Seq(Unit)
      /\ Len(got[s]) \in Nat
  BY <1>1, LenProperties DEF StreamInv, Texts
<1>4. got[s] = Prefix(wrote[s])
  BY <1>3, PrefixWhole, ConcatEmptySeq
<1>5. reader'[s] = "finished" /\ \A t \in Streams \ {s} : reader'[t] = reader[t]
  BY <1>1 DEF Texts
<1>6. ~Holders'
  BY <1>1 DEF Holders
<1>7. ASSUME NEW t \in Streams
      PROVE  IF reader'[t] = "finished"
             THEN got'[t] = Prefix(wrote'[t]) /\ (Len(got'[t]) = Capture \/ ~Holders')
             ELSE wrote'[t] = got'[t] \o pipe'[t] /\ Len(got'[t]) < Capture
  <2>1. CASE t = s
    BY <2>1, <1>1, <1>4, <1>5, <1>6, Zenon
  <2>2. CASE t # s
    BY <2>2, <1>1, <1>5, <1>6, Zenon DEF StreamInv
  <2> QED
    BY <2>1, <2>2
<1> QED
  BY <1>2, <1>7, Zenon DEF StreamInv, Prefix

\* Every step keeps capture and pipe together what was printed.
LEMMA StreamStep ==
  ASSUME IInv, [Next]_vars
  PROVE  Texts' /\ StreamInv'
<1>1. Texts /\ Scalars /\ CtlInv
  BY TypeParts DEF IInv
<1>2. CASE Start
  BY <1>1, <1>2, Quiet DEF Start, Holders, Texts
<1>3. CASE Spawn
  <2>1. \A s \in Streams : reader[s] = "off"
    BY <1>1, <1>3 DEF CtlInv, Spawn
  <2>2. UNCHANGED <<pipe, got, wrote>>
        /\ reader' = [s \in Streams |-> IF pc' = "poll" THEN "reading" ELSE "off"]
    BY <1>3 DEF Spawn
  <2>3. reader' \in [Streams -> {"off", "reading", "finished"}]
        /\ \A s \in Streams : reader'[s] # "finished"
    BY <2>2
  <2>4. \A s \in Streams : reader'[s] = "finished" <=> reader[s] = "finished"
    BY <2>1, <2>3
  <2> QED
    BY <2>1, <2>2, <2>3, <2>4, Quiet, Zenon
<1>4. CASE Write
  <2>1. \A s \in Streams : reader[s] = "off"
    BY <1>1, <1>4 DEF CtlInv, Write
  <2>2. UNCHANGED <<pipe, got, wrote, child, heir>>
        /\ (reader' = [s \in Streams |-> "reading"] \/ UNCHANGED reader)
    BY <1>4 DEF Write
  <2>3. reader' \in [Streams -> {"off", "reading", "finished"}]
        /\ \A s \in Streams : reader'[s] # "finished"
    BY <1>1, <2>1, <2>2 DEF Texts
  <2> QED
    BY <2>1, <2>2, <2>3, Quiet
<1>5. CASE WriteFails \/ Poll \/ Kill \/ Tick \/ Join
  <2>1. UNCHANGED <<pipe, got, wrote, reader>>
    BY <1>5 DEF WriteFails, Poll, Kill, Tick, Join
  <2>2. Holders' => Holders
    BY <1>5, <1>1 DEF WriteFails, Poll, Kill, Tick, Join, Holders, Scalars
  <2> QED
    BY <1>1, <2>1, <2>2, Quiet DEF Texts
<1>6. CASE ChildReads \/ ChildForks \/ ChildExits \/ HeirEnds
  <2>1. UNCHANGED <<pipe, got, wrote, reader>>
    BY <1>6 DEF ChildReads, ChildForks, ChildExits, HeirEnds, caller
  <2>2. Holders' => Holders
    BY <1>6 DEF ChildReads, ChildForks, ChildExits, HeirEnds, Holders
  <2> QED
    BY <1>1, <2>1, <2>2, Quiet DEF Texts
<1>7. CASE \E s \in Streams, unit \in Unit : ChildWrites(s, unit)
  BY <1>7, ChildWritesStep
<1>8. CASE \E s \in Streams : Read(s) \/ ReadEnd(s)
  BY <1>8, ReadStep, ReadEndStep
<1>9. CASE UNCHANGED vars
  BY <1>1, <1>9, Quiet DEF vars, Texts, Holders
<1> QED
  BY <1>2, <1>3, <1>4, <1>5, <1>6, <1>7, <1>8, <1>9, ChildCases DEF Next,
     Caller

\* Every step keeps the child's life and the caller's place in agreement.
LEMMA CtlStep ==
  ASSUME IInv, [Next]_vars
  PROVE  CtlInv'
<1>1. Texts /\ Scalars /\ CtlInv /\ TypeOK
  BY TypeParts DEF IInv
<1> USE <1>1 DEF CtlInv
<1>2. CASE Start
  <2>1. /\ pc = "start" /\ pc' \in {"done", "spawn"}
        /\ pc' = "spawn" => UNCHANGED result
        /\ UNCHANGED <<reader, child, heir>>
    BY <1>2, StartEffect
  <2> QED
    BY <2>1
<1>3. CASE Spawn
  <2>1. CASE Fail
    BY <1>3, <2>1 DEF Spawn, Fail, Return
  <2>2. CASE ~Fail
    BY <1>3, <2>2, SecretAssumption DEF Spawn
  <2> QED
    BY <2>1, <2>2
<1>4. CASE Write
  BY <1>4 DEF Write, Scalars
<1>5. CASE WriteFails
  BY <1>5 DEF WriteFails, Fail, Return
<1>6. CASE Poll
  BY <1>6 DEF Poll
<1>7. CASE Kill
  BY <1>7 DEF Kill, Fail, Return
<1>8. CASE Join
  <2>1. pc' = "done"
    BY <1>8, OutputEffect DEF Join
  <2> QED
    BY <1>8, <2>1 DEF Join
<1>9. CASE ChildReads \/ ChildForks \/ ChildExits \/ HeirEnds
  BY <1>9 DEF ChildReads, ChildForks, ChildExits, HeirEnds, caller
<1>10. CASE \E s \in Streams, unit \in Unit : ChildWrites(s, unit)
  BY <1>10 DEF ChildWrites, caller
<1>11. CASE Tick
  BY <1>11 DEF Tick
<1>12. ASSUME NEW s \in Streams, Read(s) \/ ReadEnd(s) PROVE CtlInv'
  <2>1. UNCHANGED <<pc, child, heir, result, input>> /\ reader[s] = "reading"
    BY <1>12 DEF Read, ReadEnd
  <2>2. pc \notin {"start", "spawn", "write"}
    BY <2>1
  <2> QED
    BY <2>1, <2>2
<1>13. CASE UNCHANGED vars
  BY <1>13 DEF vars
<1> QED
  BY <1>2, <1>3, <1>4, <1>5, <1>6, <1>7, <1>8, <1>9, <1>10, <1>11, <1>12,
     <1>13,
     ChildCases DEF Next, Caller

\* Behind the start, only the backend it has chosen gives a value.
LEMMA SourceStep ==
  ASSUME IInv, [Next]_vars
  PROVE  SourceInv'
<1>1. TypeOK /\ SourceInv /\ CtlInv /\ Scalars
  BY TypeParts DEF IInv
<1>2. CASE Start
  <2>1. UNCHANGED opts /\ UNCHANGED op /\ Configured' = Configured
    BY <1>2, Zenon DEF Start, Configured
  <2>2. result'.kind = "secret" =>
          \A i \in 1..4 : Configured[Sources[i]] =>
            \E k \in 1..i : result'.source = Sources[k]
    <3>1. result.kind # "secret"
      BY <1>1, <1>2 DEF CtlInv, Start, NoResult
    <3> QED
      BY <3>1, <1>1, <1>2, StartEffect, Zenon
  <2>3. op = "resolve" /\ pc' \notin {"start", "done"} =>
          /\ opts.env # "text"
          /\ \/ backend' = "symvault" /\ opts.ref = TRUE
             \/ backend' = "keychain" /\ opts.ref = FALSE /\ opts.keychain = TRUE
    BY <1>1, <1>2, StartEffect
  <2> QED
    BY <2>1, <2>2, <2>3, Zenon DEF SourceInv, FailsClosed, Sources
<1>3. CASE Join
  <2>1. pc = "join" /\ UNCHANGED <<op, opts, backend>> /\ Output
    BY <1>3 DEF Join
  <2>2. pc' = "done"
    BY <2>1, <1>1, OutputEffect
  <2>3. ASSUME result'.kind = "secret"
        PROVE  op = "resolve" /\ result'.source = backend
    BY <2>1, <2>3, <1>1, OutputEffect
  <2>4. ASSUME result'.kind = "secret", NEW i \in 1..4, Configured[Sources[i]]
        PROVE  \E k \in 1..i : result'.source = Sources[k]
    <3>1. /\ opts.env # "text"
          /\ \/ backend = "symvault"
             \/ backend = "keychain" /\ opts.ref = FALSE
      BY <2>1, <2>3, <2>4, <1>1 DEF SourceInv
    <3>2. ~Configured["env"] /\ Configured["symvault"] = opts.ref
      BY <3>1 DEF Configured
    <3>3. /\ Sources[1] = "env" /\ Sources[2] = "symvault"
          /\ Sources[3] = "keychain"
      BY DEF Sources
    <3>4. i \in Nat /\ i # 1
      <4>1. i # 1
        BY <2>4, <3>2, <3>3, Zenon
      <4> QED
        BY <4>1
    <3>5. CASE backend = "symvault"
      BY <3>3, <3>4, <3>5, <2>3, <2>4
    <3>6. CASE backend = "keychain" /\ opts.ref = FALSE
      <4>1. i # 2
        BY <2>4, <3>2, <3>3, <3>6
      <4> QED
        BY <3>3, <3>4, <3>6, <4>1, <2>3, <2>4
    <3> QED
      BY <3>1, <3>5, <3>6
  <2>5. Configured' = Configured
    BY <2>1 DEF Configured
  <2>6. FailsClosed'
    BY <2>4, <2>5, Zenon DEF FailsClosed, Sources
  <2> QED
    BY <2>2, <2>6 DEF SourceInv
<1>4. CASE Fail /\ ~Start
  <2>1. pc' = "done" /\ result'.kind # "secret"
    BY <1>4, FailEffect
  <2> QED
    BY <2>1, Zenon DEF SourceInv, FailsClosed
<1>5. CASE UNCHANGED result /\ ~Start /\ ~Join
  <2>1. UNCHANGED <<op, opts, backend>> /\ (pc' \notin {"start", "done"} => pc \notin {"start", "done"})
    <3>1. CASE Spawn \/ Write \/ WriteFails \/ Poll \/ Kill \/ Tick
      BY <3>1, <1>1 DEF Spawn, Write, WriteFails, Poll, Kill, Tick
    <3>2. CASE ChildReads \/ ChildForks \/ ChildExits \/ HeirEnds
      BY <3>2 DEF ChildReads, ChildForks, ChildExits, HeirEnds, caller
    <3>3. CASE \E s \in Streams, unit \in Unit : ChildWrites(s, unit)
      BY <3>3 DEF ChildWrites, caller
    <3>4. CASE \E s \in Streams : Read(s) \/ ReadEnd(s)
      BY <3>4 DEF Read, ReadEnd
    <3>5. CASE UNCHANGED vars
      BY <3>5 DEF vars
    <3> QED
      BY <1>5, <3>1, <3>2, <3>3, <3>4, <3>5, ChildCases DEF Next, Caller
  <2>2. Configured' = Configured
    BY <2>1 DEF Configured
  <2> QED
    BY <1>1, <1>5, <2>1, <2>2, Zenon DEF SourceInv, FailsClosed, Sources
<1> QED
  BY <1>2, <1>3, <1>4, <1>5, StepCases, Zenon

\* Every step keeps a value that was taken what its source has given.
LEMMA ValueStep ==
  ASSUME IInv, [Next]_vars
  PROVE  ValueInv'
<1>1. TypeOK /\ ValueInv /\ CtlInv /\ Scalars /\ Texts
  BY TypeParts DEF IInv
<1>2. CASE Start
  <2>1. result.source \notin {"symvault", "keychain"}
    BY <1>1, <1>2 DEF CtlInv, Start, NoResult
  <2>2. result'.source \notin {"symvault", "keychain"}
    BY <2>1, <1>1, <1>2, StartEffect
  <2> QED
    BY <2>2 DEF ValueInv
<1>3. CASE Join
  <2>1. /\ Output /\ reader["out"] = "finished" /\ child = "reaped"
        /\ UNCHANGED <<child, status, reader, got>>
    BY <1>1, <1>3 DEF Join, Joined, Streams, CtlInv
  <2>2. ASSUME result'.source \in {"symvault", "keychain"}
        PROVE  /\ pc' = "done" /\ status = TRUE
               /\ result'.value = Trimmed(Lossy(got["out"]))
    BY <2>1, <2>2, <1>1, OutputEffect
  <2>3. child # "running"
    BY <2>1
  <2> QED
    BY <2>1, <2>2, <2>3, Zenon DEF ValueInv, Trimmed
<1>4. CASE Fail
  BY <1>4, FailEffect DEF ValueInv
<1>5. CASE UNCHANGED result /\ ~Start /\ ~Join
  <2>1. SUFFICES ASSUME result'.source \in {"symvault", "keychain"}
                 PROVE  UNCHANGED <<pc, child, status>> /\ reader'["out"] = "finished"
                        /\ got'["out"] = got["out"]
    <3>1. ASSUME result'.source \in {"symvault", "keychain"} PROVE ValueInv'
      BY <2>1, <3>1, <1>1, <1>5, Zenon DEF ValueInv, Trimmed
    <3> QED
      BY <3>1, Zenon DEF ValueInv
  <2>2. pc = "done" /\ child # "running" /\ reader["out"] = "finished"
    BY <1>1, <1>5, <2>1 DEF ValueInv
  <2>3. CASE Spawn \/ Write \/ WriteFails \/ Poll \/ Kill \/ Tick
    BY <2>2, <2>3 DEF Spawn, Write, WriteFails, Poll, Kill, Tick
  <2>4. CASE ChildReads \/ ChildForks \/ ChildExits \/ HeirEnds
    BY <2>2, <2>4 DEF ChildReads, ChildForks, ChildExits, HeirEnds, caller
  <2>5. CASE \E s \in Streams, unit \in Unit : ChildWrites(s, unit)
    BY <2>2, <2>5 DEF ChildWrites, caller
  <2>6. ASSUME NEW s \in Streams, Read(s) \/ ReadEnd(s)
        PROVE  UNCHANGED <<pc, child, status>> /\ reader'["out"] = "finished"
               /\ got'["out"] = got["out"]
    <3>1. s = "err"
      BY <2>2, <2>6 DEF Read, ReadEnd, Streams
    <3>2. UNCHANGED <<pc, child, status>>
      BY <2>6 DEF Read, ReadEnd
    <3>3. reader'["out"] = reader["out"] /\ got'["out"] = got["out"]
      BY <1>1, <2>6, <3>1 DEF Read, ReadEnd, Texts, Streams
    <3> QED
      BY <2>2, <3>2, <3>3
  <2>7. CASE UNCHANGED vars
    BY <2>2, <2>7 DEF vars
  <2> QED
    BY <1>5, <2>3, <2>4, <2>5, <2>6, <2>7, ChildCases DEF Next, Caller
<1> QED
  BY <1>2, <1>3, <1>4, <1>5, StepCases, Zenon

-----------------------------------------------------------------------------
(* The theorems                                                            *)

\* The invariant of the command.
LEMMA Invariant == Spec => []IInv
<1>1. IInv /\ [Next]_vars => IInv'
  BY ScalarsStep, ResultsStep, StreamStep, CtlStep, SourceStep, ValueStep,
     TypeParts,
     TypePartsNext, Zenon DEF IInv
<1> QED
  BY <1>1, IInvInit, PTL DEF Spec

\* What the caller, the child, the readers and the pipes hold is what the code
\* can hold, and no pipe and no capture exceeds its limit.
THEOREM SecretTypeCorrect == Spec => []TypeOK
<1>1. IInv => TypeOK
  BY DEF IInv
<1> QED
  BY <1>1, Invariant, PTL

\* No call leaves a running child or a zombie behind.
THEOREM ChildrenReaped == Spec => []ChildReaped
<1>1. IInv => ChildReaped
  BY DEF IInv, CtlInv, ChildReaped
<1> QED
  BY <1>1, Invariant, PTL

\* No password comes from a source behind the first that is configured.
THEOREM SourcesFailClosed == Spec => []FailsClosed
<1>1. IInv => FailsClosed
  BY DEF IInv, SourceInv
<1> QED
  BY <1>1, Invariant, PTL

\* A password of a backend is all that it printed, up to the limit, but for
\* what is no UTF-8 or was cut by the limit: that comes as U+FFFD.
THEOREM SecretsWhole == Spec => []SecretWhole
<1>1. IInv => SecretWhole
  <2> SUFFICES ASSUME IInv, result.source \in {"symvault", "keychain"}
               PROVE  status /\ result.value = Trimmed(Lossy(Printed("out")))
    BY DEF SecretWhole
  <2>1. status = TRUE /\ reader["out"] = "finished" /\ result.value = Trimmed(Lossy(got["out"]))
    BY DEF IInv, ValueInv
  <2>2. got["out"] = Prefix(wrote["out"])
    BY <2>1, Zenon DEF IInv, StreamInv, Streams
  <2>3. Printed("out") = Prefix(wrote["out"])
    BY DEF Printed, Prefix
  <2> QED
    BY <2>1, <2>2, <2>3
<1> QED
  BY <1>1, Invariant, PTL
=============================================================================
