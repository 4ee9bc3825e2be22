--------------------------- MODULE SecretCommand ---------------------------
(***************************************************************************)
(* crates/symfritz-core/src/secret.rs: the resolution of a password and    *)
(* the command lines that read and store one.  `run_command` talks to a    *)
(* child process through three bounded pipes while time passes; the child, *)
(* and a descendant that inherited its pipes, may do anything.             *)
(***************************************************************************)
EXTENDS Naturals, Sequences, FiniteSetsExt

CONSTANTS MacOs,     \* built for macOS, where the keychain is
          Payload,   \* writes that the payload of a set takes
          PipeCap,   \* what a pipe holds
          Capture,   \* what the readers take of each stream
          MaxOut     \* bound: what the child prints on each stream

ASSUME SecretAssumption ==
  /\ MacOs \in BOOLEAN
  /\ Payload \in Nat \ {0} /\ PipeCap \in Nat \ {0}
  /\ Capture \in Nat \ {0} /\ MaxOut \in Nat

Streams == {"out", "err"}

\* What a program prints: a character of one byte, the first or the second
\* byte of one that has two, or a line end.
Unit == {"s", "lead", "cont", "nl"}

\* What text can hold: these, and U+FFFD for a byte that is no part of any.
Character == Unit \union {"replaced"}

Operations == {"resolve", "symvault_set", "keychain_set"}

\* SecretOptions::from: what is configured, empty strings being nothing.  The
\* variable of the environment may hold bytes that are no Unicode.
Options == [env : {"unset", "text", "bytes"}, ref : BOOLEAN,
            keychain : BOOLEAN, plain : BOOLEAN]

NoOptions == [env |-> "unset", ref |-> FALSE, keychain |-> FALSE,
              plain |-> FALSE]

\* CredentialSource, highest priority first.
Sources == <<"env", "symvault", "keychain", "config">>

VARIABLES
  op, opts,
  backend,   \* the program that is run
  pc,        \* of the caller, in run_command from "spawn" to "join"
  input,     \* writes of the payload still to come
  stdin,     \* what is in the child's input pipe
  pipe,      \* what is in its output pipes
  reader,    \* of each stream: "off", "reading" or "finished"
  got,       \* what the readers have captured
  child,     \* "none", "running", "zombie" or "reaped"
  status,    \* its exit status is a success
  heir,      \* a descendant holds the pipes
  late,      \* started.elapsed() >= timeout
  result,    \* [kind, source, value]
  wrote      \* history: what child and descendants printed

vars == <<op, opts, backend, pc, input, stdin, pipe, reader, got, child,
          status, heir, late, result, wrote>>
caller == <<op, opts, backend, pc, input, reader, got, late, result>>

NoResult == [kind |-> "none", source |-> "none", value |-> <<>>]

TypeOK ==
  /\ op \in Operations /\ opts \in Options
  /\ backend \in {"none", "symvault", "keychain"}
  /\ pc \in {"start", "spawn", "write", "poll", "kill", "join", "done"}
  /\ input \in 0..Payload /\ stdin \in 0..PipeCap
  /\ pipe \in [Streams -> Seq(Unit)]
  /\ \A s \in Streams : Len(pipe[s]) <= PipeCap
  /\ reader \in [Streams -> {"off", "reading", "finished"}]
  /\ got \in [Streams -> Seq(Unit)]
  /\ \A s \in Streams : Len(got[s]) <= Capture
  /\ child \in {"none", "running", "zombie", "reaped"}
  /\ status \in BOOLEAN /\ heir \in BOOLEAN /\ late \in BOOLEAN
  /\ result.kind \in {"none", "secret", "stored", "error"}
  /\ result.source \in {"none", "env", "symvault", "keychain", "config"}
  /\ result.value \in Seq(Character)
  /\ wrote \in [Streams -> Seq(Unit)]

\* The sets take no options.
Init ==
  /\ op \in Operations /\ opts \in Options
  /\ op # "resolve" => opts = NoOptions
  /\ backend = "none" /\ pc = "start"
  /\ input = 0 /\ stdin = 0
  /\ pipe = [s \in Streams |-> <<>>]
  /\ reader = [s \in Streams |-> "off"]
  /\ got = [s \in Streams |-> <<>>]
  /\ child = "none" /\ status = FALSE /\ heir = FALSE /\ late = FALSE
  /\ result = NoResult
  /\ wrote = [s \in Streams |-> <<>>]

-----------------------------------------------------------------------------
(* resolve, symvault_set, keychain_set                                     *)

Return(kind, source, value) ==
  /\ pc' = "done"
  /\ result' = [kind |-> kind, source |-> source, value |-> value]

Fail == Return("error", "none", <<>>)

Run(program) ==
  /\ backend' = program /\ pc' = "spawn" /\ UNCHANGED result

Keychain ==
  IF MacOs THEN Run("keychain") ELSE Fail /\ UNCHANGED backend

\* The first source that is configured is the one that is asked.  A variable
\* that is no Unicode is taken for one that is not set.
Resolve ==
  IF opts.env = "text" THEN Return("secret", "env", <<"s">>) /\ UNCHANGED backend
  ELSE IF opts.ref THEN Run("symvault")
  ELSE IF opts.keychain THEN Keychain
  ELSE IF opts.plain
  THEN Return("secret", "config", <<"s">>) /\ UNCHANGED backend
  ELSE Return("secret", "none", <<>>) /\ UNCHANGED backend

Start ==
  /\ pc = "start"
  /\ IF op = "resolve" THEN Resolve
     ELSE IF op = "symvault_set" THEN Run("symvault") ELSE Keychain
  /\ UNCHANGED <<op, opts, input, stdin, pipe, reader, got, child, status,
                 heir, late, wrote>>

-----------------------------------------------------------------------------
(* The child and its descendant                                            *)

Holders == child = "running" \/ heir

\* spawn; the readers are not there yet.
Spawn ==
  /\ pc = "spawn"
  /\ \/ Fail /\ UNCHANGED <<child, input>>
     \/ /\ child' = "running" /\ UNCHANGED result
        /\ IF op = "resolve"
           THEN pc' = "poll" /\ UNCHANGED input
           ELSE pc' = "write" /\ input' = Payload
  /\ reader' = [s \in Streams |-> IF pc' = "poll" THEN "reading" ELSE "off"]
  /\ UNCHANGED <<op, opts, backend, stdin, pipe, got, status, heir, late,
                 wrote>>

ChildReads ==
  /\ Holders /\ stdin > 0
  /\ stdin' = stdin - 1
  /\ UNCHANGED <<caller, pipe, child, status, heir, wrote>>

\* A write waits for room, and is lost once the reader has dropped its end.
ChildWrites(s, unit) ==
  /\ Holders /\ Len(wrote[s]) < MaxOut
  /\ \/ /\ reader[s] # "finished" /\ Len(pipe[s]) < PipeCap
        /\ pipe' = [pipe EXCEPT ![s] = Append(@, unit)]
     \/ reader[s] = "finished" /\ UNCHANGED pipe
  /\ wrote' = [wrote EXCEPT ![s] = Append(@, unit)]
  /\ UNCHANGED <<caller, stdin, child, status, heir>>

ChildForks ==
  /\ child = "running" /\ ~heir
  /\ heir' = TRUE
  /\ UNCHANGED <<caller, stdin, pipe, child, status, wrote>>

\* A child that was killed by the write to a closed pipe fails as well.
ChildExits ==
  /\ child = "running"
  /\ child' = "zombie" /\ status' \in BOOLEAN
  /\ UNCHANGED <<caller, stdin, pipe, heir, wrote>>

HeirEnds ==
  /\ heir
  /\ heir' = FALSE
  /\ UNCHANGED <<caller, stdin, pipe, child, status, wrote>>

-----------------------------------------------------------------------------
(* run_command                                                             *)

\* stdin.write_all, before the readers and the clock are started.  With the
\* last write the pipe is closed.
Write ==
  /\ pc = "write" /\ Holders /\ stdin < PipeCap
  /\ stdin' = stdin + 1 /\ input' = input - 1
  /\ IF input = 1
     THEN pc' = "poll" /\ reader' = [s \in Streams |-> "reading"]
     ELSE UNCHANGED <<pc, reader>>
  /\ UNCHANGED <<op, opts, backend, pipe, got, child, status, heir, late,
                 result, wrote>>

WriteFailsUnwaited ==
  /\ pc = "write"
  /\ child' = "zombie" /\ Fail
  /\ UNCHANGED <<op, opts, backend, input, stdin, pipe, reader, got, status,
                 heir, late, wrote>>

\* The child has closed its input or is gone: it is killed and waited for.
WriteFails ==
  /\ pc = "write"
  /\ child' = "reaped" /\ Fail
  /\ UNCHANGED <<op, opts, backend, input, stdin, pipe, reader, got, status,
                 heir, late, wrote>>

\* A reader stops at the limit and drops its end of the pipe, or comes to
\* the end when nobody holds the other one.
Read(s) ==
  /\ reader[s] = "reading" /\ pipe[s] # <<>>
  /\ got' = [got EXCEPT ![s] = Append(@, Head(pipe[s]))]
  /\ IF Len(got'[s]) = Capture
     THEN /\ reader' = [reader EXCEPT ![s] = "finished"]
          /\ pipe' = [pipe EXCEPT ![s] = <<>>]
     ELSE /\ pipe' = [pipe EXCEPT ![s] = Tail(@)]
          /\ UNCHANGED reader
  /\ UNCHANGED <<op, opts, backend, pc, input, stdin, child, status, heir,
                 late, result, wrote>>

ReadEnd(s) ==
  /\ reader[s] = "reading" /\ pipe[s] = <<>> /\ ~Holders
  /\ reader' = [reader EXCEPT ![s] = "finished"]
  /\ UNCHANGED <<op, opts, backend, pc, input, stdin, pipe, got, child,
                 status, heir, late, result, wrote>>

\* The clock starts when the readers do.
Tick ==
  /\ pc \in {"poll", "kill", "join"} /\ ~late
  /\ late' = TRUE
  /\ UNCHANGED <<op, opts, backend, pc, input, stdin, pipe, reader, got,
                 child, status, heir, result, wrote>>

PollForever ==
  /\ pc = "poll" /\ child = "zombie"
  /\ pc' = "join" /\ child' = "reaped"
  /\ UNCHANGED <<op, opts, backend, input, stdin, pipe, reader, got, status,
                 heir, late, result, wrote>>

\* try_wait, every ten milliseconds.
Poll ==
  /\ pc = "poll"
  /\ \/ child = "zombie" /\ pc' = "join" /\ child' = "reaped"
     \/ child = "running" /\ late /\ pc' = "kill" /\ UNCHANGED child
  /\ UNCHANGED <<op, opts, backend, input, stdin, pipe, reader, got, status,
                 heir, late, result, wrote>>

\* Too late: the direct children are asked to end, the child is killed and
\* waited for, its status and its output are left alone.
Kill ==
  /\ pc = "kill"
  /\ heir' \in {heir, FALSE}
  /\ child' = "reaped"
  /\ Fail
  /\ UNCHANGED <<op, opts, backend, input, stdin, pipe, reader, got, status,
                 late, wrote>>

JoinedOne == \E s \in Streams : reader[s] = "finished"
Joined == \A s \in Streams : reader[s] = "finished"

\* String::from_utf8_lossy: a byte that is no part of a character, or of one
\* that the limit has cut, is replaced.
Whole(text, i) ==
  /\ text[i] = "lead" => i < Len(text) /\ text[i + 1] = "cont"
  /\ text[i] = "cont" => i > 1 /\ text[i - 1] = "lead"

Lossy(text) ==
  [i \in DOMAIN text |-> IF Whole(text, i) THEN text[i] ELSE "replaced"]

\* The line ends behind the value are no part of it.
Trimmed(text) ==
  SubSeq(text, 1, Max({i \in DOMAIN text : text[i] # "nl"} \union {0}))

OutputOrPlain ==
  LET value == Trimmed(Lossy(got["out"]))
  IN IF ~status /\ op = "resolve" /\ opts.plain
     THEN Return("secret", "config", <<"s">>)
     ELSE IF ~status THEN Fail
     ELSE IF op # "resolve" THEN Return("stored", "none", <<>>)
     ELSE IF backend = "symvault" /\ value = <<>> THEN Fail
     ELSE Return("secret", backend, value)

\* symvault does not keep empty passwords, the keychain may.
Output ==
  LET value == Trimmed(Lossy(got["out"]))
  IN IF ~status THEN Fail
     ELSE IF op # "resolve" THEN Return("stored", "none", <<>>)
     ELSE IF backend = "symvault" /\ value = <<>> THEN Fail
     ELSE Return("secret", backend, value)

\* The child has exited; both readers are joined, however long that takes.
\* (A child that failed is an error in time or not.)
Join ==
  /\ pc = "join" /\ Joined
  /\ Output
  /\ UNCHANGED <<op, opts, backend, input, stdin, pipe, reader, got, child,
                 status, heir, late, wrote>>

Caller == Start \/ Spawn \/ Write \/ WriteFails \/ Poll \/ Kill \/ Join

Child ==
  \/ ChildReads \/ ChildForks \/ ChildExits \/ HeirEnds
  \/ \E unit \in Unit : ChildWrites("out", unit)
  \/ ChildWrites("err", "s")

Next ==
  \/ Caller \/ Child \/ Tick
  \/ \E s \in Streams : Read(s) \/ ReadEnd(s)

Spec == Init /\ [][Next]_vars

\* The caller's thread, its readers and the clock go on, and so does the pkill
\* that Kill runs and waits for, which only signals.  Nothing is expected of
\* the child and its descendant.
Fairness ==
  /\ WF_vars(Poll) /\ WF_vars(Kill) /\ WF_vars(Join) /\ WF_vars(Tick)
  /\ \A s \in Streams : WF_vars(Read(s)) /\ WF_vars(ReadEnd(s))

FairSpec == Spec /\ Fairness

-----------------------------------------------------------------------------
(* Properties                                                              *)

Printed(s) == SubSeq(wrote[s], 1, Min({Len(wrote[s]), Capture}))

\* A password that a backend was asked for is all that the program printed,
\* up to the limit and without the line ends, however the readers, the exit
\* and the timeout fall together; and the program succeeded.  Only bytes that
\* are no UTF-8, and a character that the limit has cut, come as U+FFFD.
SecretWhole ==
  result.source \in {"symvault", "keychain"} =>
    status /\ result.value = Trimmed(Lossy(Printed("out")))

Configured ==
  [env |-> opts.env = "text", symvault |-> opts.ref, keychain |-> opts.keychain,
   config |-> opts.plain]

\* A configured source fails closed: whatever becomes of its program, no
\* password comes from a source behind the first one that is configured, and
\* an empty one without a source only when none is.  (A variable of the
\* environment that is no Unicode configures nothing.)
FailsClosed ==
  result.kind = "secret" =>
    \A i \in 1..4 :
      Configured[Sources[i]] => \E k \in 1..i : result.source = Sources[k]

\* No call leaves a running child or a zombie behind, whichever way it ends.
ChildReaped == pc = "done" => child \in {"none", "reaped"}

\* Once the payload is written and the output is read, a child that hangs is
\* killed, and one that floods its streams is not waited for: the call ends,
\* unless a descendant of a child that has exited holds the pipes.
PollEnds == pc = "poll" ~> (pc = "done" \/ (pc = "join" /\ heir))
=============================================================================
