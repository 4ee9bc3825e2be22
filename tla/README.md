# TLA+ models of symfritz

`symfritz` is a command line tool and MCP server for the FRITZ!Box router. It
speaks TR-064 (SOAP over HTTP with Digest authentication), the router's web
session interface (login SID, AHA switch commands, `data.lua`, the mesh list)
and DNS, stores certificate pins and credentials, and serves tools to an MCP
client over stdio. This directory holds TLA+ models of the parts of it that
keep state, the TLC runs that check them on small instances, and the theorems
that TLAPS proves about them for all values of their constants.

Paths below are relative to the root of the repository; `core`, `tr064`, `aha`,
`mcp` and `cli` stand for `crates/symfritz-core` and so on.

## 1. Inventory

| part | state it keeps | operations | hard behaviour |
|---|---|---|---|
| Certificate pins, `core/src/pins.rs` | a map from host to SPKI pin, read once when a store is opened, its load error, the file `pins.json` and its directory | open, first contact (`set`), `reset`, the write protocol | crashes and power loss between temporary file, fsync, rename and directory fsync, and with a new directory; failing system calls, the read of a healthy file among them; several stores over one file |
| HTTP(S) transport, `tr064/src/transport.rs` | `tls_enabled`, the warn-once flag, the pin store, the cancellation probe | `send`: connect, handshake, pin check, write, read, fall back | fall back to plain HTTP, repetition of requests, cancellation at dispatch boundaries, deadlines and framing of responses |
| SOAP client with Digest, `tr064/src/client.rs` | the cached challenge and its nonce count, the discovered services | `call`, `authenticated_get`, `discover` | stale nonces, lost messages, one repetition per call, a saturating 32-bit count |
| Firmware workflow, `tr064/src/firmware.rs`, `cli/src/firmware_cli.rs` | a budget of time and polls, the report | status, check, install with verification | ambiguous outcomes, reboots, offers that change, deadlines, cancellation |
| Session client, `aha/src/lib.rs` | the cached SID and the time of its login | login, `home`, `cpu_temperatures`, `data_lua`, `mesh_topology` | sessions the router lost, repetition after 403, block times, two candidates of the mesh list |
| MCP server, `mcp/src/lib.rs` | reader channel, work queue, pending counter, capabilities mutex, writer mutex, cancellation token | read, dispatch, answer, cancel, return | four kinds of threads, a full queue, panics and a poisoned mutex, late writes, parse errors in order |
| Capabilities, `tr064/src/capabilities.rs` | none of its own; reports composed of many calls | status, hosts, radios, clients, diagnosis, mesh | partial failure of composed calls |
| DNS diagnosis, `tr064/src/dns.rs`, `cli/src/dns_*.rs` | a time budget, evidence | probes over UDP and TCP | budget, cancellation, answers that do not fit the query |
| Secrets, `core/src/secret.rs` | none; child processes of `symvault` and `security` | resolve, get, set | subprocess timeout, pipes held open by descendants, order of the sources, output that is no UTF-8 |
| Configuration, `core/src/config.rs`, challenge response `core/src/auth.rs` | the configuration file | load, merge, init | truncated writes, precedence, numeric bounds |
| Command line, `cli/src/main.rs`, `cli.rs`, `output.rs` | the cancellation flag, the echo guard | one handler per command, `detect`, `doctor`, MCP glue | signals, exit codes, read-back of host pins, storing credentials |
| Home automation over TR-064, `tr064/src/homeauto.rs` | none | list the devices, `SetSwitch` | any failed call ends the list |
| Parsers, `tr064/src/soap.rs`, `discovery.rs`, `safeurl.rs` | none | XML and URL parsing | pure |
| `scripts/`, `.github/`, `assets/`, `testdata/` | | development tools and data | outside the program |

How they interact: a command or an MCP tool resolves a secret, builds a
transport with a pin store of its own, and runs the SOAP client or the session
client over it. The session client asks the SOAP client for the mesh path. The
firmware workflow wraps the transport to add its own cancellation check and the
validation of answers. The MCP server runs tools one at a time behind the
capabilities mutex. One flag, set by a signal handler, reaches the transports,
the firmware budget and the MCP server.

What makes each part correct: a pin that was reported saved stays until it is
given up, no recorded key is replaced by another, and unreadable files are never
overwritten unasked (pins); requests
reach only the pinned peer, are sent once, and leave the machine unencrypted
only under the documented conditions (transport); a nonce count is never used
twice and an action runs once per call (Digest); at most one installation
begins and every doubt is reported (firmware); a lost session is healed once
and a rejected password is not retried (session); every request is answered
once, in an order a client can use, and cancellation ends the server (MCP);
reports with missing parts say so (capabilities); a password is all of what a
backend printed, and a backend that hangs is ended by the timeout (secrets); a
cancelled command ends, with exit code 130 and the terminal restored (command
line). Where the code keeps such a promise only under a condition, the property
states the condition and section 4 lists it.

## 2. Plan

In order of importance, each with its proofs where there are some; all of it is
there.

1. `PinStore` with the abstract register `AtomicPins`, `PinStoreProofs`
2. `McpServer`, `McpServerProofs`
3. `SidSession`, `SidSessionProofs`
4. `DigestClient` and
5. `Transport`, the two halves of a TR-064 call, with `Tr064Proofs`
6. `Firmware`, `FirmwareProofs`
7. `HttpExchange`, `HttpExchangeProofs`: deadline and framing of one exchange
8. `SecretCommand`, `SecretCommandProofs`: the sources of a password, the child
   process, its pipes, readers and timeout
9. `Capabilities`, `DnsDiagnosis` and `Command`, which extend each other in this
   order: one run of the process, with the operations and the `dns` diagnosis it
   is composed of, with `CommandProofs`

What could follow: the Digest client composed with the transport, which
together promise that an action is executed at most once per call, and the merge
of configuration sources as a pure function.

## 3. Modules

Each `MC*` module extends its component and adds what TLC needs (symmetry, the
sets of contents and commands). A few definitions next to the one they vary
(`FinishEarly`, `SyncTempSkipped`, `ToolPanicLost`, ...) are not used by any
specification: they are plausible bugs, each of which makes one property fail;
`PROJECT.json` says which.

### PinStore, AtomicPins

A *store* is one value of `PinStore`: what it read when it was opened, behind
its mutex. `file` is what a reader of `pins.json` sees; `survivors` is the set
of contents that a power loss may leave in its directory, which grows at the
rename and shrinks to the file at the directory sync. `directory` is the
directory itself: `write_state` makes it if it is missing (`MakeDirectory`) and
never syncs its entry in its own parent, so it stays `unsynced` until the system
writes it back (`Writeback`), and a power loss before that may take it with all
pins. Every system call of `write_state` is an action (`MakeDirectory`,
`WriteTemp`, `SyncTemp`, `Rename`, `Finish`), any of them can fail (`Fail`), a
process can end (`Close`) and the machine can lose power (`PowerLoss`) in
between. The read in `Open` can fail too, whatever the file holds: the store
then has an empty map and its load error, and a `Reset` of one host writes that
map. So `GivesUp` names more than the host that is reset. `FirstContact` is the
one case of `verify_pin` and `record_peer_pin` that writes. `acked` is history:
what `set` reported as saved, until it is given up.

`AtomicPins` is what the store promises: a map that changes atomically, with a
set of values that a crash during a change may leave. An update is final once it
has returned, but a register that is not yet `founded` (its directory has not
reached the disk) may still be found empty. A broken register (a store with a
load error) refuses updates until a repair, which may lose pins but has none
that the register did not hold. `ImplementsRegister` maps a single store to it.

### McpServer

One action per step of each thread. The reader's channel holds one event, the
queue `QueueCapacity` calls. A message is known by its position; its kind is
what the control flow looks at. `pc[Main]` names the loop's waiting points:
`recv` (recv_timeout), `enqueue` (try_send on a full queue), `flush`
(wait_zero), `reply`/`write`, `join`. The capabilities mutex and the writer
mutex are variables, and so is the poison flag. The check of the cancellation
flag in `CancellationWriter` and the write after it are two steps.

### SidSession

The client's SID is `none`, or what the router thinks of it: `live` or `dead`.
`LoseSession` and `Deny` may happen at any point, `Tick` ages the cache. The
calls differ in what they do with a refusal: `home` and `cpu` log in again once,
`data` and `mesh` report it; `mesh` has up to two candidates.

### DigestClient

The client uses only its newest nonce, so the router is reduced to what it
knows of that one (`nonce`, `seen`). `Authorize` is `cached_authorization`: the
count is taken before the cnonce can fail. `Challenged` is the only repetition.

### Transport

`send` is `Send`, `Connect`, `Handshake`, `WriteRequest`, `ReadResponse` and
`FinishSend`, with errors classified by where they happen and what their text
sounds like (`Unavailable`). `config` ranges over every combination of
`use_tls`, `insecure_tls`, `allow_http_fallback` and a port with or without a
plain counterpart.

### HttpExchange

What `Transport` takes as one step per phase, in detail: one `execute` with its
clock. The sockets get what remains of the deadline as their timeouts once,
after connecting; from then on each wait may take `sock`. The deadline itself is
looked at when a read returns (`Read`), not by the TLS handshake (`complete_io`
waits for several pieces of a flight), not by `write_request`, and not between
the pieces of a TLS record (`ReadPiece`). The response comes token by token
(pieces of the head, lines of the chunked coding, numbered pieces of the
content), so that the body that comes out can be compared with the content. The
router (`Deliver`) has a state of its own, what is `due`: it cuts the content
into chunks as it likes, may send a malformed line wherever one belongs and any
number of trailer lines, may stop or reset the connection at every token, and its
framing may be missing or contradictory.

### SecretCommand

`Resolve` picks the source, `Spawn` to `Join` are `run_command`. The payload is
written before the readers are started and before the clock runs; the readers
stop at the capture limit and drop their end of the pipe; the loop polls with
`try_wait`; a child that is late is killed and its output is left alone, a child
that has exited is joined with both readers. The child reads, prints, forks and
exits as it likes, and a descendant (`heir`) may go on holding the pipes. What
it prints is a sequence of line ends, characters of one byte, and first and
second bytes of characters of two (`Unit`), enough to see what is cut; `Lossy`
is `from_utf8_lossy`, which puts a replacement character where a byte belongs to
no character or the capture limit has cut one. `SYMFRITZ_PASSWORD` may be unset,
text, or bytes that are no text, which `std::env::var(..).ok()` takes for unset.

### Capabilities

The operations of `capabilities.rs` that commands use, one TR-064 call per step.
`at` is the next call, `index` which of its repetitions. A call may fail in any
way that `error_kind` tells apart, and which failure ends an operation, falls
back (PPP after IP, IGD after TR-064, entry by entry after the bulk list, radios
1 to 3 after a failed discovery) or is put aside (`faults`) is the code's
choice. The host table changes between two calls (`TableChanges`), and history
variables remember which entries were there all along (`stays`) or at some time
(`was`), whether entries moved between two indices (`moved`), and whether a
request for an entry or a radio failed (`missed`). `Named` are the devices that
match what is looked for, `Band` the radio that each of them uses.

### DnsDiagnosis

`Collect` to `SelectResolvers` gather the evidence; then each resolver is asked
for each type (`todo`, taken in the order of the sources: the router's own,
DHCP, the system's; `IsNext`), over UDP sockets on ports that may come up again,
with ids that may come up again. Every request that was sent may be answered at
any time, any number of times. Time is `spent` (the budget) and `left` (of one
query). A packet is reduced to the request it answers and to its chain of
aliases, which `Aliases` follows as `parse_dns_packet` does.

### Command

A command is a script of steps (`Scripts`), and `pc` the place in it. A step is
a call of one of the modules above, or one of its own: the host pin with its
read-back, the prompt with its two `stty` children, the verification and the
storing of a credential. The environment sends signals at any time (`Signal`),
types a line or not (`Typed`), changes the tables, and changes the pin of a host
from elsewhere (`OtherAdmin`). `HomeautoDevices` is the list of `home list
--tr064`, which any failed call ends. A `stty` child that switches the echo may
fail at any time, for whatever reason (`balked`). `effect` counts how often a
writing call was executed, whatever the client got to know about it. The
`firmware` and `mcp` commands have the models above.

### Firmware

The workflow is a list of calls (`at`), each behind `Boundary`, `Send` (the
cancellation check of `FirmwareTransport`) and the wire, where the router may
challenge it, answer, fault, or lose it. The router is an environment with an
installation that takes its time, a reboot, an offer that changes and a check
that runs in the background. Time passes only in requests (1 to `HttpTime`) and
pauses (`Interval`).

## 4. Runs

| run | instance | shows |
|---|---|---|
| PinStoreOne | 1 store, 2 hosts, 2 keys | `AckedPinSurvives`, `NoTornFile`, `RecordedKeyStable`, `UnreadableKeptUntilReset`, `ImplementsRegister` |
| PinStoreStale | 2 stores, 2 hosts, 1 key | violated: `RecordingKeepsOthers` |
| McpSafety | 2 workers, queue of 1, 4 messages | `AtMostOneAnswer`, `PendingExact`, `ParseErrorInOrder`, `LateWriteAtMostOne`, `AnsweredOnReturn` |
| McpLive | 1 worker, queue of 1, 3 messages | `EveryRequestAnswered`, `CancelEndsServing` |
| McpCancelJoin | 1 worker, 3 messages | violated: `CancelReturns` |
| SidSession | lifetimes of 0, 1 and 2 ticks | `ExecutedAtMostOnce`, `LostSessionHealed`, `PasswordTriedOnce`, `CallEnds` |
| DigestClient | a count that ends at 3 | `NoReplay`, `ExecutedAtMostOnce`, `StaleNonceHealed` |
| TransportSafety | every configuration, 2 keys | `PeerIsPinned`, `WrittenOnce`, `PlainOnlyWhenDown`, `LateRequestAtMostOne` |
| FirmwareSafety | limit 9, requests of 1 to 2, 2 polls | `InstalledOnce`, `ErrorMeansNotBegun`, `OverrunBounded`, `VerifiedMeansInstalled` |
| HttpExchange | timeout 2, 2 addresses, 2 writes, records of 2 pieces, contents of 0 to 3 pieces in any chunks, limit of 2 | `FramedBodyWhole`, `SuccessInTime`, `ReadingBounded` |
| SecretCommand | payload of 2 writes, pipes of 1, capture of 2, output of 3 | `SecretWhole`, `FailsClosed`, `ChildReaped`, `PollEnds` |
| Command | every command, 2 hosts with one name, 4 radios, 2 changes of the table, 3 resolvers, budget of 2 | `TypeOK`, `ListedOrFailed`, `LookupsSound`, `ExitTellsTruth`, `EchoRestored`, `CancelEnds` |

The type invariants of the other modules are not among the runs' properties:
they are theorems (section 5). That of `Command` is both, because the model is
composed of three modules and a wrong script shows there first.

**Why the bounds are enough.** Two stores are enough for every race over the
file, since a write replaces the whole of it; two hosts show what happens to the
other entries of the map, two keys a change of certificate. Four messages occupy
two workers, the queue and the main thread at once; with one worker in McpLive,
three messages do. Three counts reach the fresh, the running and the saturated
nonce. The session and transport models are finite without a bound, except for
the lifetime; two ticks separate a fresh, an aging and an expired SID. With
`Limit` 9 a firmware operation can run out of time before, in and after its
mutation, and two polls make a loop. A timeout of 2 separates a wait that ends
before the deadline, at it and after it, and contents of 0 to 3 pieces in any
chunks end before, at and beyond the limit of 2, at the end of a chunk and
inside it. A payload of two writes blocks on a pipe of one, and an output of
three overflows first the pipe and then the capture. Two hosts are the fewest
that share a name or move past each other; of four radios one lies beyond the
fallback 1 to 3; two changes of the table let a host leave and come back; a
budget of 2 with queries of 1 ends between two lookups and within one. With one
resolver as its limit the set of resolvers overflows, and one id and one port
come up again at once.

**Fairness.** `SidSession` assumes that a request that is under way ends: the
transport answers it or runs into its deadline. `McpServer` assumes that its
threads are scheduled and that the client reads its output; it never assumes
that the client sends something or hangs up, or that anyone cancels.
`SecretCommand` assumes that the polling loop, the kill, the join, the clock and
the two readers go on, and nothing of the child or its descendant: not that it
reads, prints or exits. `Command` assumes weak fairness of the program's own
steps except where it waits (`Waits`) for a program that it has started, without
a timeout and without a look at the flag, or for the reader of its output: the
password backends (secret.rs:354 writes to a child that need not read,
secret.rs:407 joins readers whose pipe a descendant may hold), `ip route`
(main.rs:2465-2481, `output()`), the `stty` children, and a print. `CancelEnds`
has it as its premise that these waits end (`ProgramsEnd`). A call to the router
is left to fairness: the handshake, the request and the limited response are
finite, and each wait within them has the timeout of its socket, so a call ends,
although no deadline bounds the time it takes (`ReadingBounded` says what is
bounded). Nothing is assumed of the environment: nobody has to type a line. That
tools return is not assumed: `EveryRequestAnswered` has it as its premise
(`ToolsReturn`), since the transports under the tools have deadlines, and
`CancelEndsServing` holds without it. Deadlock checking is off in the runs of
`McpServer`, `HttpExchange`, `SecretCommand` and `Command`, because a server, an
exchange, a command and a process end.

**What the violated runs say.**

* `PinStoreStale`: README.md:140-142 says that the pin is recorded on first
  connection and verified on subsequent calls. `set` writes the map its own
  store read when it was opened (pins.rs:135), so of two processes that each
  record a host the later one drops the earlier one's pin.
* `McpCancelJoin`: the comment of `serve_io_with_context` says that on
  cancellation the call returns without joining a blocked worker. After the end
  of the input the workers are joined unconditionally (lib.rs:503-506).

**Where the code and its documents part without a run.**

* README.md:47 promises automatic re-login on session expiry. The mesh list and
  `data.lua` (aha lib.rs:293-389) keep a SID that the router has dropped until
  its local lifetime ends; `LostSessionHealed` is therefore about home and cpu
  calls. For `data.lua` this is deliberate, see docs/rust-port/aha-session-data.md.
* The comment at firmware.rs:411 says that a stale result is not taken for a fresh
  check. The first poll is read at once (firmware.rs:421-439), so with a router
  that answers before its check begins the old result is reported.
* docs/rust-port/contract-matrix.md:73-74 says that canceled commands exit 130
  without success output. A signal after the last check, while the output is
  written, lets the command print it and then exit 130: `ExitTellsTruth` says
  nothing about the output of code 130.
* docs/rust-port/contract-matrix.md:75 says that the echo is restored before 130
  is returned. A Ctrl-C goes to the whole foreground group: it may kill the
  `stty` child that switches the echo off after it has, or the one that switches
  it on; and the guard drops the result of the latter, so that any failure of it
  leaves the echo off without a word (main.rs:1720-1723). `EchoRestored` excuses a
  process whose child failed (`balked`).
* contract-matrix.md:76-77 says that a request in flight stays bounded by the
  timeout. The sockets get their timeouts once, and handshake and `write_request`
  never look at the deadline: `ReadingBounded` states the bound that does hold,
  which counts from the end of the request. For a trickled handshake and a
  trickling reader of a long request there is no bound but one socket timeout for
  each of their pieces.
* The comment at secret.rs:402-404 is about the readers of a child that is killed. A
  child that has exited in time and left a descendant behind that holds its pipes
  is waited for without a bound, which `PollEnds` excuses; so is a child that does
  not read a payload larger than its pipe, before the clock is started.
* README.md:140-142 speaks of a pin as recorded, which `set` reports by its Ok.
  `create_dir_all` (pins.rs:184) is followed by no sync of the new directory's
  entry, so a power loss soon after may take the first pins: `AckedPinSurvives`
  has it as an exception.
* The comment at pins.rs:142 says that a reset repairs an unreadable store. It does
  so for a read that failed on a healthy file too (pins.rs:162): a reset of one
  host writes the empty map over the pins of the others. `RecordedKeyStable` names
  it among what gives up a pin.
* README.md:105 and docs/cli.md:124 put `SYMFRITZ_PASSWORD` first. A value that is
  not Unicode is dropped without a word (secret.rs:240) and the next source is used:
  `FailsClosed` counts it as not configured.
* A password is what a backend printed, but bytes that are no UTF-8 come as
  U+FFFD (secret.rs:463, 551), and so does a character that the capture limit cuts:
  `SecretWhole` states the decoded value, and that nothing else is lost.
* `home list --tr064` takes every failed call for the end of its list and exits 0
  (homeauto.rs:66-77, as its comment says): `ExitTellsTruth` says of that command
  only that it was not cancelled and has printed.
* README.md:144-145 describes the fall back to plain HTTP as automatic, while
  `send` refuses it unless `allow_http_fallback` is set; `PlainOnlyWhenDown`
  states the stricter rule.
* A listing of radios and of all clients falls back to the radios 1 to 3 when
  discovery fails, without a word; `ListedOrFailed` excuses it (`missed`).

## 5. Proofs

Every safety invariant and every action property that the passing runs check is
also a theorem, for all values of the constants that the modules' assumptions
admit (and one store, where that is said).

`PinStoreProofs` proves, for any sets of stores, hosts and keys:

* `TypeCorrect`: the type invariant. It is inductive as it stands; its last
  conjunct ties `op` to `pc` and is what every step of a write relies on.
* `NeverTorn` (`NoTornFile`) and `UnreadableKept` (an action property) share one
  strengthening, `FileInv`: the file is one of the survivors of a power loss and
  no survivor is torn; an unreadable file is the only survivor, in a directory
  that is on the disk; a store about to rename has synced a clean temporary
  file; and while the file is unreadable every idle store holds its load error,
  every writing store is inside a reset, and no store is between its rename and
  its directory sync.
* `AckedSurvives`, `RecordedKeysStable` and `StoreImplementsRegister`, for a
  single store (a hypothesis of the theorems: of two stores one may drop what
  the other recorded, as the run PinStoreStale shows): `AckedInv` says that an
  acknowledged pin is in every survivor, that it is in memory unless the store
  has a load error and knows nothing of that host, and that a running operation
  on another host writes it again, so the key of a host with a recorded pin is
  never written over; `OpInv` says what a running operation is about to write,
  and that memory holds no pin that no survivor holds, which is why a repair
  invents none. The refinement is proved step by step. `FirstContact`,
  `MakeDirectory`, `WriteTemp`, `SyncTemp` and an `Open` that reads the file are
  stutters, an `Open` that fails to is the register's `Break`; `Rename` is its
  `Attempt` for a set and its `Publish` for a reset; `Finish` is `Record` or
  `Settle`, `Reset` is `Drop` or `Repair`; `Fail` is `Break` in a reset and a
  stutter in a set; `Writeback` is `Found`; `Close` and both outcomes of
  `PowerLoss` are `Restart`.

`Tr064Proofs` has two parts. Of the Digest client it proves, for any `MaxCount`,
that counts are fresh (`CountsAreFresh`), that actions execute once
(`ActionsExecuteOnce`) and that stale nonces heal (`StaleNoncesHeal`), from one
invariant: a pending request on the live nonce has a count above all that the
router has seen until the count is at its end, the action has not been executed
while its request is under way, and a second request carries a count of 1 or the
nonce was dropped.

Of the transport it proves every safety property, for any set of keys. The
invariant: until its request is written a send has written nothing, before or
after the cancellation (`WriteInv`); a plain connection means that TLS was given
up, which means the opt-in, the warning, an unavailable port and a plain
counterpart (`DownInv`); from the end of the handshake on the peer's key is the
recorded pin (`PinInv`). Its key lemma, `FailsEffect`, says that the only error
that does not end a send is an unavailable endpoint while connecting.

`FirmwareProofs` proves every property that `FirmwareSafety` checks, for every
limit, HTTP time, interval and number of polls. `InstallInv` says that the
install is entered with a release offered and nothing installed, and left with
one installation for the verification or for an outcome that admits it;
`TimeInv` says that a call was sent before the deadline and its repetition one
request later. The type invariant is proved in four parts (control, router,
clock, status), each from what an operation does to that part alone.

`SidSessionProofs` proves the three safety properties of the session client for
every lifetime: a running switch command has not been executed and its password
has not been rejected (`CountInv`), and the repetition of a home or cpu call has
logged in and holds a live session unless it was lost since (`HealInv`).

`McpServerProofs` proves every safety property of the server, for any finite set
of workers, any capacity of the queue and any input. The invariant follows a
message through its places. Messages leave the channel in the order they were
read (`OrderInv`); what has left it is in at most one place, the queue or the hands
of one thread (`PlaceInv`), and its kind is one that belongs there (`KindInv`). A
message that is still somewhere has no answer (`AnswerInv`), and one without an
answer is still somewhere, until a cancellation (`KeptInv`): the two halves of
"answered exactly once". `PendInv` says that the counter covers the work that is
open and is exact while the loop serves, `LateInv` that the writer mutex has one
holder and that no write begins after the cancellation, `ParseInv` that a parse
error on its way out has every call before it answered. Frame lemmas carry each
part over the steps that leave its variables alone; the assumption that the
workers are finitely many is what makes counting the busy ones possible.

`SecretCommandProofs` proves the three safety properties of `SecretCommand` for
every payload, pipe, capture limit and amount of output. `CtlInv` ties the child's
life to the caller's place (`ChildReaped`), `SourceInv` says that a program runs
only for the first configured source (`FailsClosed`), and the stream invariant is
the heart of `SecretWhole`: until its reader has ended, what was printed is what
was captured followed by what is in the pipe, and after that the capture is the
prefix of what was printed, which later output does not change. The value is
the decoding of that prefix (`ValueInv`).

`HttpExchangeProofs` proves the three safety properties of one exchange, for
every timeout, limit, set of sizes and number of addresses, writes and pieces.

* The clock: while reading, the time is within
  `Max2(Timeout, writtenAt) + pieces * sock`, because every look at the deadline
  resets the count of pieces (`TimeInv`).
* `FramedBodyWhole` is about a sequence that two parties build and take apart
  over an unbounded number of steps. `StreamInv` relates them: the body is the
  first part of the content, as long as what the router has sent (`Content`,
  `PlaceInv`); where the reader is in the coding is where the router is; and what
  it still wants is part of the chunk under way, less than the rest of it only
  when the limit cuts it, in which case the chunk is marked as cut (`WantInv`).
  A success is then either the last line of the coding or the limit.

`CommandProofs` proves the five safety properties of `Command`, for any finite
set of devices, any radios and bands, any resolvers, ids, ports, budget and
number of changes of the table, and every set of commands. The invariant
has a part for each of the three modules, and each part is carried by the steps
of its own module; the steps of the others leave it alone or start it anew.

* `CapInv`: its types (`CapTypeOK`), which calls a task can be waiting for
  (`TaskInv`), and `ListInv`, which makes `ListedOrFailed` inductive. What is kept
  was in the table at some time (`HistoryInv`); while entries are read one by one
  and none has moved, those before the index were read unless a request failed
  (`EntryInv`); when the clients of all radios are listed, every radio is still
  to be asked, or to be read, or its devices were read (`RadioInv`); and an
  answer without an error has what it stands for (`AnswerInv`). The table is a
  sequence without repetitions, in an order of which nothing is known
  (`SetToSeqIsBijection`), and the accepted match is the only one
  (`ResolvedIsOne`).
* `DnsInv`: nothing is lost between the lookups that are to be made and the
  report (`PhaseInv`), and no lookup is reported twice or with the reply to
  another (`LookupInv`). `ChainsAreFollowed` shows that the bounded search of
  `Owner` finds the end of a chain of aliases; `ReportSound` that each way to
  report a lookup keeps both.
* `CmdInv`: where a command is (`PlaceInv`); that each step before `pc` has had
  its effect (`StepInv`, `Done`); that nothing was written but by a step that is
  past or by the call that has just returned (`EffectInv`); that a flag once seen
  leads to code 130 (`FlagInv`); and what the terminal's mode is between the two
  children that change it (`EchoInv`: it is off only between the two, or after one
  of them has failed). `ScriptsOrdered` goes through all 35
  scripts and shows that in each of them what the later steps rely on comes
  first; `LeaveSound` and `OperationSound` say what leaving a script and
  returning from an operation preserve. `ExitTellsTruth` is the last step of
  each script seen through these.

The proofs rest on the named assumptions of the modules only (the constants that
stand for special values differ from the ordinary ones, the nonce count has room
for one use, a firmware budget has a poll and an HTTP request takes time, the
workers, devices and radios are finitely many, radios are numbered from 1, and
timeouts, pieces and numbers of writes are positive).

Only model-checked: the liveness properties `EveryRequestAnswered`,
`CancelEndsServing`, `CallEnds`, `PollEnds` and `CancelEnds`. They rest on
fairness, and so on `ENABLED`, which the prover cannot reason about.

## 6. What is not modelled

* Windows: `replace_file` moves the old pin file away before it moves the new
  one in. The model is of the Unix build; so is the terminal prompt.
* Message contents: XML, JSON, header and packet syntax, hashing, the challenge
  response. The models keep what the control flow decides on. The parsers
  (`soap.rs`, `discovery.rs`, `safeurl.rs`) are pure and left out. The two calls
  of `homeauto.rs` are steps of `Command`, the fields it reads from the replies
  are not. Of the characters that UTF-8 has, `SecretCommand` knows those of one
  and two bytes.
* The client's pipe in `McpServer` (a client that stops reading blocks the
  writer), the history list of a firmware report, the discovery cache of the
  SOAP client, address resolution.
* Configuration: loading and `init` are one step with its failures. The order in
  which files, environment and defaults are merged is data; a crash within the
  rewrite of the file by `init` is not modelled.
* Command line: the argument grammar, help and completion, layout, the effects
  of a raw `call`, a `try_wait` that fails, and a panic on a closed standard
  output. Errors in arguments end a command before its script begins.
* Tools of the development process (`scripts/`, `.github/`) and data.

`PROJECT.json` lists every part with its status, and the hazards that no
property covers.
