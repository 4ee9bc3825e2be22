------------------------------ MODULE Command ------------------------------
(***************************************************************************)
(* crates/symfritz-cli/src/main.rs: one run of the `symfritz` process, from *)
(* the check before the command starts to the exit code.  A command is a   *)
(* script of steps; the operations of Capabilities and the `dns` diagnosis *)
(* are steps that take several calls.  Signals come at any time.  The      *)
(* `firmware` and `mcp` commands have models of their own.                 *)
(***************************************************************************)
EXTENDS DnsDiagnosis

CONSTANT Commands  \* the commands that are run

-----------------------------------------------------------------------------
(* The commands                                                            *)

StatusScript == <<"connect", "status", "cpu", "print">>
HostsScript == <<"connect", "hosts", "print">>
HostGetScript == <<"connect", "lookup", "print">>
HostPinScript ==
  <<"connect", "lookup", "uid", "before", "apply", "after", "print">>
RadiosScript == <<"connect", "radios", "print">>
ClientsScript == <<"connect", "clients", "print">>
GuestScript == <<"connect", "guest_index", "guest", "print">>
GuestSetScript == <<"connect", "guest_index", "guest_set", "print">>
DslScript == <<"connect", "dsl", "print">>
TrafficScript == <<"connect", "traffic", "print", "interval">>
CallsScript == <<"connect", "calls", "print">>
LogScript == <<"connect", "log", "print">>
ServicesScript == <<"config", "discover", "print">>
CallScript == <<"connect", "call", "print">>
DialScript == <<"connect", "dial", "print">>
HangupScript == <<"connect", "hangup", "print">>
RebootScript == <<"connect", "reboot", "boundary", "print">>
WolScript == <<"connect", "resolve", "wake", "print">>
ConfigInitScript == <<"init", "print">>
TrustScript == <<"reset", "print">>
AuthTestScript == <<"connect", "verify", "print", "verdict">>
AuthLoginScript ==
  <<"config", "prompt", "verify", "verdict", "store", "print">>
AuthStoreScript == <<"config", "prompt", "store", "print">>
DiagnoseScript == <<"connect", "diagnose", "print", "verdict">>
RouterScript == <<"config", "detect", "diagnose", "print", "verdict">>
DetectScript == <<"detect", "print">>
MeshScript == <<"connect", "mesh", "web", "print">>
HomeListScript == <<"connect", "web", "print">>
HomeActorsScript == <<"connect", "actors", "print">>
HomeSwitchScript == <<"connect", "switch", "print">>
HomeTempScript == <<"connect", "switch", "print">>
ScrapeScript == <<"connect", "web", "print">>
DoctorScript == <<"checkup", "discover", "verify", "devices", "print", "verdict">>
DnsScript == <<"connect", "dns", "print">>
VersionScript == <<"print", "update">>

Scripts ==
  [status |-> StatusScript, hosts |-> HostsScript, host_get |-> HostGetScript,
   host_pin |-> HostPinScript, radios |-> RadiosScript,
   clients |-> ClientsScript, guest |-> GuestScript,
   guest_set |-> GuestSetScript, dsl |-> DslScript, traffic |-> TrafficScript,
   calls |-> CallsScript, log |-> LogScript, services |-> ServicesScript,
   call |-> CallScript, dial |-> DialScript, hangup |-> HangupScript,
   reboot |-> RebootScript, wol |-> WolScript, init |-> ConfigInitScript,
   trust |-> TrustScript, auth_test |-> AuthTestScript,
   auth_login |-> AuthLoginScript, auth_store |-> AuthStoreScript,
   diagnose |-> DiagnoseScript, router |-> RouterScript,
   detect |-> DetectScript, mesh |-> MeshScript, home_list |-> HomeListScript,
   home_actors |-> HomeActorsScript, home_switch |-> HomeSwitchScript, home_temp |-> HomeTempScript,
   scrape |-> ScrapeScript, doctor |-> DoctorScript, dns |-> DnsScript,
   version |-> VersionScript]

ASSUME CommandAssumption == Commands \subseteq DOMAIN Scripts

Running == 256    \* not an exit code
Failed == 1       \* EXIT_OPERATION
NoAuth == 3       \* EXIT_NO_AUTH
BadConfig == 9    \* EXIT_CONFIG
Cancelled == 130  \* EXIT_CANCEL

VARIABLES
  cmd,       \* the command
  pc,        \* the step of its script, 0 before execute
  code,      \* what execute returns
  exit,      \* the exit code of the process
  printed,   \* success output was written
  healthy,   \* no check has failed
  verified,  \* the router has accepted the password
  stored,    \* the Keychain or symvault has the new password
  setting,   \* the router: alwaysSameIp of the device
  agreed,    \* history: it was as asked at some time since the start
  echo,      \* the terminal echoes
  stty,      \* the place in prompt_hidden
  typed,     \* what came of the prompt
  balked     \* history: a stty child that switches the echo has failed

tool == <<cmd, pc, code, exit, printed, healthy>>
credential == <<verified, stored>>
pin == <<setting, agreed>>
terminal == <<echo, stty, typed, balked>>
cmdVars == <<tool, credential, pin, terminal>>
vars == <<capVars, dnsVars, cmdVars>>

Script == Scripts[cmd]

TypeOK ==
  /\ CapTypeOK /\ DnsTypeOK
  /\ cmd \in Commands /\ pc \in 0..(Len(Script) + 1)
  /\ code \in {0, Failed, 2, NoAuth, BadConfig, Cancelled}
  /\ exit \in {0, Failed, 2, NoAuth, BadConfig, Cancelled, Running}
  /\ printed \in BOOLEAN /\ healthy \in BOOLEAN
  /\ verified \in BOOLEAN /\ stored \in BOOLEAN
  /\ setting \in BOOLEAN /\ agreed \in BOOLEAN
  /\ echo \in BOOLEAN /\ balked \in BOOLEAN
  /\ stty \in {"none", "save", "off", "read", "restore"}
  /\ typed \in {"none", "line", "blank", "error", "cancelled"}

Init ==
  /\ CapInit /\ DnsInit
  /\ cmd \in Commands /\ pc = 0 /\ code = 0 /\ exit = Running
  /\ printed = FALSE /\ healthy = TRUE
  /\ verified = FALSE /\ stored = FALSE
  /\ setting \in IF cmd = "host_pin" THEN BOOLEAN ELSE {FALSE}
  /\ agreed = setting
  /\ echo = TRUE /\ stty = "none" /\ typed = "none" /\ balked = FALSE

-----------------------------------------------------------------------------
(* Steps                                                                   *)

At(step) == exit = Running /\ pc \in DOMAIN Script /\ Script[pc] = step

Place(step) == CHOOSE i \in DOMAIN Script : Script[i] = step

Advance == pc' = pc + 1 /\ UNCHANGED <<cmd, code, exit, printed, healthy>>

Fail(c) ==
  /\ code' = c /\ pc' = Len(Script) + 1
  /\ UNCHANGED <<cmd, exit, printed, healthy>>

\* A step that succeeds or ends the command with one of these codes.
Attempt(codes) == Advance \/ (\E c \in codes : Fail(c))

\* main: arguments that are refused, which ends it whatever the flag says,
\* then the check of execute.
Start ==
  /\ exit = Running /\ pc = 0
  /\ \/ IF cancelled THEN Fail(Cancelled) ELSE Advance
     \/ exit' \in {Failed, 2, BadConfig}
        /\ UNCHANGED <<cmd, pc, code, printed, healthy>>
  /\ UNCHANGED <<capVars, dnsVars, credential, pin, terminal>>

\* load_config, with a client that needs no password or has none yet.
LoadConfig ==
  /\ At("config") /\ Attempt({BadConfig, Failed})
  /\ UNCHANGED <<capVars, dnsVars, credential, pin, terminal>>

\* load_connection and make_tr064: none of it looks at the flag.
LoadConnection ==
  /\ At("connect") /\ Attempt({BadConfig, NoAuth, Failed})
  /\ UNCHANGED <<capVars, dnsVars, credential, pin, terminal>>

\* The operation that a step begins.
Operations(step) ==
  IF step \in {"lookup", "resolve"} THEN {"name", "address"}
  ELSE Tasks \intersect {step}

Ask ==
  /\ exit = Running /\ pc \in DOMAIN Script
  /\ \E t \in Operations(Script[pc]) : Begin(t)
  /\ UNCHANGED <<dnsVars, cmdVars>>

\* A MAC or an index that was given needs none; a host may have no MAC.
Given ==
  /\ at = "idle"
  /\ \/ (At("resolve") \/ At("guest_index")) /\ Advance
     \/ At("wake") /\ Fail(Failed)
  /\ UNCHANGED <<capVars, dnsVars, credential, pin, terminal>>

FromClient(a) == IF a = "unauthorized" THEN NoAuth ELSE Failed

\* mesh does not tell an authentication failure, nor does the service lookup
\* of call, which is an error of its arguments.
Codes ==
  CASE cmd = "mesh" -> {Failed}
    [] cmd = "call" /\ index = 1 -> {FromClient(answer), BadConfig}
    [] OTHER -> {FromClient(answer)}

\* A diagnosis and the doctor go on to print what they have found.
Consume ==
  /\ End
  /\ \/ answer = "ok" /\ Advance
     \/ /\ answer = "checks" \/ cmd = "doctor"
        /\ healthy' = FALSE /\ pc' = pc + 1
        /\ UNCHANGED <<cmd, code, exit, printed>>
     \/ /\ answer \notin {"ok", "checks"} /\ cmd # "doctor"
        /\ \E c \in Codes : Fail(c)
  /\ UNCHANGED <<cancelled, router, effect, history, missed, dnsVars,
                 credential, pin, terminal>>

Dns ==
  /\ At("dns")
  /\ \/ dnsResult = "none" /\ DnsBegin /\ UNCHANGED tool
     \/ /\ UNCHANGED <<capVars, dnsVars>>
        /\ CASE dnsResult = "report" -> Advance
             [] dnsResult = "cancelled" -> Fail(Cancelled)
             [] dnsResult = "error" -> Fail(Failed)
             [] OTHER -> FALSE
  /\ UNCHANGED <<credential, pin, terminal>>

\* The web client: the AHA interface tells an authentication failure,
\* data.lua does not.
WebReplies == IF cancelled THEN {"fail"} ELSE {"ok", "auth", "fail"}
FromAha(reply) == IF reply = "auth" THEN NoAuth ELSE Failed

Web ==
  /\ At("web")
  /\ \E reply \in WebReplies :
       IF reply = "ok" THEN Advance
       ELSE Fail(IF cmd = "home_list" THEN FromAha(reply) ELSE Failed)
  /\ UNCHANGED <<capVars, dnsVars, credential, pin, terminal>>

\* home list --tr064: the first call that fails, for whatever reason, is taken
\* for the end of the list.
HomeautoDevices ==
  /\ At("actors") /\ Advance
  /\ UNCHANGED <<capVars, dnsVars, credential, pin, terminal>>

\* No reply matters, but the client has to be made.
Cpu ==
  /\ At("cpu") /\ Attempt({Failed})
  /\ UNCHANGED <<capVars, dnsVars, credential, pin, terminal>>

\* switch_on, switch_off and set_hkr_temp, or their TR-064 call.
Switch ==
  /\ At("switch")
  /\ \E reply \in WebReplies :
       /\ effect' \in CASE reply = "ok" -> {effect + 1}
                        [] reply = "fail" /\ ~cancelled -> {effect, effect + 1}
                        [] OTHER -> {effect}
       /\ IF reply = "ok" THEN Advance ELSE Fail(FromAha(reply))
  /\ UNCHANGED <<cancelled, operation, router, history, missed, dnsVars,
                 credential, pin, terminal>>

\* wait_for_interval between two snapshots of a watch.
Interval ==
  /\ At("interval")
  /\ \/ Advance
     \/ IF cancelled THEN Fail(Failed)
        ELSE /\ pc' = Place("traffic")
             /\ UNCHANGED <<cmd, code, exit, printed, healthy>>
  /\ UNCHANGED <<capVars, dnsVars, credential, pin, terminal>>

\* Files of our own, the certificate pins, the probes for a router, and what
\* is only reported: a newer release, and the doctor's actors.
Local ==
  /\ \/ At("init") /\ Attempt({BadConfig})
     \/ At("reset") /\ Attempt({BadConfig, Failed})
     \/ At("detect") /\ Attempt({Failed})
     \/ At("update") /\ Advance
     \/ At("devices") /\ Advance
  /\ UNCHANGED <<capVars, dnsVars, credential, pin, terminal>>

\* doctor: without a credential the checks of the router are skipped.
Checkup ==
  /\ At("checkup")
  /\ \/ Advance
     \/ healthy' = FALSE /\ pc' \in {pc + 1, Place("print")}
        /\ UNCHANGED <<cmd, code, exit, printed>>
     \/ \E c \in {BadConfig, Failed} : Fail(c)
  /\ UNCHANGED <<capVars, dnsVars, credential, pin, terminal>>

\* verify_credential: the web session decides, TR-064 is only reported.
Verify ==
  /\ At("verify")
  /\ \/ \E reply \in WebReplies :
          /\ verified' = (reply = "ok")
          /\ healthy' = (healthy /\ reply = "ok")
          /\ pc' = pc + 1 /\ UNCHANGED <<cmd, code, exit, printed>>
     \/ cmd = "doctor" /\ Fail(Failed) /\ UNCHANGED verified
  /\ UNCHANGED <<capVars, dnsVars, stored, pin, terminal>>

Verdict ==
  /\ At("verdict")
  /\ IF healthy THEN Advance
     ELSE Fail(IF cmd \in {"auth_test", "auth_login"} THEN NoAuth ELSE Failed)
  /\ UNCHANGED <<capVars, dnsVars, credential, pin, terminal>>

\* Neither is begun once the flag is set; a store that fails may be stored.
StoreCredential ==
  /\ At("store")
  /\ IF cancelled THEN Fail(Cancelled) /\ UNCHANGED stored
     ELSE \/ Advance /\ stored' = TRUE
          \/ Fail(Failed) /\ stored' \in BOOLEAN
  /\ UNCHANGED <<capVars, dnsVars, verified, pin, terminal>>

Boundary ==
  /\ At("boundary")
  /\ IF cancelled THEN Fail(Cancelled) ELSE Advance
  /\ UNCHANGED <<capVars, dnsVars, credential, pin, terminal>>

Output ==
  /\ At("print")
  /\ \/ /\ printed' = TRUE /\ pc' = pc + 1
        /\ UNCHANGED <<cmd, code, exit, healthy>>
     \/ Fail(Failed)
  /\ UNCHANGED <<capVars, dnsVars, credential, pin, terminal>>

\* A command that finished after the cancellation still exits 130.
Exit ==
  /\ exit = Running /\ pc = Len(Script) + 1
  /\ exit' = IF cancelled THEN Cancelled ELSE code
  /\ UNCHANGED <<capVars, dnsVars, cmd, pc, code, printed, healthy, credential,
                 pin, terminal>>

-----------------------------------------------------------------------------
(* hosts pin                                                               *)

LanDeviceUid ==
  /\ At("uid")
  /\ \E reply \in WebReplies : IF reply = "ok" THEN Advance ELSE Fail(Failed)
  /\ UNCHANGED <<capVars, dnsVars, credential, pin, terminal>>

\* A device that already is as asked is not written.
ReadBefore ==
  /\ At("before")
  /\ \E reply \in WebReplies :
       IF reply # "ok" THEN Fail(Failed)
       ELSE /\ pc' = IF setting THEN Place("print") ELSE pc + 1
            /\ UNCHANGED <<cmd, code, exit, printed, healthy>>
  /\ UNCHANGED <<capVars, dnsVars, credential, pin, terminal>>

\* The router confirms the change, says something else, or nothing: whether
\* it has made it is another matter.
ApplyPin ==
  /\ At("apply")
  /\ setting' \in IF cancelled THEN {setting} ELSE {setting, TRUE}
  /\ (~cancelled /\ Advance) \/ Fail(Failed)
  /\ agreed' = (agreed \/ setting')
  /\ UNCHANGED <<capVars, dnsVars, credential, terminal>>

ReadAfter ==
  /\ At("after")
  /\ \E reply \in WebReplies :
       IF reply = "ok" /\ setting THEN Advance ELSE Fail(Failed)
  /\ UNCHANGED <<capVars, dnsVars, credential, pin, terminal>>

\* Somebody else changes the device in the meantime.
OtherAdmin ==
  /\ cmd = "host_pin" /\ exit = Running /\ changes < MaxChanges
  /\ at = "idle"
  /\ setting' = ~setting /\ agreed' = (agreed \/ setting')
  /\ changes' = changes + 1
  /\ UNCHANGED <<cancelled, operation, table, effect, history, missed, dnsVars,
                 tool, credential, terminal>>

-----------------------------------------------------------------------------
(* prompt_hidden                                                           *)

\* SYMFRITZ_PASSWORD, no terminal, or a prompt.
Prompt ==
  /\ At("prompt") /\ stty = "none"
  /\ \/ Attempt({Failed, BadConfig}) /\ UNCHANGED stty
     \/ stty' = "save" /\ UNCHANGED tool
  /\ UNCHANGED <<capVars, dnsVars, credential, pin, echo, typed, balked>>

\* TerminalEchoGuard::new: `stty -g`, then `stty -echo`.
SaveMode ==
  /\ stty = "save"
  /\ \/ stty' = "off" /\ UNCHANGED tool
     \/ stty' = "none" /\ Fail(Failed)
  /\ UNCHANGED <<capVars, dnsVars, credential, pin, echo, typed, balked>>

\* A child fails by itself or because a signal has killed it, and may have done
\* its work before.  Without a guard nothing turns the echo on again.
DisableEcho ==
  /\ stty = "off"
  /\ \/ stty' = "read" /\ echo' = FALSE /\ UNCHANGED <<tool, balked>>
     \/ /\ stty' = "none" /\ Fail(Failed)
        /\ echo' \in {echo, FALSE} /\ balked' = TRUE
  /\ UNCHANGED <<capVars, dnsVars, credential, pin, typed>>

\* The reader thread has a line, an empty one, or an error.
Typed ==
  /\ stty = "read" /\ stty' = "restore"
  /\ typed' \in {"line", "blank", "error"}
  /\ UNCHANGED <<capVars, dnsVars, tool, credential, pin, echo, balked>>

PollFlagNever ==
  /\ stty = "read" /\ cancelled /\ typed = "cancelled"
  /\ stty' = "restore"
  /\ UNCHANGED <<capVars, dnsVars, tool, credential, pin, echo, typed, balked>>

PollFlag ==
  /\ stty = "read" /\ cancelled
  /\ stty' = "restore" /\ typed' = "cancelled"
  /\ UNCHANGED <<capVars, dnsVars, tool, credential, pin, echo, balked>>

Prompted ==
  CASE typed = "line" -> Advance
    [] typed = "blank" -> Fail(BadConfig)
    [] typed = "error" -> Fail(Failed)
    [] typed = "cancelled" -> Fail(Cancelled)

RestoreEchoOnInput ==
  /\ stty = "restore" /\ stty' = "none"
  /\ echo' = (echo \/ typed # "cancelled")
  /\ Prompted
  /\ UNCHANGED <<capVars, dnsVars, credential, pin, typed, balked>>

\* The guard is dropped on every way out; that its stty could not be started or
\* has failed is ignored.
RestoreEcho ==
  /\ stty = "restore" /\ stty' = "none"
  /\ \/ echo' = TRUE /\ UNCHANGED balked
     \/ echo' \in {echo, TRUE} /\ balked' = TRUE
  /\ Prompted
  /\ UNCHANGED <<capVars, dnsVars, credential, pin, typed>>

-----------------------------------------------------------------------------
(* The process                                                             *)

\* SIGINT, SIGTERM or SIGHUP: the handler sets the flag.  From a terminal it
\* goes to the children too.
Signal ==
  /\ exit = Running
  /\ cancelled' = TRUE
  /\ UNCHANGED <<operation, router, effect, history, missed, dnsVars, cmdVars>>

ToolStep ==
  \/ Start \/ LoadConfig \/ LoadConnection \/ Ask \/ Given \/ Consume \/ Dns
  \/ Web \/ HomeautoDevices \/ Cpu \/ Switch \/ Interval \/ Local \/ Checkup \/ Verify \/ Verdict
  \/ StoreCredential \/ Boundary \/ Output \/ Exit
  \/ LanDeviceUid \/ ReadBefore \/ ApplyPin \/ ReadAfter
  \/ Prompt \/ SaveMode \/ DisableEcho \/ PollFlag \/ RestoreEcho

Program ==
  \/ CapStep /\ UNCHANGED <<dnsVars, cmdVars>>
  \/ DnsStep /\ UNCHANGED cmdVars
  \/ ToolStep

Environment ==
  \/ Signal \/ Typed \/ OtherAdmin
  \/ TableChanges /\ UNCHANGED <<dnsVars, cmdVars>>

Next == Program \/ Environment

Spec == Init /\ [][Next]_vars

\* Where the process waits for a program that it has started, without a timeout
\* and without a look at the flag, or for the reader of its output: the
\* password of a backend (its output is held open, or it does not take what is
\* stored), `ip route`, a child that switches the echo, a print.
Waits ==
  \/ \E step \in {"connect", "checkup", "store", "detect", "print"} : At(step)
  \/ stty \in {"save", "off", "restore"}

\* Everywhere else it goes on: a call to the router takes a bounded number of
\* waits, each with a timeout of its socket.  What the user, the router and
\* these programs do is up to them.
FairSpec == Spec /\ WF_vars(Program /\ ~Waits)

-----------------------------------------------------------------------------
(* Properties                                                              *)

\* The exit code tells what has happened.  Zero: nobody cancelled, and what
\* the command is for was done, exactly once where it changes something;
\* except that `home list --tr064` has printed what it had when a call failed.
\* No credential or a bad configuration: nothing was changed.  Any code but
\* 130 of a command that was begun: it was not cancelled.
ExitTellsTruth ==
  /\ exit = 0 =>
       /\ ~cancelled /\ printed
       /\ cmd \in {"dial", "hangup", "reboot", "wol", "guest_set",
                   "home_switch", "home_temp"} => effect = 1
       /\ cmd = "host_pin" => agreed
       /\ cmd \in {"auth_login", "auth_store"} => stored
       /\ cmd \in {"auth_login", "auth_test", "doctor"} => verified
       /\ cmd \in {"diagnose", "router"} => picked # {}
       /\ cmd = "status" => Primary # {} \/ faults = <<>>
       /\ cmd = "dns" => todo = {}
  /\ exit \in {NoAuth, BadConfig} => effect = 0 /\ ~stored
  /\ exit \notin {Running, Cancelled} /\ pc > 0 => ~cancelled

\* The terminal echoes again when the prompt is over, however it has ended, and
\* so it does when the process ends: unless a program that switches the echo
\* has failed.
EchoRestored == (exit # Running \/ stty = "none") /\ ~balked => echo

\* A command that is cancelled ends, at whatever step and call of it the flag
\* is set and in spite of the user and the router; provided that the programs
\* it waits for end, and that somebody reads what it prints.
ProgramsEnd == []<>~Waits

CancelEnds == ProgramsEnd => (cancelled ~> exit # Running)
=============================================================================
