------------------------------ MODULE Firmware ----------------------------
(***************************************************************************)
(* The firmware workflow of crates/symfritz-tr064/src/firmware.rs: status, *)
(* check and install with verification, over the FirmwareTransport and the *)
(* Digest exchange of the client, against a router that checks, installs,  *)
(* reboots and changes its offer in its own time.                          *)
(*                                                                         *)
(* A status is abstracted to what the workflow decides on: the version the *)
(* box offers (`safe_offer` accepts "release" and not "lab", which stands  *)
(* for every offer it refuses), and whether a check is still running.      *)
(* Time passes only inside requests and pauses.                            *)
(***************************************************************************)
EXTENDS Naturals

CONSTANTS Limit,      \* Budget.limit: the deadline for starting calls
          HttpTime,   \* the longest HTTP request
          Interval,   \* Budget.interval
          Polls       \* Budget.polls

ASSUME BudgetAssumption ==
  /\ Limit \in Nat /\ HttpTime \in Nat \ {0} /\ Interval \in Nat
  /\ Polls \in Nat \ {0}

Ops == {"status", "check", "install"}
Calls == {"desc", "scpd", "device", "ui", "ext", "check", "install", "verify"}

VARIABLES
  op, at,     \* the running operation and its current call
  verify,     \* options.verify
  pc,         \* idle, boundary, send, wire (on its way) or pause
  again,      \* the call was challenged and is sent again
  polling,    \* the check was requested: what is read now are its results
  left,       \* polls left
  elapsed,    \* since Budget::new
  status,     \* the status read last
  outcome,    \* of the operation; "err" for every FirmwareError
  cancelled,
  version, offer, target,  \* the router: running, offered and being installed
  phase,      \* "up", "installing" or "down" (rebooting)
  check,      \* its online check: "idle", "queued" or "running"
  same,       \* it is the device the operation began with
  installs    \* history: DoUpdate requests that it began to carry out

client == <<op, at, verify, pc, again, polling, left, elapsed, status, outcome>>
router == <<version, offer, target, phase, check, same, installs>>
vars == <<client, cancelled, router>>

Versions == {"old", "release", "lab"}
Offers == {"none", "release", "lab"}
Availability == {"available", "unavailable", "unknown", "checking",
                 "failed", "unsupported"}

NoStatus == [availability |-> "unsupported", offered |-> "none",
             current |-> "old"]

TypeOK ==
  /\ op \in Ops /\ at \in Calls /\ verify \in BOOLEAN
  /\ pc \in {"idle", "boundary", "send", "wire", "pause"}
  /\ again \in BOOLEAN /\ polling \in BOOLEAN /\ left \in 0..Polls
  /\ elapsed \in Nat
  /\ status \in [availability : Availability, offered : Offers,
                 current : Versions]
  /\ outcome \in {"none", "ok", "err", "complete", "timeout", "accepted",
                  "verified", "rejected", "unknown"}
  /\ cancelled \in BOOLEAN
  /\ version \in Versions /\ offer \in Offers /\ target \in Versions
  /\ phase \in {"up", "installing", "down"}
  /\ check \in {"idle", "queued", "running"}
  /\ same \in BOOLEAN /\ installs \in Nat

Init ==
  /\ op \in Ops /\ at = "desc" /\ verify \in BOOLEAN
  /\ pc = "boundary" /\ again = FALSE /\ polling = FALSE /\ left = Polls
  /\ elapsed = 0 /\ status = NoStatus /\ outcome = "none"
  /\ cancelled = FALSE
  /\ version = "old" /\ offer \in Offers /\ target = "old" /\ phase = "up"
  /\ check = "idle" /\ same = TRUE /\ installs = 0

-----------------------------------------------------------------------------
(* Moving on                                                               *)

End(result) ==
  /\ pc' = "idle" /\ outcome' = result
  /\ UNCHANGED <<at, again, polling, left>>

\* The next call, behind Budget.boundary.
Go(next) ==
  /\ at' = next /\ pc' = "boundary" /\ again' = FALSE
  /\ UNCHANGED <<polling, left, outcome>>

\* The next round of a polling loop, or its end.
NextPoll(next, rounds) ==
  IF rounds = 0
  THEN End("timeout")
  ELSE /\ at' = next /\ pc' = "pause" /\ again' = FALSE /\ left' = rounds - 1
       /\ UNCHANGED <<polling, outcome>>

\* safe_offer of the status read before the installation.
SafeOffer(s) ==
  s.availability = "available" /\ s.offered = "release" /\ s.current = "old"

\* The end of firmware_read, with the status s.
ReadDone(s) ==
  \/ op = "status" /\ End("ok")
  \/ op = "check" /\ ~polling /\ Go("check")
  \/ /\ op = "check" /\ polling
     /\ IF s.availability \in {"checking", "unknown"}
        THEN NextPoll("device", left)
        ELSE End("complete")
  \/ /\ op = "install"
     /\ IF SafeOffer(s) THEN Go("install") ELSE End("err")

BoundaryFails(why) ==
  IF at = "verify"
  THEN End(IF why = "cancelled" THEN "unknown" ELSE "timeout")
  ELSE End(IF polling /\ why = "timeout" THEN "timeout" ELSE "err")

BoundaryOncePerRead ==
  /\ pc = "boundary"
  /\ IF cancelled
     THEN BoundaryFails("cancelled")
     ELSE IF elapsed >= Limit /\ at # "ext"
     THEN BoundaryFails("timeout")
     ELSE pc' = "send" /\ UNCHANGED <<at, again, polling, left, outcome>>
  /\ UNCHANGED <<op, verify, elapsed, status, cancelled, router>>

\* Budget.boundary, before every call and at the end of every pause.
Boundary ==
  /\ pc = "boundary"
  /\ IF cancelled
     THEN BoundaryFails("cancelled")
     ELSE IF elapsed >= Limit
     THEN BoundaryFails("timeout")
     ELSE pc' = "send" /\ UNCHANGED <<at, again, polling, left, outcome>>
  /\ UNCHANGED <<op, verify, elapsed, status, cancelled, router>>

\* A pause lasts the interval, but never beyond the limit, and is left early
\* when the flag is set.
Pause ==
  /\ pc = "pause"
  /\ \E d \in IF cancelled THEN 0..Interval ELSE {Interval} :
       elapsed' = IF elapsed + d <= Limit THEN elapsed + d
                  ELSE IF elapsed < Limit THEN Limit ELSE elapsed
  /\ pc' = "boundary"
  /\ UNCHANGED <<op, at, verify, again, polling, left, status, outcome,
                 cancelled, router>>

-----------------------------------------------------------------------------
(* A call: FirmwareTransport, and the Digest exchange                      *)

CallFailsRetried(why) ==
  IF at = "install" /\ why # "fault"
  THEN IF why = "lost" THEN Go("install") ELSE End("unknown")
  ELSE IF at = "verify"
  THEN IF why = "lost" THEN NextPoll("verify", left) ELSE End("unknown")
  ELSE End("err")

CallFailsHard(why) ==
  IF at = "verify"
  THEN IF why = "lost" THEN NextPoll("verify", left) ELSE End("unknown")
  ELSE End("err")

\* An install that failed in any way but a SOAP fault may have begun.  A
\* router that cannot be reached while its update is verified may reboot.
CallFails(why) ==
  IF at = "install" /\ why # "fault"
  THEN End("unknown")
  ELSE IF at = "verify"
  THEN IF why = "lost" THEN NextPoll("verify", left) ELSE End("unknown")
  ELSE End("err")

\* The flag is looked at before each dispatch, the repetition after a Digest
\* challenge included.
Send ==
  /\ pc = "send"
  /\ IF cancelled
     THEN CallFails("cancelled")
     ELSE pc' = "wire" /\ UNCHANGED <<at, again, polling, left, outcome>>
  /\ UNCHANGED <<op, verify, elapsed, status, cancelled, router>>

\* The time of one HTTP request.
Takes == \E d \in 1..HttpTime : elapsed' = elapsed + d

Challenged ==
  /\ pc = "wire" /\ phase # "down" /\ ~again
  /\ Takes
  /\ again' = TRUE /\ pc' = "send"
  /\ UNCHANGED <<op, at, verify, polling, left, status, outcome, cancelled,
                 router>>

\* What the router does when it executes the call.
StartCheck ==
  /\ at = "check"
  /\ check' \in {"queued", "running"}
  /\ UNCHANGED <<version, offer, target, phase, same, installs>>

StartInstall ==
  /\ at = "install" /\ phase = "up" /\ offer # "none"
  /\ phase' = "installing" /\ target' = offer /\ installs' = installs + 1
  /\ UNCHANGED <<version, offer, check, same>>

Execute ==
  \/ StartCheck
  \/ StartInstall
  \/ at \notin {"check", "install"} /\ UNCHANGED router

\* The request or its response is lost, or the response is no answer to the
\* action, or the router refuses the credentials again.
Lost ==
  /\ pc = "wire"
  /\ Takes
  /\ \/ \E why \in {"lost", "refused"} : CallFails(why) /\ UNCHANGED router
     \/ /\ phase # "down"
        /\ \E why \in {"lost", "invalid"} : CallFails(why)
        /\ Execute
  /\ UNCHANGED <<op, verify, status, cancelled>>

\* A SOAP fault.  The two GetInfo of the user interface may be unsupported.
Fault ==
  /\ pc = "wire" /\ phase # "down"
  /\ Takes
  /\ \/ CallFails("fault") /\ UNCHANGED status
     \/ /\ at = "ui"
        /\ status' = [status EXCEPT !.availability = "unsupported"]
        /\ ReadDone(status')
     \/ at = "ext" /\ ReadDone(status) /\ UNCHANGED status
  /\ UNCHANGED <<op, verify, cancelled, router>>

Reported ==
  IF check = "running" THEN {"checking", "unknown"}
  ELSE {"unknown", "failed", IF offer = "none" THEN "unavailable"
                                               ELSE "available"}

\* The answer to a reading call, which leaves the router as it is.
Answer ==
  \/ /\ at = "desc"
     /\ Go("scpd") \/ End("err")
     /\ UNCHANGED status
  \/ /\ at = "scpd"
     /\ Go("device") \/ End("err")
     /\ UNCHANGED status
  \/ /\ at = "device"
     /\ status' = [NoStatus EXCEPT !.current = version]
     /\ Go("ui") \/ ReadDone(status')
  \/ /\ at = "ui"
     /\ \E a \in Reported :
          status' = [status EXCEPT !.availability = a, !.offered = offer]
     /\ Go("ext") \/ ReadDone(status')
  \/ at = "ext" /\ ReadDone(status) /\ UNCHANGED status

\* The first results are read at once.
CheckRequested ==
  /\ StartCheck
  /\ at' = "device" /\ pc' = "boundary" /\ again' = FALSE
  /\ polling' = TRUE /\ left' = Polls - 1
  /\ UNCHANGED <<status, outcome>>

InstallAnswered ==
  \/ /\ StartInstall
     /\ IF verify THEN NextPoll("verify", Polls) ELSE End("accepted")
     /\ UNCHANGED status
  \/ StartInstall /\ End("unknown") /\ UNCHANGED status   \* ambiguous
  \/ /\ at = "install" /\ (phase # "up" \/ offer = "none")
     /\ End("rejected")
     /\ UNCHANGED <<status, router>>

VerifyAnyDevice ==
  /\ at = "verify"
  /\ IF version = status.offered /\ ~cancelled
     THEN End("verified")
     ELSE NextPoll("verify", left)
  /\ UNCHANGED <<status, router>>

\* The readback of the verification.
VerifyAnswered ==
  /\ at = "verify"
  /\ IF ~same
     THEN End("unknown")
     ELSE IF version = status.offered /\ ~cancelled
     THEN End("verified")
     ELSE NextPoll("verify", left)
  /\ UNCHANGED <<status, router>>

Reply ==
  /\ pc = "wire" /\ phase # "down"
  /\ Takes
  /\ \/ Answer /\ UNCHANGED router
     \/ CheckRequested
     \/ InstallAnswered
     \/ VerifyAnswered
  /\ UNCHANGED <<op, verify, cancelled>>

-----------------------------------------------------------------------------
(* The user and the router                                                 *)

Cancel == ~cancelled /\ cancelled' = TRUE /\ UNCHANGED <<client, router>>

\* A queued check starts, and ends with whatever it finds.
RouterChecks ==
  /\ phase = "up"
  /\ \/ check = "queued" /\ check' = "running" /\ UNCHANGED offer
     \/ /\ check = "running" /\ check' = "idle"
        /\ offer' \in Offers
  /\ UNCHANGED <<client, cancelled, version, target, phase, same, installs>>

\* An installation ends in a reboot, which brings up the target or the old
\* version, or another device at the same address.
RouterInstalls ==
  /\ \/ /\ phase = "installing" /\ phase' = "down"
        /\ UNCHANGED <<version, offer, same>>
     \/ /\ phase = "down" /\ phase' = "up"
        /\ version' \in {version, target}
        /\ offer' = "none" /\ same' \in {same, FALSE}
  /\ UNCHANGED <<client, cancelled, target, check, installs>>

\* Outside a check the offer changes too: the box updates its information.
RouterChangesOffer ==
  /\ phase = "up"
  /\ offer' \in Offers \ {offer}
  /\ UNCHANGED <<client, cancelled, version, target, phase, check, same,
                 installs>>

Next ==
  \/ Boundary \/ Pause \/ Send \/ Challenged \/ Lost \/ Fault \/ Reply
  \/ Cancel
  \/ RouterChecks \/ RouterInstalls \/ RouterChangesOffer

Spec == Init /\ [][Next]_vars

-----------------------------------------------------------------------------
(* Properties                                                              *)

\* The router begins at most one installation, whatever is lost.
InstalledOnce == installs <= 1

\* An error, or a rejection, means that nothing was begun: from the dispatch
\* of the install on, every doubt is reported as such, so a user who reads
\* an error may try again.
ErrorMeansNotBegun ==
  pc = "idle" /\ outcome \in {"err", "rejected"} => installs = 0

\* Verified means that the original device runs the version that was checked
\* and confirmed, also when the offer changed before the install request.
VerifiedMeansInstalled ==
  [][outcome' = "verified" /\ outcome # "verified" =>
       same /\ version = "release" /\ installs = 1]_vars

\* No call starts after the deadline: an operation outlives it by one call,
\* a Digest exchange included.
OverrunBounded == elapsed < Limit + 2 * HttpTime

=============================================================================
