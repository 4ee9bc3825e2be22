-------------------------- MODULE FirmwareProofs --------------------------
(***************************************************************************)
(* Proofs about Firmware, for every deadline, HTTP time, interval and      *)
(* number of polls.                                                        *)
(***************************************************************************)
EXTENDS Firmware, TLAPS

Outcomes == {"none", "ok", "err", "complete", "timeout", "accepted",
             "verified", "rejected", "unknown"}

Statuses == [availability : Availability, offered : Offers,
             current : Versions]

\* The control state that a call leaves: it never goes to the install except
\* from a reading call, and never to the verification except by an install.
Ends(results) ==
  /\ pc' = "idle" /\ outcome' \in results
  /\ UNCHANGED <<at, again, polling, left>>

Continues(next) ==
  /\ at' = next /\ pc' \in {"boundary", "pause"} /\ again' = FALSE
  /\ left' \in 0..Polls /\ UNCHANGED <<polling, outcome>>

\* The only way to the install and to its verification.
InstallInv ==
  /\ pc # "idle" => outcome = "none"
  /\ at = "install" => status.offered = "release"
  /\ at = "verify" =>
       /\ installs = 1 /\ status.offered = "release"
       /\ outcome \in {"none", "timeout", "unknown", "verified"}
  /\ at # "verify" /\ installs # 0 =>
       installs = 1 /\ pc = "idle" /\ outcome \notin {"err", "rejected"}

\* A call starts before the deadline, its repetition one request later.
TimeInv ==
  /\ pc \in {"boundary", "pause"} => again = FALSE
  /\ pc \in {"send", "wire"} /\ again = FALSE => elapsed < Limit
  /\ pc \in {"send", "wire"} => elapsed < Limit + HttpTime
  /\ elapsed < Limit + 2 * HttpTime

IInv == TypeOK /\ InstallInv /\ TimeInv

\* The invariant holds before an operation.
LEMMA IInvInit == Init => IInv
<1> SUFFICES ASSUME Init PROVE IInv
  OBVIOUS
<1> USE BudgetAssumption DEF Init, NoStatus
<1>1. TypeOK
  <2>1. status \in Statuses
    BY DEF Statuses, Availability, Offers, Versions
  <2>2. elapsed \in Nat /\ installs \in Nat /\ left \in 0..Polls
    OBVIOUS
  <2> QED
    BY <2>1, <2>2 DEF TypeOK, Statuses, Ops, Calls, Offers, Versions
<1>2. InstallInv
  BY DEF InstallInv
<1>3. TimeInv
  BY DEF TimeInv
<1> QED
  BY <1>1, <1>2, <1>3 DEF IInv

\* The end of a polling loop, or its next round.
LEMMA NextPollEffect ==
  ASSUME NEW next, NEW rounds \in 0..Polls, NextPoll(next, rounds)
  PROVE  Ends({"timeout"}) \/ Continues(next)
  BY BudgetAssumption DEF NextPoll, End, Ends, Continues

\* The end of a read leads to the check, to another read or to an install
\* of a release.
LEMMA ReadDoneEffect ==
  ASSUME NEW s, left \in 0..Polls, ReadDone(s)
  PROVE  \/ Ends({"ok", "err", "complete", "timeout"})
         \/ Continues("check") \/ Continues("device")
         \/ s.offered = "release" /\ Continues("install")
  BY NextPollEffect, BudgetAssumption
  DEF ReadDone, SafeOffer, End, Ends, Go, Continues

\* A failed call: only the verification goes on, and a failed install may
\* have begun.
LEMMA CallFailsEffect ==
  ASSUME NEW why, left \in 0..Polls, CallFails(why)
  PROVE  \/ at = "verify" /\ (Ends({"timeout", "unknown"}) \/ Continues("verify"))
         \/ at = "install" /\ why # "fault" /\ Ends({"unknown"})
         \/ at # "verify" /\ (why = "fault" \/ at # "install") /\ Ends({"err"})
  BY NextPollEffect DEF CallFails, End, Ends

\* What a check of the budget that fails leads to.
LEMMA BoundaryFailsEffect ==
  ASSUME NEW why, BoundaryFails(why)
  PROVE  \/ at = "verify" /\ Ends({"timeout", "unknown"})
         \/ at # "verify" /\ Ends({"timeout", "err"})
  BY DEF BoundaryFails, End, Ends

\* What the router begins on an install, and what it leaves alone otherwise.
LEMMA ExecuteEffect ==
  ASSUME TypeOK, Execute
  PROVE  /\ target' \in Versions /\ phase' \in {"up", "installing", "down"}
         /\ check' \in {"idle", "queued", "running"}
         /\ UNCHANGED <<version, offer, same>>
         /\ installs' = installs \/ (at = "install" /\ installs' = installs + 1)
  BY DEF Execute, StartCheck, StartInstall, TypeOK, Offers, Versions, router

\* Time passes within requests.
LEMMA TakesBounds ==
  ASSUME elapsed \in Nat, Takes
  PROVE  elapsed' \in Nat /\ elapsed' <= elapsed + HttpTime
  BY BudgetAssumption DEF Takes

ControlOK ==
  /\ at \in Calls /\ pc \in {"idle", "boundary", "send", "wire", "pause"}
  /\ again \in BOOLEAN /\ polling \in BOOLEAN /\ left \in 0..Polls
  /\ outcome \in Outcomes

RouterOK ==
  /\ version \in Versions /\ offer \in Offers /\ target \in Versions
  /\ phase \in {"up", "installing", "down"}
  /\ check \in {"idle", "queued", "running"}
  /\ same \in BOOLEAN /\ installs \in Nat

RestOK == op \in Ops /\ verify \in BOOLEAN /\ elapsed \in Nat /\ cancelled \in BOOLEAN

\* The type invariant is that of its four parts.
LEMMA TypeParts == TypeOK <=> ControlOK /\ RouterOK /\ RestOK /\ status \in Statuses
  BY DEF TypeOK, ControlOK, RouterOK, RestOK, Statuses, Outcomes

\* An operation that ends keeps the types of its control.
LEMMA EndsTyped ==
  ASSUME ControlOK, NEW results \in SUBSET Outcomes, Ends(results)
  PROVE  ControlOK'
  BY DEF ControlOK, Ends

\* So does one that goes on with its next call.
LEMMA ContinuesTyped ==
  ASSUME ControlOK, NEW next \in Calls, Continues(next)
  PROVE  ControlOK'
  BY DEF ControlOK, Continues

\* So does one whose call failed, whatever the failure.
LEMMA CallFailsTyped ==
  ASSUME ControlOK, NEW why, CallFails(why)
  PROVE  ControlOK'
<1>1. left \in 0..Polls /\ {"timeout", "unknown"} \in SUBSET Outcomes
      /\ {"unknown"} \in SUBSET Outcomes /\ {"err"} \in SUBSET Outcomes
      /\ "verify" \in Calls
  BY DEF ControlOK, Outcomes, Calls
<1> QED
  BY <1>1, CallFailsEffect, EndsTyped, ContinuesTyped

\* So does one that has read a status.
LEMMA ReadDoneTyped ==
  ASSUME ControlOK, NEW s, ReadDone(s)
  PROVE  ControlOK'
<1>1. left \in 0..Polls
      /\ {"ok", "err", "complete", "timeout"} \in SUBSET Outcomes
      /\ {"check", "device", "install"} \in SUBSET Calls
  BY DEF ControlOK, Outcomes, Calls
<1> QED
  BY <1>1, ReadDoneEffect, EndsTyped, ContinuesTyped

\* Every step keeps the control in its types.
LEMMA ControlStep == ControlOK /\ [Next]_vars => ControlOK'
<1> SUFFICES ASSUME ControlOK, [Next]_vars
             PROVE  ControlOK'
  OBVIOUS
<1>1. CASE Boundary
  <2>1. CASE \E why : BoundaryFails(why)
    <3>1. {"timeout", "unknown"} \in SUBSET Outcomes /\ {"timeout", "err"} \in SUBSET Outcomes
      BY DEF Outcomes
    <3> QED
      BY <2>1, <3>1, BoundaryFailsEffect, EndsTyped
  <2>2. CASE pc' = "send" /\ UNCHANGED <<at, again, polling, left, outcome>>
    BY <2>2 DEF ControlOK
  <2> QED
    BY <1>1, <2>1, <2>2 DEF Boundary
<1>2. CASE Pause
  BY <1>2 DEF Pause, ControlOK
<1>3. CASE Send
  <2>1. CASE CallFails("cancelled")
    BY <2>1, CallFailsTyped
  <2>2. CASE pc' = "wire" /\ UNCHANGED <<at, again, polling, left, outcome>>
    BY <2>2 DEF ControlOK
  <2> QED
    BY <1>3, <2>1, <2>2 DEF Send
<1>4. CASE Challenged
  BY <1>4 DEF Challenged, ControlOK
<1>5. CASE Lost
  BY <1>5, CallFailsTyped DEF Lost
<1>6. CASE Fault
  BY <1>6, CallFailsTyped, ReadDoneTyped DEF Fault
<1>7. CASE Reply
  <2>1. CASE Answer
    <3>1. CASE \E s : ReadDone(s)
      BY <3>1, ReadDoneTyped
    <3>2. CASE \E next \in {"scpd", "device", "ui", "ext"} : Go(next)
      BY <3>2 DEF Go, ControlOK, Calls
    <3>3. CASE End("err")
      BY <3>3 DEF End, ControlOK, Outcomes
    <3> QED
      BY <2>1, <3>1, <3>2, <3>3 DEF Answer
  <2>2. CASE CheckRequested
    <3>1. Polls - 1 \in 0..Polls
      BY BudgetAssumption
    <3> QED
      BY <2>2, <3>1 DEF CheckRequested, ControlOK, Calls
  <2>3. CASE \/ NextPoll("verify", Polls) \/ NextPoll("verify", left)
             \/ \E r \in Outcomes : End(r)
    <3>1. {"timeout"} \in SUBSET Outcomes /\ "verify" \in Calls
          /\ left \in 0..Polls /\ Polls \in 0..Polls
      BY BudgetAssumption DEF Outcomes, Calls, ControlOK
    <3>2. CASE NextPoll("verify", Polls) \/ NextPoll("verify", left)
      BY <3>1, <3>2, NextPollEffect, EndsTyped, ContinuesTyped
    <3>3. CASE \E r \in Outcomes : End(r)
      BY <3>3 DEF End, ControlOK
    <3> QED
      BY <2>3, <3>2, <3>3
  <2>4. CASE InstallAnswered \/ VerifyAnswered
    <3>1. {"accepted", "unknown", "rejected", "verified"} \subseteq Outcomes
      BY DEF Outcomes
    <3> QED
      BY <2>3, <2>4, <3>1 DEF InstallAnswered, VerifyAnswered
  <2> QED
    BY <1>7, <2>1, <2>2, <2>4 DEF Reply
<1>8. CASE Cancel \/ RouterChecks \/ RouterInstalls \/ RouterChangesOffer \/ UNCHANGED vars
  BY <1>8 DEF Cancel, RouterChecks, RouterInstalls, RouterChangesOffer, vars,
     client, ControlOK
<1> QED
  BY <1>1, <1>2, <1>3, <1>4, <1>5, <1>6, <1>7, <1>8 DEF Next

\* What the router runs, offers and installs stays in its types.
LEMMA RouterStep == RouterOK /\ [Next]_vars => RouterOK'
<1> SUFFICES ASSUME RouterOK, [Next]_vars
             PROVE  RouterOK'
  OBVIOUS
<1>1. CASE UNCHANGED router
  BY <1>1 DEF router, RouterOK
<1>2. CASE StartCheck
  BY <1>2 DEF StartCheck, RouterOK
<1>3. CASE StartInstall
  <2>1. offer \in Versions
    BY <1>3 DEF StartInstall, RouterOK, Offers, Versions
  <2> QED
    BY <1>3, <2>1 DEF StartInstall, RouterOK
<1>4. CASE RouterChecks
  BY <1>4 DEF RouterChecks, RouterOK
<1>5. CASE RouterInstalls
  <2>1. version' \in Versions /\ offer' \in Offers /\ same' \in BOOLEAN
    BY <1>5 DEF RouterInstalls, RouterOK, Offers
  <2> QED
    BY <1>5, <2>1 DEF RouterInstalls, RouterOK
<1>6. CASE RouterChangesOffer
  BY <1>6 DEF RouterChangesOffer, RouterOK
<1>7. \/ UNCHANGED router \/ StartCheck \/ StartInstall
      \/ RouterChecks \/ RouterInstalls \/ RouterChangesOffer
  BY DEF Next, vars, Boundary, Pause, Send, Challenged, Lost, Execute, Fault,
         Reply, CheckRequested, InstallAnswered, VerifyAnswered, Cancel
<1> QED
  BY <1>1, <1>2, <1>3, <1>4, <1>5, <1>6, <1>7

\* A status is made of what the router reports.
LEMMA StatusStep ==
  RouterOK /\ status \in Statuses /\ [Next]_vars => status' \in Statuses
<1> SUFFICES ASSUME RouterOK, status \in Statuses, [Next]_vars
             PROVE  status' \in Statuses
  OBVIOUS
<1>1. CASE UNCHANGED status
  BY <1>1
<1>2. CASE status' = [status EXCEPT !.availability = "unsupported"]
  BY <1>2 DEF Statuses, Availability
<1>3. CASE status' = [NoStatus EXCEPT !.current = version]
  BY <1>3 DEF Statuses, NoStatus, RouterOK, Availability, Offers
<1>4. CASE \E a \in Reported :
             status' = [status EXCEPT !.availability = a, !.offered = offer]
  <2>1. Reported \subseteq Availability
    BY DEF Reported, Availability
  <2> QED
    BY <1>4, <2>1 DEF Statuses, RouterOK
<1>5. \/ UNCHANGED status
      \/ status' = [status EXCEPT !.availability = "unsupported"]
      \/ status' = [NoStatus EXCEPT !.current = version]
      \/ \E a \in Reported :
           status' = [status EXCEPT !.availability = a, !.offered = offer]
  <2>1. Reply => \/ UNCHANGED status
                 \/ status' = [NoStatus EXCEPT !.current = version]
                 \/ \E a \in Reported :
                      status' = [status EXCEPT !.availability = a,
                                 !.offered = offer]
    BY DEF Reply, Answer, CheckRequested, InstallAnswered, VerifyAnswered
  <2> QED
    BY <2>1 DEF Next, vars, client, Boundary, Pause, Send, Challenged, Lost,
         Fault, Cancel, RouterChecks, RouterInstalls, RouterChangesOffer
<1> QED
  BY <1>1, <1>2, <1>3, <1>4, <1>5

\* Time only passes.
LEMMA RestStep == RestOK /\ [Next]_vars => RestOK'
<1> SUFFICES ASSUME RestOK, [Next]_vars
             PROVE  RestOK'
  OBVIOUS
<1>1. CASE Pause
  <2>1. elapsed' \in Nat
    BY <1>1, BudgetAssumption DEF Pause, RestOK
  <2> QED
    BY <1>1, <2>1 DEF Pause, RestOK
<1>2. CASE Takes /\ UNCHANGED <<op, verify, cancelled>>
  <2>1. elapsed' \in Nat
    BY <1>2, TakesBounds DEF RestOK
  <2> QED
    BY <1>2, <2>1 DEF RestOK
<1>3. CASE UNCHANGED <<op, verify, elapsed>> /\ cancelled' \in {cancelled, TRUE}
  BY <1>3 DEF RestOK
<1>4. \/ Pause
      \/ Takes /\ UNCHANGED <<op, verify, cancelled>>
      \/ UNCHANGED <<op, verify, elapsed>> /\ cancelled' \in {cancelled, TRUE}
  <2>1. CASE Lost \/ Fault \/ Reply \/ Challenged
    BY <2>1 DEF Lost, Fault, Reply, Challenged
  <2>2. CASE Cancel
    BY <2>2 DEF Cancel, client
  <2>3. CASE Boundary \/ Send
    BY <2>3 DEF Boundary, Send
  <2>4. CASE RouterChecks \/ RouterInstalls \/ RouterChangesOffer \/ UNCHANGED vars
    BY <2>4 DEF RouterChecks, RouterInstalls, RouterChangesOffer, vars, client
  <2> QED
    BY <2>1, <2>2, <2>3, <2>4 DEF Next
<1> QED
  BY <1>1, <1>2, <1>3, <1>4

\* Every step keeps the types.
LEMMA TypeStep == TypeOK /\ [Next]_vars => TypeOK'
<1> SUFFICES ASSUME TypeOK, [Next]_vars
             PROVE  TypeOK'
  OBVIOUS
<1>1. ControlOK /\ RouterOK /\ RestOK /\ status \in Statuses
  BY TypeParts
<1>2. ControlOK' /\ RouterOK' /\ RestOK' /\ status' \in Statuses
  BY <1>1, ControlStep, RouterStep, RestStep, StatusStep
<1> QED
  BY <1>2 DEF TypeOK, ControlOK, RouterOK, RestOK, Statuses, Outcomes

\* What the outcomes say of the installation.
LEMMA InstallStep == TypeOK /\ InstallInv /\ [Next]_vars => InstallInv'
<1> SUFFICES ASSUME TypeOK, InstallInv, [Next]_vars
             PROVE  InstallInv'
  OBVIOUS
<1>0. left \in 0..Polls /\ Polls \in 0..Polls /\ installs \in Nat
  BY BudgetAssumption DEF TypeOK
<1> USE DEF InstallInv
<1>1. CASE Boundary
  <2>1. UNCHANGED <<status, installs>> /\ pc = "boundary"
    BY <1>1 DEF Boundary, router
  <2>2. CASE \E why : BoundaryFails(why)
    BY <2>1, <2>2, BoundaryFailsEffect DEF Ends
  <2>3. CASE pc' = "send" /\ UNCHANGED <<at, again, polling, left, outcome>>
    BY <2>1, <2>3
  <2> QED
    BY <1>1, <2>2, <2>3 DEF Boundary
<1>2. CASE Pause
  BY <1>2 DEF Pause, router
<1>3. CASE Send
  <2>1. UNCHANGED <<status, installs>> /\ pc = "send"
    BY <1>3 DEF Send, router
  <2>2. CASE CallFails("cancelled")
    BY <1>0, <2>1, <2>2, CallFailsEffect DEF Ends, Continues
  <2>3. CASE pc' = "wire" /\ UNCHANGED <<at, again, polling, left, outcome>>
    BY <2>1, <2>3
  <2> QED
    BY <1>3, <2>2, <2>3 DEF Send
<1>4. CASE Challenged
  BY <1>4 DEF Challenged, router
<1>5. CASE Lost
  <2>1. pc = "wire" /\ UNCHANGED status
    BY <1>5 DEF Lost
  <2>2. installs' = installs \/ (at = "install" /\ installs' = installs + 1)
    BY <1>5, ExecuteEffect DEF Lost, router
  <2>3. PICK why \in {"lost", "refused", "invalid"} : CallFails(why)
    BY <1>5 DEF Lost
  <2>4. \/ at = "verify" /\ (Ends({"timeout", "unknown"}) \/ Continues("verify"))
        \/ at = "install" /\ Ends({"unknown"})
        \/ at \notin {"verify", "install"} /\ Ends({"err"})
    BY <1>0, <2>3, CallFailsEffect
  <2>5. CASE at = "install" /\ Ends({"unknown"})
    BY <1>0, <2>1, <2>2, <2>5 DEF Ends
  <2>6. CASE at # "install" /\ UNCHANGED installs
    BY <1>0, <2>1, <2>4, <2>6 DEF Ends, Continues
  <2> QED
    BY <2>2, <2>4, <2>5, <2>6
<1>6. CASE Fault
  <2>1. pc = "wire" /\ UNCHANGED installs
    BY <1>6 DEF Fault, router
  <2>2. CASE CallFails("fault") /\ UNCHANGED status
    BY <1>0, <2>1, <2>2, CallFailsEffect DEF Ends, Continues
  <2>3. CASE at \in {"ui", "ext"} /\ ReadDone(status')
    BY <1>0, <2>1, <2>3, ReadDoneEffect DEF Ends, Continues
  <2> QED
    BY <1>6, <2>2, <2>3 DEF Fault
<1>7. CASE Reply
  <2>0. pc = "wire" /\ phase # "down"
    BY <1>7 DEF Reply
  <2>1. CASE Answer /\ UNCHANGED router
    <3>1. at \in {"desc", "scpd", "device", "ui", "ext"} /\ UNCHANGED installs
      BY <2>1 DEF Answer, router
    <3>2. CASE ReadDone(status')
      BY <1>0, <2>0, <3>1, <3>2, ReadDoneEffect DEF Ends, Continues
    <3>3. CASE \E next \in {"scpd", "device", "ui", "ext"} : Go(next)
      BY <2>0, <3>1, <3>3 DEF Go
    <3>4. CASE End("err")
      BY <2>0, <3>1, <3>4 DEF End
    <3> QED
      BY <2>1, <3>2, <3>3, <3>4 DEF Answer
  <2>2. CASE CheckRequested
    BY <2>0, <2>2 DEF CheckRequested, StartCheck
  <2>3. CASE InstallAnswered
    <3>1. at = "install" /\ installs = 0 /\ UNCHANGED status
      BY <2>0, <2>3 DEF InstallAnswered, StartInstall
    <3>2. CASE /\ installs' = 1
               /\ \/ NextPoll("verify", Polls)
                  \/ End("accepted") \/ End("unknown")
      <4>1. CASE NextPoll("verify", Polls)
        BY <1>0, <2>0, <3>1, <3>2, <4>1, BudgetAssumption DEF NextPoll
      <4>2. CASE End("accepted") \/ End("unknown")
        BY <3>1, <3>2, <4>2 DEF End
      <4> QED
        BY <3>2, <4>1, <4>2
    <3>3. CASE End("rejected") /\ UNCHANGED installs
      BY <3>1, <3>3 DEF End
    <3> QED
      BY <2>3, <3>1, <3>2, <3>3 DEF InstallAnswered, StartInstall, router
  <2>4. CASE VerifyAnswered
    <3>1. at = "verify" /\ UNCHANGED <<status, installs>>
      BY <2>4 DEF VerifyAnswered, router
    <3>2. CASE NextPoll("verify", left)
      BY <1>0, <2>0, <3>1, <3>2, NextPollEffect DEF Ends, Continues
    <3>3. CASE End("unknown") \/ End("verified")
      BY <3>1, <3>3 DEF End
    <3> QED
      BY <2>4, <3>2, <3>3 DEF VerifyAnswered
  <2> QED
    BY <1>7, <2>1, <2>2, <2>3, <2>4 DEF Reply
<1>8. CASE Cancel \/ RouterChecks \/ RouterInstalls \/ RouterChangesOffer
           \/ UNCHANGED vars
  BY <1>8 DEF Cancel, RouterChecks, RouterInstalls, RouterChangesOffer, vars,
              client, router
<1> QED
  BY <1>1, <1>2, <1>3, <1>4, <1>5, <1>6, <1>7, <1>8 DEF Next

\* The control goes back to a boundary, to a pause or to its end without a
\* repetition pending.
LEMMA MovesAtRest ==
  ASSUME TypeOK, NEW why, NEW s,
         CallFails(why) \/ ReadDone(s) \/ NextPoll("verify", left)
  PROVE  pc' \in {"idle", "boundary", "pause"} /\ (pc' # "idle" => again' = FALSE)
<1>1. left \in 0..Polls
  BY DEF TypeOK
<1> QED
  BY <1>1, CallFailsEffect, ReadDoneEffect, NextPollEffect DEF Ends, Continues

\* Where the time of a request goes.
LEMMA TimeStep == TypeOK /\ TimeInv /\ [Next]_vars => TimeInv'
<1> SUFFICES ASSUME TypeOK, TimeInv, [Next]_vars
             PROVE  TimeInv'
  OBVIOUS
<1>0. /\ elapsed \in Nat /\ Limit \in Nat /\ HttpTime \in Nat /\ HttpTime > 0
      /\ Interval \in Nat
  BY BudgetAssumption DEF TypeOK
<1> USE DEF TimeInv
<1>1. CASE Boundary
  <2>1. CASE \E why : BoundaryFails(why)
    BY <1>0, <1>1, <2>1, BoundaryFailsEffect DEF Boundary, Ends
  <2>2. CASE /\ pc' = "send" /\ elapsed < Limit
             /\ UNCHANGED <<at, again, polling, left, outcome>>
    BY <1>0, <1>1, <2>2 DEF Boundary
  <2>3. elapsed >= Limit \/ elapsed < Limit
    BY <1>0
  <2> QED
    BY <1>1, <2>1, <2>2, <2>3 DEF Boundary
<1>2. CASE Pause
  <2>1. elapsed' <= Limit \/ elapsed' = elapsed
    BY <1>0, <1>2 DEF Pause
  <2>2. elapsed' \in Nat
    BY <1>0, <1>2 DEF Pause
  <2> QED
    BY <1>0, <1>2, <2>1, <2>2 DEF Pause
<1>3. CASE Send
  <2>1. CASE CallFails("cancelled")
    BY <1>0, <1>3, <2>1, MovesAtRest DEF Send
  <2>2. CASE pc' = "wire" /\ UNCHANGED <<at, again, polling, left, outcome>>
    BY <1>0, <1>3, <2>2 DEF Send
  <2> QED
    BY <1>3, <2>1, <2>2 DEF Send
<1>4. CASE Challenged
  <2>1. again = FALSE
    BY <1>4 DEF Challenged, TypeOK
  <2> QED
    BY <1>0, <1>4, <2>1, TakesBounds DEF Challenged
<1>5. CASE Lost \/ Fault \/ Reply
  <2>1. pc = "wire" /\ Takes
    BY <1>5 DEF Lost, Fault, Reply
  <2>2. elapsed' \in Nat /\ elapsed' < Limit + 2 * HttpTime
    BY <1>0, <2>1, TakesBounds
  <2>3. pc' \in {"idle", "boundary", "pause"} /\ (pc' # "idle" => again' = FALSE)
    <3>1. CASE \/ \E why : CallFails(why)
               \/ \E s : ReadDone(s)
               \/ NextPoll("verify", left)
      BY <3>1, MovesAtRest
    <3>2. CASE (\E next : Go(next)) \/ (\E r : End(r)) \/ CheckRequested
               \/ NextPoll("verify", Polls)
      BY <3>2 DEF Go, End, CheckRequested, NextPoll
    <3> QED
      BY <1>5, <3>1, <3>2 DEF Lost, Fault, Reply, Answer, InstallAnswered,
                              VerifyAnswered
  <2> QED
    BY <2>2, <2>3
<1>6. CASE Cancel \/ RouterChecks \/ RouterInstalls \/ RouterChangesOffer
           \/ UNCHANGED vars
  BY <1>6 DEF Cancel, RouterChecks, RouterInstalls, RouterChangesOffer, vars,
              client
<1> QED
  BY <1>1, <1>2, <1>3, <1>4, <1>5, <1>6 DEF Next

\* The invariant of an operation on the firmware.
LEMMA Invariant == Spec => []IInv
<1>1. IInv /\ [Next]_vars => IInv'
  BY TypeStep, InstallStep, TimeStep DEF IInv
<1> QED
  BY <1>1, IInvInit, PTL DEF Spec

\* The workflow, the Digest repetition and the router keep their types: a
\* polling loop never runs past its number of polls.
THEOREM FirmwareTypeCorrect == Spec => []TypeOK
<1>1. IInv => TypeOK
  BY DEF IInv
<1> QED
  BY <1>1, Invariant, PTL

\* firmware_install never lets the router begin a second installation.
THEOREM InstallsOnce == Spec => []InstalledOnce
<1>1. IInv => InstalledOnce
  BY DEF IInv, TypeOK, InstallInv, InstalledOnce
<1> QED
  BY <1>1, Invariant, PTL

\* After an error or a rejection nothing was begun: the doubtful cases of
\* firmware_install all end in an unknown outcome.
THEOREM ErrorsAreDefinite == Spec => []ErrorMeansNotBegun
<1>1. IInv => ErrorMeansNotBegun
  BY DEF IInv, InstallInv, ErrorMeansNotBegun
<1> QED
  BY <1>1, Invariant, PTL

\* An operation outlives its deadline by one Digest exchange at most.
THEOREM DeadlineHolds == Spec => []OverrunBounded
<1>1. IInv => OverrunBounded
  BY DEF IInv, TimeInv, OverrunBounded
<1> QED
  BY <1>1, Invariant, PTL

\* A verified installation is the one that was confirmed, on the device it
\* was confirmed for.
THEOREM VerifiedIsInstalled == Spec => VerifiedMeansInstalled
<1>1. ASSUME IInv, [Next]_vars, outcome' = "verified", outcome # "verified"
      PROVE  same /\ version = "release" /\ installs = 1
  <2>0. left \in 0..Polls /\ Polls \in 0..Polls
    BY <1>1, BudgetAssumption DEF IInv, TypeOK
  <2>1. ~\E why : BoundaryFails(why)
    BY <1>1, BoundaryFailsEffect DEF Ends
  <2>2. ~\E why : CallFails(why)
    BY <1>1, <2>0, CallFailsEffect DEF Ends, Continues
  <2>3. ~\E s : ReadDone(s)
    BY <1>1, <2>0, ReadDoneEffect DEF Ends, Continues
  <2>4. ~NextPoll("verify", left) /\ ~NextPoll("verify", Polls)
    BY <1>1, <2>0, NextPollEffect DEF Ends, Continues
  <2>5. ~\E next : Go(next)
    BY <1>1 DEF Go
  <2>6. \A r : End(r) => r = "verified"
    BY <1>1 DEF End
  <2>7. outcome' # outcome
    BY <1>1
  <2>8. CASE Reply
    <3>1. ~Answer
      BY <2>3, <2>5, <2>6 DEF Answer
    <3>2. ~CheckRequested
      BY <2>7 DEF CheckRequested
    <3>3. ~InstallAnswered
      BY <2>4, <2>6 DEF InstallAnswered
    <3>4. VerifyAnswered
      BY <2>8, <3>1, <3>2, <3>3 DEF Reply
    <3>5. at = "verify" /\ same /\ version = status.offered
      BY <2>4, <2>6, <3>4 DEF VerifyAnswered
    <3> QED
      BY <1>1, <3>5 DEF IInv, InstallInv
  <2>9. ~Boundary /\ ~Pause /\ ~Send /\ ~Challenged
    BY <2>1, <2>2, <2>7 DEF Boundary, Pause, Send, Challenged
  <2>10. ~Lost /\ ~Fault
    BY <2>2, <2>3 DEF Lost, Fault
  <2>11. ~Cancel /\ ~RouterChecks /\ ~RouterInstalls /\ ~RouterChangesOffer
         /\ ~UNCHANGED vars
    BY <2>7 DEF Cancel, RouterChecks, RouterInstalls, RouterChangesOffer, vars,
                client
  <2> QED
    BY <1>1, <2>8, <2>9, <2>10, <2>11 DEF Next
<1> QED
  BY <1>1, Invariant, PTL DEF Spec, VerifiedMeansInstalled
=============================================================================
