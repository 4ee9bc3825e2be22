--------------------------- MODULE Tr064Proofs ----------------------------
(***************************************************************************)
(* Proofs about the two layers of the TR-064 client, for every value of    *)
(* their constants: the Digest exchange (DigestClient), and below it the   *)
(* transport that carries each of its requests (Transport).                *)
(***************************************************************************)
EXTENDS DigestClient, Transport, TLAPS

-----------------------------------------------------------------------------
(* The Digest exchange, for every width of the nonce count                 *)

\* The request under way was not executed yet.
OnceInv ==
  /\ executed <= 1
  /\ request = "send" => executed = 0

\* It carries the newest count, which the router has not seen unless the
\* count is at its end.
CountInv ==
  /\ seen <= count
  /\ request = "send" /\ auth > 0 =>
       auth = count /\ (seen < count \/ count = MaxCount)

\* The second request of a call is the first use of a nonce, which is live
\* unless the router dropped it in the meantime.
HealInv ==
  /\ request = "send" /\ try = 2 =>
       auth = 1 /\ seen = 0 /\ (nonce = "live" \/ drops = 1)
  /\ StaleNonceHealed

DigestInv == DigestTypeOK /\ OnceInv /\ CountInv /\ HealInv

\* A saturating increment stays within the width, and reaches at least one.
LEMMA BumpBounds ==
  ASSUME NEW n \in 0..MaxCount
  PROVE  /\ Bump(n) \in 0..MaxCount
         /\ Bump(n) > 0
         /\ n < Bump(n) \/ Bump(n) = MaxCount
         /\ n <= Bump(n)
         /\ n = 0 => Bump(n) = 1
  BY MaxCountAssumption DEF Bump

\* The invariant of the Digest client holds before the first call.
LEMMA DigestInvInit == DigestInit => DigestInv
  BY MaxCountAssumption
  DEF DigestInit, DigestInv, DigestTypeOK, OnceInv, CountInv, HealInv,
      StaleNonceHealed

\* Every step preserves the invariant.
LEMMA DigestInvStep == DigestInv /\ [DigestNext]_digestVars => DigestInv'
<1> SUFFICES ASSUME DigestInv, [DigestNext]_digestVars
             PROVE  DigestInv'
  OBVIOUS
<1> USE MaxCountAssumption
<1>1. CASE Call
  <2>1. CASE nonce = "none"
    BY <1>1, <2>1 DEF Call, DigestInv, DigestTypeOK, OnceInv, CountInv,
                      HealInv, StaleNonceHealed
  <2>2. CASE nonce # "none"
    <3> DEFINE b == Bump(count)
    <3>1. /\ b \in 0..MaxCount /\ b > 0 /\ count <= b
          /\ count < b \/ b = MaxCount
      BY BumpBounds DEF DigestInv, DigestTypeOK
    <3>2. /\ count' = b /\ try' = 1 /\ executed' = 0 /\ drops' = 0
          /\ UNCHANGED <<password, nonce, seen>>
          /\ \/ request' = "idle" /\ outcome' = "error" /\ UNCHANGED auth
             \/ request' = "send" /\ auth' = b /\ UNCHANGED outcome
      BY <1>1, <2>2 DEF Call, Authorize, End
    <3> HIDE DEF b
    <3> QED  BY <3>1, <3>2 DEF DigestInv, DigestTypeOK, OnceInv, CountInv,
                               HealInv, StaleNonceHealed
  <2> QED  BY <2>1, <2>2
<1>2. CASE Accept
  BY <1>2 DEF Accept, Noted, End, DigestInv, DigestTypeOK, OnceInv, CountInv,
              HealInv, StaleNonceHealed
<1>3. CASE Refuse /\ Challenged
  <2> DEFINE b == Bump(0)
  <2>1. b = 1
    BY BumpBounds DEF Bump
  <2>2. /\ request = "send" /\ count' = b /\ try' = 2 /\ nonce' = "live"
        /\ seen' = 0 /\ drops' = 0 /\ UNCHANGED <<password, executed>>
        /\ \/ request' = "idle" /\ outcome' = "error" /\ UNCHANGED auth
           \/ request' = "send" /\ auth' = b /\ UNCHANGED outcome
    BY <1>3 DEF Refuse, Challenged, Authorize, End
  <2> HIDE DEF b
  <2> QED  BY <2>1, <2>2 DEF DigestInv, DigestTypeOK, OnceInv, CountInv,
                             HealInv, StaleNonceHealed
<1>4. CASE Refuse /\ Unauthorized
  BY <1>4 DEF Refuse, Unauthorized, Noted, End, Authorized, DigestInv,
              DigestTypeOK, OnceInv, CountInv, HealInv, StaleNonceHealed
<1>5. CASE Lost
  BY <1>5 DEF Lost, Noted, End, Authorized, DigestInv, DigestTypeOK, OnceInv,
              CountInv, HealInv, StaleNonceHealed
<1>6. CASE ExpireNonce
  BY <1>6 DEF ExpireNonce, DigestInv, DigestTypeOK, OnceInv, CountInv,
              HealInv, StaleNonceHealed
<1>7. CASE UNCHANGED digestVars
  BY <1>7 DEF digestVars, DigestInv, DigestTypeOK, OnceInv, CountInv, HealInv,
              StaleNonceHealed
<1> QED  BY <1>1, <1>2, <1>3, <1>4, <1>5, <1>6, <1>7 DEF DigestNext, Refuse

\* It holds in every state that the client reaches.
LEMMA DigestInvariance == DigestSpec => []DigestInv
<1>1. DigestInit => DigestInv
  BY DigestInvInit
<1>2. DigestInv /\ [DigestNext]_digestVars => DigestInv'
  BY DigestInvStep
<1> QED  BY <1>1, <1>2, PTL DEF DigestSpec

\* Every variable of the client and of the router's Digest state keeps its
\* type: the count never grows beyond its last value.
THEOREM ClientTypeCorrect == DigestSpec => []DigestTypeOK
<1>1. DigestInv => DigestTypeOK
  BY DEF DigestInv
<1> QED  BY <1>1, DigestInvariance, PTL

\* No request of a client repeats a nonce count that the router has seen.
THEOREM CountsAreFresh == DigestSpec => []NoReplay
<1>1. DigestInv => NoReplay
  BY DEF DigestInv, DigestTypeOK, CountInv, NoReplay
<1> QED  BY <1>1, DigestInvariance, PTL

\* The repetition after a 401 never executes an action twice.
THEOREM ActionsExecuteOnce == DigestSpec => []ExecutedAtMostOnce
<1>1. DigestInv => ExecutedAtMostOnce
  BY DEF DigestInv, OnceInv, ExecutedAtMostOnce
<1> QED  BY <1>1, DigestInvariance, PTL

\* A stale nonce costs one refusal and never the call.
THEOREM StaleNoncesHeal == DigestSpec => []StaleNonceHealed
<1>1. DigestInv => StaleNonceHealed
  BY DEF DigestInv, HealInv
<1> QED  BY <1>1, DigestInvariance, PTL

-----------------------------------------------------------------------------
(* The transport, for every set of certificate keys and configuration      *)

\* The program counters at which the request of this send is not written yet.
Unwritten == {"connect", "handshake", "write"}

\* A send writes in its last step but the reading, and a cancelled transport
\* begins no send.
WriteInv ==
  /\ written <= 1 /\ late <= 1
  /\ pc \in Unwritten => written = 0 /\ late = 0
  /\ late > 0 => cancelled

\* TLS is given up in one place only.
DownInv ==
  /\ plain => ~tlsEnabled
  /\ config.https /\ ~tlsEnabled =>
       config.fallback /\ down /\ warnings = 1 /\ ~config.custom

\* From the handshake on, the peer is the pinned one.
PinInv ==
  (pc = "write" \/ written > 0) /\ ~plain /\ ~config.insecure =>
    peer # NoPin /\ peer = pin

IInv == TypeOK /\ WriteInv /\ DownInv /\ PinInv

\* The invariant of the transport holds before the first send.
LEMMA IInvInit == Init => IInv
<1> SUFFICES ASSUME Init PROVE IInv
  OBVIOUS
<1>1. TypeOK
  BY DEF Init, TypeOK, Configs
<1>2. WriteInv
  BY DEF Init, WriteInv, Unwritten
<1>3. DownInv
  BY DEF Init, DownInv
<1>4. PinInv
  BY DEF Init, PinInv
<1> QED
  BY <1>1, <1>2, <1>3, <1>4 DEF IInv

\* What an error makes of a send: it ends, with TLS and the warnings as they
\* were, or it starts over on the plain port.
LEMMA FailsEffect ==
  ASSUME NEW phase \in Phases, NEW cause \in Causes, Fails(phase, cause)
  PROVE  \/ /\ pc' \in {"idle", "finish"}
            /\ result' \in {"error", "refused", "cancelled"}
            /\ tlsEnabled' = tlsEnabled /\ warnings' = warnings
            /\ plain' = plain
         \/ /\ phase = "connecting" /\ cause = "unreachable"
            /\ ~plain /\ config.fallback /\ ~config.custom
            /\ pc' = "connect" /\ result' = result
            /\ tlsEnabled' = FALSE /\ warnings' = 1
            /\ plain' = TRUE
<1>1. CASE ~plain /\ tlsAttempt /\ Unavailable(phase, cause)
  BY <1>1 DEF Fails, FallBack, Unavailable, Finish, Return, fallback
<1>2. CASE ~(~plain /\ tlsAttempt /\ Unavailable(phase, cause))
  BY <1>2 DEF Fails, Finish, fallback
<1> QED
  BY <1>1, <1>2

\* Every step preserves the invariant.
LEMMA IInvStep == IInv /\ [Next]_vars => IInv'
<1> SUFFICES ASSUME IInv, [Next]_vars
             PROVE  IInv'
  OBVIOUS
<1> USE KeysAssumption
<1> USE DEF IInv, TypeOK, WriteInv, DownInv, PinInv, Unwritten, store, fallback
<1>1. CASE Send
  BY <1>1 DEF Send, Return
<1>2. CASE Connect
  <2>1. CASE /\ pc' = IF plain THEN "write" ELSE "handshake"
             /\ UNCHANGED <<fallback, plain, result, down>>
    BY <1>2, <2>1 DEF Connect
  <2>2. ASSUME NEW cause \in Causes, Fails("connecting", cause),
               down' = (down \/ (~plain /\ cause = "unreachable"))
        PROVE  IInv'
    <3>1. CASE /\ pc' \in {"idle", "finish"}
               /\ result' \in {"error", "refused", "cancelled"}
               /\ tlsEnabled' = tlsEnabled /\ warnings' = warnings
               /\ plain' = plain
      BY <1>2, <2>2, <3>1 DEF Connect
    <3>2. CASE /\ cause = "unreachable" /\ ~plain
               /\ config.fallback /\ ~config.custom
               /\ pc' = "connect" /\ result' = result
               /\ tlsEnabled' = FALSE /\ warnings' = 1
               /\ plain' = TRUE
      BY <1>2, <2>2, <3>2 DEF Connect
    <3> QED
      BY <2>2, <3>1, <3>2, FailsEffect DEF Phases
  <2> QED
    BY <1>2, <2>1, <2>2 DEF Connect
<1>3. CASE Handshake
  <2>1. ASSUME NEW cause \in Causes, Fails("handshake", cause),
               peer' \in Keys \union {NoPin}, pin' = pin
        PROVE  IInv'
    BY <1>3, <2>1, FailsEffect DEF Handshake, Phases
  <2>2. ASSUME NEW k \in Keys, peer' = k, Verified(k), RecordPin(k)
        PROVE  IInv'
    <3>1. CASE Fails("handshake", "other") /\ UNCHANGED pin
      BY <1>3, <2>1, <2>2, <3>1 DEF Causes
    <3>2. CASE pc' = "write" /\ UNCHANGED <<fallback, plain, result>>
      <4>1. /\ pc = "handshake" /\ pc' = "write" /\ peer' = k
            /\ UNCHANGED <<config, loadError, tlsAttempt, cancelled, down,
                           written, late, fallback, plain, result>>
        BY <1>3, <2>2, <3>2 DEF Handshake
      <4>2. pin' \in Keys \union {NoPin} /\ (config.insecure \/ pin' = k)
        <5>1. CASE config.insecure \/ pin # NoPin
          BY <2>2, <5>1 DEF Verified, RecordPin
        <5>2. CASE ~(config.insecure \/ pin # NoPin)
          <6>1. CASE Fails("handshake", "other")
            BY <3>2, <6>1, FailsEffect DEF Phases, Causes
          <6>2. CASE pin' = k
            BY <6>2
          <6> QED
            BY <2>2, <5>2, <6>1, <6>2 DEF RecordPin
        <5> QED
          BY <5>1, <5>2
      <4> QED
        BY <4>1, <4>2
    <3> QED
      BY <2>2, <3>1, <3>2 DEF RecordPin
  <2> QED
    BY <1>3, <2>1, <2>2 DEF Handshake, Causes
<1>4. CASE WriteRequest
  <2>1. CASE pc' = "read" /\ UNCHANGED <<fallback, plain, result>>
    BY <1>4, <2>1 DEF WriteRequest
  <2>2. ASSUME NEW cause \in Causes, Fails("writing", cause)
        PROVE  IInv'
    BY <1>4, <2>2, FailsEffect DEF WriteRequest, Phases
  <2> QED
    BY <1>4, <2>1, <2>2 DEF WriteRequest
<1>5. CASE ReadResponse
  <2>1. CASE Finish("ok") /\ UNCHANGED <<fallback, plain>>
    BY <1>5, <2>1 DEF ReadResponse, Finish
  <2>2. ASSUME NEW cause \in Causes, Fails("reading", cause)
        PROVE  IInv'
    BY <1>5, <2>2, FailsEffect DEF ReadResponse, Phases
  <2> QED
    BY <1>5, <2>1, <2>2 DEF ReadResponse
<1>6. CASE FinishSend
  BY <1>6 DEF FinishSend, Return
<1>7. CASE Cancel
  BY <1>7 DEF Cancel
<1>8. CASE UNCHANGED vars
  BY <1>8 DEF vars
<1> QED
  BY <1>1, <1>2, <1>3, <1>4, <1>5, <1>6, <1>7, <1>8 DEF Next

\* It holds in every state that the transport reaches.
LEMMA Invariant == Spec => []IInv
  BY IInvInit, IInvStep, PTL DEF Spec

\* The variables of a transport keep their types: `send` and the signal
\* handler leave no state that the next request does not expect.
THEOREM TransportTypeCorrect == Spec => []TypeOK
<1>1. IInv => TypeOK
  BY DEF IInv
<1> QED
  BY <1>1, Invariant, PTL

\* The bytes of a request reach only a pinned TLS peer, whatever keys peers
\* present from one connection to the next.
THEOREM RequestsReachPinnedPeers == Spec => []PeerIsPinned
<1>1. IInv => PeerIsPinned
  BY DEF IInv, PinInv, PeerIsPinned
<1> QED
  BY <1>1, Invariant, PTL

\* One call of `send` writes its request once, over TLS or over HTTP.
THEOREM RequestsWrittenOnce == Spec => []WrittenOnce
<1>1. IInv => WrittenOnce
  BY DEF IInv, WriteInv, WrittenOnce
<1> QED
  BY <1>1, Invariant, PTL

\* An https request goes out in plain text only after the opt-in, the warning
\* and an unavailable TLS port; every later request keeps to it.
THEOREM PlainTextIsDeliberate == Spec => []PlainOnlyWhenDown
<1>1. IInv => PlainOnlyWhenDown
  BY DEF IInv, DownInv, PlainOnlyWhenDown
<1> QED
  BY <1>1, Invariant, PTL

\* After the signal at most the request whose send had begun goes out.
THEOREM CancellationStopsRequests == Spec => []LateRequestAtMostOne
<1>1. IInv => LateRequestAtMostOne
  BY DEF IInv, WriteInv, LateRequestAtMostOne
<1> QED
  BY <1>1, Invariant, PTL

\* TLS is not given up for a port that has no plain counterpart.
THEOREM TlsKeptOnCustomPorts == Spec => []NotGivenUpInVain
<1>1. IInv => NotGivenUpInVain
  BY DEF IInv, DownInv, TypeOK, NotGivenUpInVain
<1> QED
  BY <1>1, Invariant, PTL
=============================================================================
