----------------------------- MODULE Transport ----------------------------
(***************************************************************************)
(* One BlockingHttpTransport of crates/symfritz-tr064/src/transport.rs:    *)
(* `send` with its cancellation checks, the TLS endpoint, the certificate  *)
(* pin and the fall back to plain HTTP.  A transport sends one request at  *)
(* a time (`&mut self`); the signal handler sets the cancellation flag at  *)
(* any moment.  The pin store is the transport's own copy of PinStore's    *)
(* map, for the one host of the origin.                                    *)
(***************************************************************************)
EXTENDS Naturals

CONSTANTS Keys,     \* the certificate keys a peer may present
          NoPin

ASSUME KeysAssumption == NoPin \notin Keys

\* Where an I/O error happens, and what its message sounds like.
Phases == {"connecting", "handshake", "writing", "reading"}
Causes == {"unreachable", "tls", "other"}

Configs == [https : BOOLEAN,     \* use_tls: the scheme of the origin
            insecure : BOOLEAN,  \* insecure_tls
            fallback : BOOLEAN,  \* allow_http_fallback
            custom : BOOLEAN]    \* the port has no plain HTTP counterpart

VARIABLES
  config,
  tlsEnabled, \* self.tls_enabled
  loadError,  \* the pin file could not be read
  pin,        \* the recorded pin of this host
  pc,         \* idle, connect, handshake, write, read or finish
  tlsAttempt, \* tls_attempt of the running send
  plain,      \* the connection under way is plain HTTP
  peer,       \* the key its peer presented
  result,     \* what send returned, or is about to
  cancelled,  \* CANCEL_REQUESTED
  warnings,   \* history: how often the fallback warning was given
  down,       \* history: a TCP connection to the TLS port did not come up
  written,    \* history: how often this send wrote its request
  late        \* history: requests written after the cancellation

vars == <<config, tlsEnabled, loadError, pin, pc, tlsAttempt, plain, peer,
          result, cancelled, warnings, down, written, late>>
store == <<loadError, pin>>
fallback == <<tlsEnabled, warnings>>

TypeOK ==
  /\ config \in Configs
  /\ tlsEnabled \in BOOLEAN /\ tlsAttempt \in BOOLEAN /\ plain \in BOOLEAN
  /\ loadError \in BOOLEAN /\ cancelled \in BOOLEAN /\ down \in BOOLEAN
  /\ pin \in Keys \union {NoPin} /\ peer \in Keys \union {NoPin}
  /\ pc \in {"idle", "connect", "handshake", "write", "read", "finish"}
  /\ result \in {"none", "ok", "error", "refused", "cancelled"}
  /\ warnings \in {0, 1} /\ written \in Nat /\ late \in Nat

Init ==
  /\ config \in Configs
  /\ tlsEnabled = config.https
  /\ loadError \in BOOLEAN
  /\ pin \in IF loadError THEN {NoPin} ELSE Keys \union {NoPin}
  /\ pc = "idle" /\ tlsAttempt = FALSE /\ plain = FALSE /\ peer = NoPin
  /\ result = "none" /\ cancelled = FALSE
  /\ warnings = 0 /\ down = FALSE /\ written = 0 /\ late = 0

Finish(r) == pc' = "finish" /\ result' = r
Return(r) == pc' = "idle" /\ result' = r

-----------------------------------------------------------------------------
(* send                                                                    *)

SendUnchecked ==
  /\ pc = "idle"
  /\ tlsAttempt' = tlsEnabled
  /\ plain' = ~tlsEnabled
  /\ written' = 0 /\ peer' = NoPin
  /\ pc' = "connect"
  /\ UNCHANGED <<config, fallback, store, result, cancelled, down, late>>

\* A cancelled process sends nothing.  An HTTPS request is sent to the plain
\* port once TLS was given up.
Send ==
  /\ pc = "idle"
  /\ tlsAttempt' = tlsEnabled
  /\ plain' = ~tlsEnabled
  /\ written' = 0 /\ peer' = NoPin
  /\ IF cancelled
     THEN Return("cancelled")
     ELSE pc' = "connect" /\ UNCHANGED result
  /\ UNCHANGED <<config, fallback, store, cancelled, down, late>>

UnavailableAnyPhase(phase, cause) == cause = "unreachable"

UnavailableAnyCause(phase, cause) == phase \in {"connecting", "handshake"}

\* EndpointUnavailable: only an error of the TCP connection can be one, and
\* the wording of TLS and certificate errors wins over that of timeouts.
Unavailable(phase, cause) == phase = "connecting" /\ cause = "unreachable"

\* The TLS endpoint is not available.  The flag is checked again, the plain
\* port is found, the user is warned, and TLS is given up for good.
FallBack ==
  IF cancelled
  THEN Return("cancelled") /\ UNCHANGED <<fallback, plain>>
  ELSE IF config.custom
  THEN Return("error") /\ UNCHANGED <<fallback, plain>>
  ELSE /\ warnings' = 1      \* Once
       /\ tlsEnabled' = FALSE
       /\ plain' = TRUE /\ pc' = "connect" /\ UNCHANGED result

\* An error of `execute`, and what send makes of it.
Fails(phase, cause) ==
  IF ~plain /\ tlsAttempt /\ Unavailable(phase, cause)
  THEN IF config.fallback
       THEN FallBack
       ELSE Finish("refused") /\ UNCHANGED <<fallback, plain>>
  ELSE Finish("error") /\ UNCHANGED <<fallback, plain>>

\* The last look at the flag, before the response is handed out.
FinishSend ==
  /\ pc = "finish"
  /\ Return(IF cancelled THEN "cancelled" ELSE result)
  /\ UNCHANGED <<config, fallback, store, tlsAttempt, plain, peer, cancelled,
                 down, written, late>>

-----------------------------------------------------------------------------
(* execute                                                                 *)

Connect ==
  /\ pc = "connect"
  /\ \/ /\ pc' = IF plain THEN "write" ELSE "handshake"
        /\ UNCHANGED <<fallback, plain, result, down>>
     \/ \E cause \in Causes :
          /\ Fails("connecting", cause)
          /\ down' = (down \/ (~plain /\ cause = "unreachable"))
  /\ UNCHANGED <<config, store, tlsAttempt, peer, cancelled, written, late>>

\* verify_pin: a store that could not be loaded fits no certificate.
Verified(k) == config.insecure \/ (~loadError /\ pin \in {NoPin, k})

RecordPinBestEffort(k) ==
  IF config.insecure \/ pin # NoPin
  THEN pc' = "write" /\ UNCHANGED <<pin, fallback, plain, result>>
  ELSE /\ pc' = "write" /\ pin' \in {k, NoPin}
       /\ UNCHANGED <<fallback, plain, result>>

\* record_peer_pin, after the handshake: a first pin that cannot be saved
\* ends the request.
RecordPin(k) ==
  IF config.insecure \/ pin # NoPin
  THEN pc' = "write" /\ UNCHANGED <<pin, fallback, plain, result>>
  ELSE \/ pc' = "write" /\ pin' = k /\ UNCHANGED <<fallback, plain, result>>
       \/ Fails("handshake", "other") /\ UNCHANGED pin

\* The TLS handshake, which any I/O error or a wrong certificate ends.
Handshake ==
  /\ pc = "handshake"
  /\ \/ \E cause \in Causes :
          Fails("handshake", cause) /\ UNCHANGED <<pin, peer>>
     \/ \E k \in Keys :
          /\ peer' = k
          /\ IF Verified(k)
             THEN RecordPin(k)
             ELSE Fails("handshake", "tls") /\ UNCHANGED pin
  /\ UNCHANGED <<config, loadError, tlsAttempt, cancelled, down, written,
                 late>>

\* The router may have the request although writing it failed.
WriteRequest ==
  /\ pc = "write"
  /\ written' = written + 1
  /\ late' = IF cancelled THEN late + 1 ELSE late
  /\ \/ pc' = "read" /\ UNCHANGED <<fallback, plain, result>>
     \/ \E cause \in Causes : Fails("writing", cause)
  /\ UNCHANGED <<config, store, tlsAttempt, peer, cancelled, down>>

ReadResponse ==
  /\ pc = "read"
  /\ \/ Finish("ok") /\ UNCHANGED <<fallback, plain>>
     \/ \E cause \in Causes : Fails("reading", cause)
  /\ UNCHANGED <<config, store, tlsAttempt, peer, cancelled, down, written,
                 late>>

Cancel ==
  /\ ~cancelled
  /\ cancelled' = TRUE
  /\ UNCHANGED <<config, fallback, store, pc, tlsAttempt, plain, peer, result,
                 down, written, late>>

Next == \/ Send \/ Connect \/ Handshake \/ WriteRequest \/ ReadResponse
        \/ FinishSend \/ Cancel

Spec == Init /\ [][Next]_vars

-----------------------------------------------------------------------------
(* Properties                                                              *)

\* The bytes of a request reach a TLS peer only when its key is the pin that
\* the store holds, saved before the first byte on a first contact.
PeerIsPinned ==
  written > 0 /\ ~plain /\ ~config.insecure => peer # NoPin /\ peer = pin

\* A request is written once, although it may be tried over TLS and then
\* over HTTP: what send repeats never left this machine.  (A reboot or a
\* switch command would be executed twice.)
WrittenOnce == written <= 1

\* With an https origin, plain HTTP is used only when the user opted in, was
\* warned, and the TLS port had not answered; no TLS or certificate error
\* leads there, at whichever later request.
PlainOnlyWhenDown ==
  config.https /\ (plain \/ ~tlsEnabled) /\ pc # "idle" =>
    config.fallback /\ down /\ warnings = 1

\* TLS is given up only for a port that has a plain counterpart; otherwise
\* later requests would have nowhere to go although the endpoint came back.
NotGivenUpInVain == config.https /\ config.custom => tlsEnabled

\* After the cancellation at most the request whose send had begun is still
\* written: neither a Digest repetition nor a fallback follows.
LateRequestAtMostOne == late <= 1
=============================================================================
