--------------------------- MODULE DigestClient ---------------------------
(***************************************************************************)
(* HTTP Digest authentication of crates/symfritz-tr064/src/client.rs: the  *)
(* challenge a client caches, the nonce count it keeps for it, and the one *)
(* repetition after a 401.  call_inner (POST) and authenticated_get (GET)  *)
(* share the control that is modelled; a client runs one at a time.        *)
(*                                                                         *)
(* The client only uses the newest nonce it was given, so the router is    *)
(* what it knows of that one.  It is as strict as RFC 7616 allows: it      *)
(* refuses a nonce count that is not above every one it has seen.  It      *)
(* gives a fresh nonce with every challenge.                               *)
(***************************************************************************)
EXTENDS Naturals

CONSTANT MaxCount     \* u32::MAX

ASSUME MaxCountAssumption == MaxCount \in Nat \ {0}

VARIABLES
  password,   \* "right" or "wrong"
  nonce,      \* self.digest: "none", or what the router thinks of its nonce
  count,      \* CachedDigest.nonce_count
  seen,       \* the router: the highest count it has seen with that nonce
  request,    \* "idle", or "send" while a request is under way
  auth,       \* the count in its Authorization header, 0 without one
  try,        \* which of the two requests of the call it is
  outcome,    \* how the last call ended
  executed,   \* history: how often the router executed the action
  drops       \* history: the router dropped the nonce of this call

digestVars == <<password, nonce, count, seen, request, auth, try, outcome,
                executed, drops>>

DigestTypeOK ==
  /\ password \in {"right", "wrong"}
  /\ nonce \in {"none", "live", "dead"}
  /\ count \in 0..MaxCount /\ seen \in 0..MaxCount /\ auth \in 0..MaxCount
  /\ request \in {"idle", "send"}
  /\ try \in {1, 2}
  /\ outcome \in {"none", "ok", "fault", "refused", "error"}
  /\ executed \in Nat /\ drops \in {0, 1}

DigestInit ==
  /\ password \in {"right", "wrong"}
  /\ nonce = "none" /\ count = 0 /\ seen = 0
  /\ request = "idle" /\ auth = 0 /\ try = 1 /\ outcome = "none"
  /\ executed = 0 /\ drops = 0

End(result) == request' = "idle" /\ outcome' = result /\ UNCHANGED auth

-----------------------------------------------------------------------------
(* The client                                                              *)

Bump(n) == IF n < MaxCount THEN n + 1 ELSE n      \* saturating_add

AuthorizeUncounted(n) ==
  \/ End("error") /\ count' = n
  \/ request' = "send" /\ auth' = Bump(n) /\ count' = n /\ UNCHANGED outcome

\* cached_authorization, of a challenge used n times, and the request.  The
\* count is taken before the cnonce, which may not be had.
Authorize(n) ==
  /\ count' = Bump(n)
  /\ \/ End("error")
     \/ request' = "send" /\ auth' = Bump(n) /\ UNCHANGED outcome

Call ==
  /\ request = "idle"
  /\ try' = 1 /\ executed' = 0 /\ drops' = 0
  /\ IF nonce = "none"
     THEN request' = "send" /\ auth' = 0 /\ UNCHANGED <<count, outcome>>
     ELSE Authorize(count)
  /\ UNCHANGED <<password, nonce, seen>>

\* The router has seen the request.
Noted == seen' = IF auth > seen THEN auth ELSE seen

ChallengedKeeping ==
  /\ try = 1
  /\ try' = 2
  /\ nonce' = IF nonce = "none" THEN "live" ELSE nonce
  /\ seen' = IF nonce = "none" THEN 0 ELSE seen
  /\ drops' = 0
  /\ Authorize(count)

\* A first 401: its challenge replaces the cached one, with a count of its
\* own, and the request is sent again.
Challenged ==
  /\ try = 1
  /\ try' = 2
  /\ nonce' = "live" /\ seen' = 0 /\ drops' = 0
  /\ Authorize(0)

\* A 401 without a challenge, or the second one.  The cache stays.
Unauthorized ==
  /\ \/ try = 1 /\ End("error")
     \/ try = 2 /\ End("refused")
  /\ UNCHANGED <<nonce, count, try, drops>>
  /\ Noted

-----------------------------------------------------------------------------
(* The router                                                              *)

Authorized == password = "right" /\ nonce = "live" /\ auth > seen

\* Some actions need no credentials.
Accept ==
  /\ request = "send"
  /\ Authorized \/ auth = 0
  /\ executed' = executed + 1
  /\ Noted
  /\ \E result \in {"ok", "fault"} : End(result)
  /\ UNCHANGED <<password, nonce, count, try, drops>>

Refuse ==
  /\ request = "send"
  /\ ~Authorized
  /\ Challenged \/ Unauthorized
  /\ UNCHANGED <<password, executed>>

LostResent ==
  /\ request = "send"
  /\ \/ UNCHANGED <<seen, executed>>
     \/ /\ Noted
        /\ executed' = executed + (IF Authorized \/ auth = 0 THEN 1 ELSE 0)
  /\ IF try = 1
     THEN try' = 2 /\ Authorize(count)
     ELSE End("error") /\ UNCHANGED <<try, count>>
  /\ UNCHANGED <<password, nonce, drops>>

\* The transport fails, before or after the router had the request.
Lost ==
  /\ request = "send"
  /\ \/ UNCHANGED <<seen, executed>>
     \/ /\ Noted
        /\ executed' = executed + (IF Authorized \/ auth = 0 THEN 1 ELSE 0)
  /\ End("error")
  /\ UNCHANGED <<password, nonce, count, try, drops>>

ExpireNonce ==
  /\ nonce = "live"
  /\ nonce' = "dead" /\ drops' = 1
  /\ UNCHANGED <<password, count, seen, request, auth, try, outcome, executed>>

DigestNext == Call \/ Accept \/ Refuse \/ Lost \/ ExpireNonce

DigestSpec == DigestInit /\ [][DigestNext]_digestVars

-----------------------------------------------------------------------------
(* Properties                                                              *)

\* A request never repeats a nonce count the router has seen, whichever
\* requests before it were lost or never sent, until the 32-bit count is at
\* its end.
NoReplay ==
  request = "send" /\ nonce = "live" /\ 0 < auth /\ auth < MaxCount =>
    seen < auth

\* An action is executed at most once per call: the request that is sent
\* again is one that the router refused to execute.
ExecutedAtMostOnce == executed <= 1

\* A stale nonce, and a count at its end, are healed by the challenge that
\* comes with the refusal: with the right password a call is only refused
\* when the router dropped that new nonce too.
StaleNonceHealed ==
  request = "idle" /\ outcome = "refused" /\ password = "right" => drops = 1
=============================================================================
