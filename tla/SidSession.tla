---------------------------- MODULE SidSession ----------------------------
(***************************************************************************)
(* The session client of crates/symfritz-aha/src/lib.rs: the SID it caches *)
(* with the time of its login, and the calls that use it.  One client runs *)
(* one call at a time (`&mut self`); the router loses sessions, refuses    *)
(* the user and drops answers at any moment of a call.                     *)
(*                                                                         *)
(* The client only ever holds one SID, so a SID is what the router thinks  *)
(* of it.  `home` stands for every switchcmd of AHA, `cpu` for query.lua,  *)
(* `data` for data.lua and `mesh` for the mesh list.                       *)
(***************************************************************************)
EXTENDS Naturals

CONSTANT MaxTtl   \* bound: the longest lifetime, in steps of Tick

ASSUME MaxTtlAssumption == MaxTtl \in Nat

Kinds == {"home", "cpu", "data", "mesh"}

VARIABLES
  ttl,        \* sid_ttl; 0 disables the cache
  password,   \* of the configuration: "right", "wrong" or "blank"
  sid,        \* the cached SID: "none", or what the router thinks of it
  age,        \* time since its login, as far as ttl tells it apart
  pc,         \* where the running call waits
  kind, try,  \* the call, and which of its two requests is running
  own,        \* the mesh path came with a SID of its own
  denied,     \* the router refuses this user, whatever the session
  outcome,    \* how the last call ended
  executed,   \* history: how often the router executed the call
  rejected,   \* history: logins of the call that the router rejected
  relogged,   \* history: the call obtained a new session
  excuse      \* history: since then the router lost it, or denied the user

config == <<ttl, password>>
vars == <<config, sid, age, pc, kind, try, own, denied, outcome, executed,
          rejected, relogged, excuse>>
cache == <<sid, age>>
history == <<executed, rejected, relogged, excuse>>

TypeOK ==
  /\ ttl \in 0..MaxTtl /\ password \in {"right", "wrong", "blank"}
  /\ sid \in {"none", "live", "dead"}
  /\ age \in 0..ttl
  /\ pc \in {"idle", "path", "probe", "login", "send"}
  /\ kind \in Kinds /\ try \in {1, 2} /\ own \in BOOLEAN
  /\ denied \in BOOLEAN
  /\ outcome \in {"none", "ok", "error", "refused", "limited", "invalid"}
  /\ executed \in Nat /\ rejected \in Nat
  /\ relogged \in BOOLEAN /\ excuse \in BOOLEAN

Init ==
  /\ ttl \in 0..MaxTtl /\ password \in {"right", "wrong", "blank"}
  /\ sid = "none" /\ age = 0
  /\ pc = "idle" /\ kind \in Kinds /\ try = 1 /\ own = FALSE
  /\ denied \in BOOLEAN
  /\ outcome = "none"
  /\ executed = 0 /\ rejected = 0 /\ relogged = FALSE /\ excuse = FALSE

End(result) == pc' = "idle" /\ outcome' = result

-----------------------------------------------------------------------------
(* sid: the cached SID while it is fresh, or a login                       *)

Fresh == sid # "none" /\ age < ttl

\* The start of `sid`, when the cache holds s.
UseSid(s, fresh) ==
  IF fresh
  THEN pc' = "send" /\ sid' = s /\ UNCHANGED outcome
  ELSE /\ sid' = "none"
       /\ IF password = "blank"
          THEN End("error")
          ELSE pc' = "probe" /\ UNCHANGED outcome

CacheSid ==
  /\ sid' = "live" /\ age' = 0 /\ relogged' = TRUE /\ excuse' = denied
  /\ pc' = "send"
  /\ UNCHANGED outcome

\* login_sid.lua without credentials: no usable answer, a session at once,
\* or a challenge.
ProbeReply ==
  /\ pc = "probe"
  /\ \/ End("error") /\ UNCHANGED <<cache, relogged, excuse>>
     \/ CacheSid
     \/ pc' = "login" /\ UNCHANGED <<cache, outcome, relogged, excuse>>
  /\ UNCHANGED <<config, kind, try, own, denied, executed, rejected>>

LoginRejectedAgain ==
  /\ rejected' = rejected + 1
  /\ IF try = 1
     THEN try' = 2 /\ pc' = "probe" /\ UNCHANGED outcome
     ELSE End("invalid") /\ UNCHANGED try
  /\ UNCHANGED <<cache, relogged, excuse>>

\* A router that counts wrong passwords reports a block time.
LoginRejected ==
  /\ rejected' = rejected + 1
  /\ End("limited") \/ (End("invalid") /\ password = "wrong")
  /\ UNCHANGED <<cache, try, relogged, excuse>>

\* login_sid.lua with the response to the challenge.
LoginReply ==
  /\ pc = "login"
  /\ \/ End("error") /\ UNCHANGED <<cache, try, rejected, relogged, excuse>>
     \/ password = "right" /\ CacheSid /\ UNCHANGED <<try, rejected>>
     \/ LoginRejected
  /\ UNCHANGED <<config, kind, own, denied, executed>>

-----------------------------------------------------------------------------
(* The calls                                                               *)

\* mesh_topology asks TR-064 for a path first.
Call(k) ==
  /\ pc = "idle"
  /\ kind' = k /\ try' = 1 /\ own' = FALSE
  /\ IF k = "mesh"
     THEN pc' = "path" /\ UNCHANGED <<sid, outcome>>
     ELSE UseSid(sid, Fresh)
  /\ executed' = 0 /\ rejected' = 0 /\ relogged' = FALSE /\ excuse' = denied
  /\ UNCHANGED <<config, age, denied>>

\* The path has a SID or not, and is relative, which makes two candidates,
\* or absolute, which makes one, or belongs to neither origin.
MeshPath ==
  /\ pc = "path"
  /\ try' \in {1, 2}
  /\ \/ End("error") /\ UNCHANGED <<sid, own>>
     \/ own' = TRUE /\ pc' = "send" /\ UNCHANGED <<sid, outcome>>
     \/ UseSid(sid, Fresh) /\ UNCHANGED own
  /\ UNCHANGED <<config, age, kind, denied, history>>

\* mesh_topology goes on to its second candidate, everything else returns.
Fails(result) ==
  /\ IF kind = "mesh" /\ try = 1
     THEN try' = 2 /\ UNCHANGED <<pc, outcome>>
     ELSE End(result) /\ UNCHANGED try
  /\ UNCHANGED cache

\* The session is known and may do it.
Accepted ==
  /\ executed' = executed + 1
  /\ \/ End("ok") /\ UNCHANGED <<cache, try>>
     \/ Fails("error")      \* lost on the way back, or `inval`

RefusedRetried ==
  /\ IF kind \in {"home", "cpu"}
     THEN try' = 2 /\ UseSid("none", FALSE) /\ UNCHANGED age
     ELSE Fails("refused")
  /\ UNCHANGED executed

RefusedKept ==
  /\ IF kind \in {"home", "cpu"} /\ try = 1
     THEN try' = 2 /\ UseSid(sid, Fresh) /\ UNCHANGED age
     ELSE Fails("refused")
  /\ UNCHANGED executed

\* HTTP 403, or the login page of data.lua.  home and cpu forget the SID, log
\* in and send the request once more; the others report the refusal.
Refused ==
  /\ IF kind \in {"home", "cpu"} /\ try = 1
     THEN try' = 2 /\ UseSid("none", FALSE) /\ UNCHANGED age
     ELSE Fails("refused")
  /\ UNCHANGED executed

LostRetried ==
  \E done \in {0, 1} :
    /\ executed' = executed + done
    /\ IF try = 1
       THEN try' = 2 /\ UNCHANGED <<pc, outcome, cache>>
       ELSE End("error") /\ UNCHANGED <<try, cache>>

\* The transport fails; the router may have executed the request.
Lost ==
  \E done \in {0, 1} :
    /\ executed' = executed + done
    /\ Fails("error")

SendReply ==
  /\ pc = "send"
  /\ \/ (own \/ sid = "live") /\ ~denied /\ Accepted
     \/ (own \/ sid = "dead" \/ denied) /\ Refused
     \/ ~denied /\ (own \/ sid = "live") /\ Lost
     \/ Fails("error") /\ UNCHANGED executed
  /\ UNCHANGED <<config, kind, own, denied, rejected, relogged, excuse>>

\* invalidate_sid, by a caller between two calls.
InvalidateSid ==
  /\ pc = "idle" /\ sid # "none"
  /\ sid' = "none"
  /\ UNCHANGED <<config, age, pc, kind, try, own, denied, outcome, history>>

-----------------------------------------------------------------------------
(* The clock and the router                                                *)

Tick ==
  /\ sid # "none" /\ age < ttl
  /\ age' = age + 1
  /\ UNCHANGED <<config, sid, pc, kind, try, own, denied, outcome, history>>

LoseSession ==
  /\ sid = "live"
  /\ sid' = "dead"
  /\ excuse' = TRUE
  /\ UNCHANGED <<config, age, pc, kind, try, own, denied, outcome, executed,
                 rejected, relogged>>

Deny ==
  /\ denied' = ~denied
  /\ excuse' = TRUE
  /\ UNCHANGED <<config, cache, pc, kind, try, own, outcome, executed,
                 rejected, relogged>>

Reply == ProbeReply \/ LoginReply \/ MeshPath \/ SendReply

Next ==
  \/ \E k \in Kinds : Call(k)
  \/ Reply
  \/ InvalidateSid
  \/ Tick \/ LoseSession \/ Deny

Spec == Init /\ [][Next]_vars

\* Every request ends: the transport answers it or runs into its deadline.
FairSpec == Spec /\ WF_vars(Reply)

-----------------------------------------------------------------------------
(* Properties                                                              *)

\* A switch command is executed at most once per call, whatever is lost and
\* however the session ends: the one repetition is of a request that the
\* router refused.
ExecutedAtMostOnce == kind = "home" => executed <= 1

\* One lost session is healed: a home or cpu call that comes back refused
\* did log in anew, and the router lost that session too, or denies the user.
LostSessionHealed ==
  outcome = "refused" /\ pc = "idle" /\ kind \in {"home", "cpu"} =>
    relogged /\ excuse

\* A rejected password is not tried again within a call, although a call may
\* log in twice (the router answers with ever longer block times).
PasswordTriedOnce == rejected <= 1

\* Every call ends, even while the router refuses every session it grants.
CallEnds == pc # "idle" ~> pc = "idle"

=============================================================================
