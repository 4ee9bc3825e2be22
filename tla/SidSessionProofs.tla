------------------------- MODULE SidSessionProofs -------------------------
(***************************************************************************)
(* Proofs about SidSession, for every lifetime of a session.               *)
(***************************************************************************)
EXTENDS SidSession, TLAPS

\* Until a call ends nothing was executed for a switch command and no
\* password was rejected.
CountInv ==
  /\ rejected <= 1 /\ (pc # "idle" => rejected = 0)
  /\ kind = "home" => executed <= 1 /\ (pc # "idle" => executed = 0)

\* The repetition of a home or cpu call uses the session it logged in to.
HealInv ==
  /\ kind \in {"home", "cpu"} => own = FALSE
  /\ kind \in {"home", "cpu"} /\ pc = "send" /\ try = 2 =>
       relogged = TRUE /\ (excuse = TRUE \/ (sid = "live" /\ denied = FALSE))
  /\ kind \in {"home", "cpu"} => pc # "path"
  /\ LostSessionHealed

IInv == TypeOK /\ CountInv /\ HealInv

\* The invariant holds before the first call.
LEMMA IInvInit == Init => IInv
<1> SUFFICES ASSUME Init PROVE IInv
  OBVIOUS
<1> USE MaxTtlAssumption DEF Init
<1>1. ttl \in 0..MaxTtl /\ age \in 0..ttl /\ executed \in Nat /\ rejected \in Nat
  OBVIOUS
<1>2. TypeOK
  BY <1>1 DEF TypeOK, Kinds
<1>3. CountInv
  BY DEF CountInv
<1>4. HealInv
  BY DEF HealInv, LostSessionHealed
<1> QED
  BY <1>2, <1>3, <1>4 DEF IInv

\* Getting a session ends the call or goes on with it, and keeps the cache in
\* its types.
LEMMA UseSidEffect ==
  ASSUME NEW s, NEW fresh, UseSid(s, fresh)
  PROVE  \/ fresh /\ pc' = "send" /\ sid' = s /\ outcome' = outcome
         \/ sid' = "none" /\ pc' = "idle" /\ outcome' = "error"
         \/ sid' = "none" /\ pc' = "probe" /\ outcome' = outcome
  BY DEF UseSid, End

\* A call that fails ends, unless a mesh list has another candidate.
LEMMA FailsEffect ==
  ASSUME NEW result, Fails(result)
  PROVE  /\ UNCHANGED <<sid, age>>
         /\ \/ /\ kind = "mesh" /\ try = 1 /\ try' = 2
               /\ UNCHANGED <<pc, outcome>>
            \/ ~(kind = "mesh" /\ try = 1) /\ pc' = "idle" /\ outcome' = result
               /\ UNCHANGED try
  BY DEF Fails, End, cache

\* A session that was granted is cached with age zero.
LEMMA CacheSidEffect ==
  ASSUME CacheSid
  PROVE  /\ sid' = "live" /\ age' = 0 /\ pc' = "send"
         /\ outcome' = outcome /\ relogged' = TRUE /\ excuse' = denied
  BY DEF CacheSid

CacheOK == ttl \in 0..MaxTtl /\ sid \in {"none", "live", "dead"} /\ age \in 0..ttl

CallOK ==
  /\ pc \in {"idle", "path", "probe", "login", "send"}
  /\ kind \in Kinds /\ try \in {1, 2} /\ own \in BOOLEAN
  /\ outcome \in {"none", "ok", "error", "refused", "limited", "invalid"}

RestOK ==
  /\ password \in {"right", "wrong", "blank"}
  /\ denied \in BOOLEAN /\ relogged \in BOOLEAN /\ excuse \in BOOLEAN
  /\ executed \in Nat /\ rejected \in Nat

\* Every step keeps the types of the cached session.
LEMMA CacheStep == CacheOK /\ [Next]_vars => CacheOK'
<1> SUFFICES ASSUME CacheOK, [Next]_vars
             PROVE  CacheOK'
  OBVIOUS
<1> USE MaxTtlAssumption DEF config, cache, history
<1>1. CASE /\ ttl' = ttl /\ age' \in {age, 0}
           /\ sid' \in {sid, "none", "live", "dead"}
  BY <1>1 DEF CacheOK
<1>2. CASE Tick
  BY <1>2 DEF Tick, CacheOK
<1>3. CASE \E k \in Kinds : Call(k)
  BY <1>1, <1>3 DEF Call, UseSid
<1>4. CASE ProbeReply \/ LoginReply
  BY <1>1, <1>4 DEF ProbeReply, LoginReply, LoginRejected, CacheSid
<1>5. CASE MeshPath
  BY <1>1, <1>5 DEF MeshPath, UseSid
<1>6. CASE SendReply
  BY <1>1, <1>6, FailsEffect DEF SendReply, Accepted, Refused, Lost, UseSid
<1>7. CASE InvalidateSid \/ LoseSession \/ Deny \/ UNCHANGED vars
  BY <1>1, <1>7 DEF InvalidateSid, LoseSession, Deny, vars
<1> QED
  BY <1>2, <1>3, <1>4, <1>5, <1>6, <1>7 DEF Next, Reply

\* Every step keeps the types of the call under way.
LEMMA CallStep == CallOK /\ [Next]_vars => CallOK'
<1> SUFFICES ASSUME CallOK, [Next]_vars
             PROVE  CallOK'
  OBVIOUS
<1> USE DEF CallOK, config, cache, history, End
<1>1. CASE \E k \in Kinds : Call(k)
  BY <1>1 DEF Call, UseSid
<1>2. CASE ProbeReply
  BY <1>2, CacheSidEffect DEF ProbeReply
<1>3. CASE LoginReply
  BY <1>3, CacheSidEffect DEF LoginReply, LoginRejected
<1>4. CASE MeshPath
  BY <1>4 DEF MeshPath, UseSid
<1>5. CASE SendReply
  <2>1. CASE Refused
    BY <1>5, <2>1, FailsEffect DEF SendReply, Refused, UseSid
  <2>2. CASE Accepted \/ Lost \/ Fails("error")
    BY <1>5, <2>2, FailsEffect DEF SendReply, Accepted, Lost
  <2> QED
    BY <1>5, <2>1, <2>2 DEF SendReply
<1>6. CASE Tick \/ InvalidateSid \/ LoseSession \/ Deny \/ UNCHANGED vars
  BY <1>6 DEF Tick, InvalidateSid, LoseSession, Deny, vars
<1> QED
  BY <1>1, <1>2, <1>3, <1>4, <1>5, <1>6 DEF Next, Reply

\* Every step keeps the types of the rest.
LEMMA RestStep == RestOK /\ [Next]_vars => RestOK'
<1> SUFFICES ASSUME RestOK, [Next]_vars
             PROVE  RestOK'
  OBVIOUS
<1> USE DEF RestOK, config, cache, history
<1>1. CASE \E k \in Kinds : Call(k)
  <2>1. /\ executed' = 0 /\ rejected' = 0 /\ relogged' = FALSE
        /\ excuse' = denied /\ denied' = denied /\ password' = password
    BY <1>1 DEF Call
  <2> QED
    BY <2>1
<1>2. CASE ProbeReply
  BY <1>2, CacheSidEffect DEF ProbeReply
<1>3. CASE LoginReply
  <2>1. relogged' \in BOOLEAN /\ excuse' \in BOOLEAN
    BY <1>3, CacheSidEffect DEF LoginReply, LoginRejected
  <2>2. rejected' \in Nat
    BY <1>3 DEF LoginReply, LoginRejected
  <2> QED
    BY <1>3, <2>1, <2>2 DEF LoginReply
<1>4. CASE MeshPath
  BY <1>4 DEF MeshPath
<1>5. CASE SendReply
  <2>1. executed' = executed + 1 \/ executed' = executed + 0 \/ executed' = executed
    BY <1>5 DEF SendReply, Accepted, Refused, Lost
  <2> QED
    BY <1>5, <2>1 DEF SendReply
<1>6. CASE Tick \/ InvalidateSid \/ LoseSession \/ Deny \/ UNCHANGED vars
  BY <1>6 DEF Tick, InvalidateSid, LoseSession, Deny, vars
<1> QED
  BY <1>1, <1>2, <1>3, <1>4, <1>5, <1>6 DEF Next, Reply

\* Every step keeps the types.
LEMMA TypeStep == TypeOK /\ [Next]_vars => TypeOK'
<1> SUFFICES ASSUME TypeOK, [Next]_vars
             PROVE  TypeOK'
  OBVIOUS
<1>1. CacheOK /\ CallOK /\ RestOK
  BY DEF TypeOK, CacheOK, CallOK, RestOK
<1>2. CacheOK' /\ CallOK' /\ RestOK'
  BY <1>1, CacheStep, CallStep, RestStep
<1> QED
  BY <1>2 DEF TypeOK, CacheOK, CallOK, RestOK

\* Every step keeps a running command unexecuted and its password unrefused.
LEMMA CountStep == TypeOK /\ CountInv /\ [Next]_vars => CountInv'
<1> SUFFICES ASSUME TypeOK, CountInv, [Next]_vars
             PROVE  CountInv'
  OBVIOUS
<1> USE DEF CountInv, config, cache, history
<1>0. executed \in Nat /\ rejected \in Nat
  BY DEF TypeOK
<1>1. CASE \E k \in Kinds : Call(k)
  BY <1>1 DEF Call
<1>2. CASE ProbeReply
  BY <1>2 DEF ProbeReply
<1>3. CASE LoginReply
  BY <1>0, <1>3 DEF LoginReply, LoginRejected, CacheSid, End
<1>4. CASE MeshPath
  BY <1>4 DEF MeshPath
<1>5. CASE SendReply
  <2>0. pc = "send" /\ kind' = kind /\ rejected' = rejected
    BY <1>5 DEF SendReply
  <2>1. CASE executed' = executed
    BY <1>0, <2>0, <2>1
  <2>2. CASE /\ executed' = executed + 1 \/ executed' = executed + 0
             /\ Fails("error") \/ End("ok")
    <3>1. kind = "home" => pc' = "idle"
      BY <2>2, FailsEffect DEF End
    <3> QED
      BY <1>0, <2>0, <2>2, <3>1
  <2> QED
    BY <1>5, <2>1, <2>2 DEF SendReply, Accepted, Refused, Lost
<1>6. CASE Tick
  BY <1>6 DEF Tick
<1>7. CASE InvalidateSid \/ LoseSession \/ Deny \/ UNCHANGED vars
  BY <1>7 DEF InvalidateSid, LoseSession, Deny, vars
<1> QED
  BY <1>1, <1>2, <1>3, <1>4, <1>5, <1>6, <1>7 DEF Next, Reply

\* Every step keeps the repetition of a call on a session of its own login.
LEMMA HealStep == TypeOK /\ HealInv /\ [Next]_vars => HealInv'
<1> SUFFICES ASSUME TypeOK, HealInv, [Next]_vars
             PROVE  HealInv'
  OBVIOUS
<1> USE DEF HealInv, LostSessionHealed, config, cache, history
<1>1. CASE \E k \in Kinds : Call(k)
  BY <1>1, UseSidEffect DEF Call, Fresh, TypeOK
<1>2. CASE ProbeReply
  BY <1>2, CacheSidEffect DEF ProbeReply, End, TypeOK
<1>3. CASE LoginReply
  BY <1>3, CacheSidEffect DEF LoginReply, LoginRejected, End, TypeOK
<1>4. CASE MeshPath
  BY <1>4, UseSidEffect DEF MeshPath
<1>5. CASE SendReply
  <2>0. pc = "send" /\ UNCHANGED <<kind, own, denied, relogged, excuse>>
    BY <1>5 DEF SendReply
  <2>1. CASE Fails("error")
    BY <2>0, <2>1, FailsEffect
  <2>2. CASE End("ok") /\ UNCHANGED <<cache, try>>
    BY <2>0, <2>2 DEF End
  <2>3. CASE (own \/ sid = "dead" \/ denied) /\ Refused
    <3>1. CASE Fails("refused") /\ ~(kind \in {"home", "cpu"} /\ try = 1)
      BY <2>0, <2>3, <3>1, FailsEffect DEF TypeOK
    <3>2. CASE kind \in {"home", "cpu"} /\ try' = 2 /\ UseSid("none", FALSE)
      BY <2>0, <3>2, UseSidEffect
    <3> QED
      BY <2>3, <3>1, <3>2 DEF Refused
  <2> QED
    BY <1>5, <2>1, <2>2, <2>3 DEF SendReply, Accepted, Lost
<1>6. CASE Tick
  BY <1>6 DEF Tick
<1>7. CASE InvalidateSid \/ LoseSession \/ Deny \/ UNCHANGED vars
  BY <1>7 DEF InvalidateSid, LoseSession, Deny, vars, TypeOK
<1> QED
  BY <1>1, <1>2, <1>3, <1>4, <1>5, <1>6, <1>7 DEF Next, Reply

\* The invariant of the session client.
LEMMA Invariant == Spec => []IInv
<1>1. IInv /\ [Next]_vars => IInv'
  BY TypeStep, CountStep, HealStep DEF IInv
<1> QED
  BY <1>1, IInvInit, PTL DEF Spec

\* The session client keeps its types; the age of a SID stops at its lifetime.
THEOREM SessionTypeCorrect == Spec => []TypeOK
<1>1. IInv => TypeOK
  BY DEF IInv
<1> QED
  BY <1>1, Invariant, PTL

\* A switch command is executed once per call, whatever the router loses.
THEOREM SwitchesExecuteOnce == Spec => []ExecutedAtMostOnce
<1>1. IInv => ExecutedAtMostOnce
  BY DEF IInv, CountInv, ExecutedAtMostOnce
<1> QED
  BY <1>1, Invariant, PTL

\* A home or cpu call is refused only after a login of its own whose session
\* was lost too, or for a user that is denied.
THEOREM LostSessionsHeal == Spec => []LostSessionHealed
<1>1. IInv => LostSessionHealed
  BY DEF IInv, HealInv
<1> QED
  BY <1>1, Invariant, PTL

\* No call has a password rejected twice.
THEOREM PasswordsTriedOnce == Spec => []PasswordTriedOnce
<1>1. IInv => PasswordTriedOnce
  BY DEF IInv, CountInv, PasswordTriedOnce
<1> QED
  BY <1>1, Invariant, PTL
=============================================================================
