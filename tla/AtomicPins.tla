---------------------------- MODULE AtomicPins ----------------------------
(***************************************************************************)
(* What the pin store promises its caller, without files: a register that  *)
(* holds one pin per host.  `committed` is the map the caller works with,  *)
(* `possible` the maps a restart may find.  An update that has not         *)
(* returned may or may not be found by a restart; once it has returned,    *)
(* nothing else is possible, except that a register which is not yet       *)
(* `founded` may be found as empty as it was.                              *)
(***************************************************************************)
CONSTANTS Hosts, Keys, NoPin,
          Broken            \* a store that refuses updates until it is reset

VARIABLES committed, possible, founded

vars == <<committed, possible, founded>>

PinMap == [Hosts -> Keys \union {NoPin}]
Empty  == [h \in Hosts |-> NoPin]

TypeOK ==
  /\ committed \in PinMap \union {Broken}
  /\ possible \subseteq PinMap \union {Broken}
  /\ founded \in BOOLEAN

Init ==
  /\ committed \in PinMap \union {Broken}
  /\ possible = {committed}
  /\ founded \in BOOLEAN /\ (~founded => committed = Empty)

\* All that a restart can find when an update to this map has returned.
Final(map) == {map} \union (IF founded THEN {} ELSE {Empty})

\* An update that is under way may already be what a restart finds.
Attempt(h, k) ==
  /\ committed # Broken
  /\ possible' = possible \union {[committed EXCEPT ![h] = k]}
  /\ UNCHANGED <<committed, founded>>

\* The update returns.
Record(h, k) ==
  /\ committed # Broken
  /\ committed' = [committed EXCEPT ![h] = k]
  /\ possible' = Final(committed')
  /\ UNCHANGED founded

\* A reset forgets the pin at once; the restart may still find it.
Drop(h) ==
  /\ committed # Broken
  /\ committed' = [committed EXCEPT ![h] = NoPin]
  /\ UNCHANGED <<possible, founded>>

Publish ==
  /\ committed # Broken
  /\ possible' = possible \union {committed}
  /\ UNCHANGED <<committed, founded>>

Settle ==
  /\ committed # Broken
  /\ possible' = Final(committed)
  /\ UNCHANGED <<committed, founded>>

\* A register that cannot be read, or whose reset could not be written,
\* refuses updates,
Break ==
  /\ committed' = Broken
  /\ UNCHANGED <<possible, founded>>

\* and only a reset makes it usable again.  It may lose any of the pins, but
\* it invents none.
Repair ==
  /\ committed = Broken
  /\ committed' \in PinMap
  /\ \A h \in Hosts :
       committed'[h] # NoPin =>
         \E map \in possible \intersect PinMap : map[h] = committed'[h]
  /\ UNCHANGED <<possible, founded>>

Found ==
  /\ ~founded /\ founded' = TRUE
  /\ possible' \in {possible, possible \ {Empty}}
  /\ UNCHANGED committed

Restart ==
  /\ possible' \in SUBSET possible
  /\ committed' \in possible'
  /\ founded' \in BOOLEAN
  /\ founded => founded'
  /\ founded' \/ Empty \in possible'

Next ==
  \/ \E h \in Hosts, k \in Keys : Attempt(h, k) \/ Record(h, k)
  \/ \E h \in Hosts : Drop(h)
  \/ Publish
  \/ Settle
  \/ Break
  \/ Repair
  \/ Found
  \/ Restart

Spec == Init /\ [][Next]_vars
=============================================================================
