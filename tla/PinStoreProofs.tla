-------------------------- MODULE PinStoreProofs --------------------------
(***************************************************************************)
(* Proofs about PinStore, for any number of stores, hosts and keys.        *)
(***************************************************************************)
EXTENDS PinStore, TLAPS

\* The shape of every value is kept by every operation, for any number of
\* stores: in particular an operation is running exactly in write_state.
LEMMA TypeCorrect == Spec => []TypeOK
<1>1. Init => TypeOK
  BY NoOpAssumption DEF Init, TypeOK, File, NoPins, PinMap, Writing
<1>2. TypeOK /\ [Next]_vars => TypeOK'
  <2> SUFFICES ASSUME TypeOK, [Next]_vars PROVE TypeOK'
    OBVIOUS
  <2> USE NoOpAssumption DEF TypeOK, Goto, Writing, disk
  <2>1. ASSUME NEW s \in Stores, Open(s) PROVE TypeOK'
    <3>1. LoadedPins(file) \in PinMap
      BY DEF LoadedPins, NoPins, PinMap
    <3>2. LoadFailed(file) \in BOOLEAN /\ NoPins \in PinMap
      BY DEF LoadFailed, NoPins, PinMap
    <3>3. QED
      BY <2>1, <3>1, <3>2 DEF Open
  <2>2. ASSUME NEW s \in Stores, NEW h \in Hosts, NEW k \in Keys,
               FirstContact(s, h, k)
        PROVE  TypeOK'
    <3>1. [pins[s] EXCEPT ![h] = k] \in PinMap
      BY DEF PinMap
    <3>2. QED
      BY <2>2, <3>1 DEF FirstContact, Op
  <2>3. ASSUME NEW s \in Stores, NEW h \in Hosts, Reset(s, h) PROVE TypeOK'
    <3>1. pins'[s] \in PinMap /\ pins' \in [Stores -> PinMap]
      BY <2>3 DEF Reset, PinMap
    <3>2. acked' \in [Hosts -> Keys \union {NoPin}]
      BY <2>3 DEF Reset
    <3>3. QED
      BY <2>3, <3>1, <3>2 DEF Reset, Op
  <2>4. ASSUME NEW s \in Stores, WriteTemp(s) PROVE TypeOK'
    BY <2>4 DEF WriteTemp
  <2>5. ASSUME NEW s \in Stores, SyncTemp(s) PROVE TypeOK'
    BY <2>5 DEF SyncTemp
  <2>6. ASSUME NEW s \in Stores, Rename(s) PROVE TypeOK'
    <3>1. op[s] \in Op /\ file' \in PinMap
      BY <2>6 DEF Rename, Op
    <3>2. QED
      BY <2>6, <3>1 DEF Rename, File
  <2>7. ASSUME NEW s \in Stores, Finish(s) PROVE TypeOK'
    <3>1. op[s] \in Op
      BY <2>7 DEF Finish
    <3>2. acked' \in [Hosts -> Keys \union {NoPin}]
      BY <2>7, <3>1 DEF Finish, Op, PinMap
    <3>3. QED
      BY <2>7, <3>1, <3>2 DEF Finish, Op, File
  <2>8. ASSUME NEW s \in Stores, Fail(s) PROVE TypeOK'
    BY <2>8 DEF Fail
  <2>9. ASSUME NEW s \in Stores, Close(s) PROVE TypeOK'
    BY <2>9 DEF Close, NoPins, PinMap
  <2>10. CASE PowerLoss
    BY <2>10 DEF PowerLoss, NoPins, PinMap, File
  <2>11. ASSUME NEW s \in Stores, MakeDirectory(s) PROVE TypeOK'
    BY <2>11 DEF MakeDirectory
  <2>12. CASE Writeback
    BY <2>12 DEF Writeback
  <2>13. CASE UNCHANGED vars
    BY <2>13 DEF vars
  <2>14. QED
    BY <2>1, <2>2, <2>3, <2>4, <2>5, <2>6, <2>7, <2>8, <2>9, <2>10, <2>11,
       <2>12, <2>13 DEF Next
<1>3. QED
  BY <1>1, <1>2, PTL DEF Spec

-----------------------------------------------------------------------------
(***************************************************************************)
(* NoTornFile and UnreadableKeptUntilReset for any number of stores.  The  *)
(* inductive invariant adds where a write can be: it renames only what it  *)
(* has synced, and every open store that meets an unreadable file either   *)
(* failed to load it or is resetting it.  No new directory holds one.      *)
(***************************************************************************)
FileInv ==
  /\ file \in survivors
  /\ Torn \notin survivors
  /\ file = Unreadable => survivors = {Unreadable}
  /\ Unreadable \in survivors => directory = "synced"
  /\ \A s \in Stores :
       /\ pc[s] = "rename" => temp[s] = "clean"
       /\ file = Unreadable =>
            /\ pc[s] = "idle" => loadError[s]
            /\ pc[s] \in Writing => op[s].kind = "reset"
            /\ pc[s] # "syncdir"

\* The invariant of the file holds before the first store is opened.
LEMMA FileInvInit == Init => FileInv
BY PinStoreAssumption DEF Init, FileInv, Writing

\* Every step of every store, and every power loss, keeps it.
LEMMA FileInvStep == TypeOK /\ FileInv /\ [Next]_vars => FileInv'
<1> SUFFICES ASSUME TypeOK, FileInv, [Next]_vars PROVE FileInv'
  OBVIOUS
<1> USE DEF TypeOK, FileInv, Goto, Writing, disk
<1>1. ASSUME NEW s \in Stores, Open(s) PROVE FileInv'
  <2>1. file = Unreadable => LoadFailed(file)
    BY PinStoreAssumption DEF LoadFailed
  <2>2. QED
    BY <1>1, <2>1 DEF Open
<1>2. ASSUME NEW s \in Stores, NEW h \in Hosts, NEW k \in Keys,
             FirstContact(s, h, k)
      PROVE  FileInv'
  BY <1>2 DEF FirstContact
<1>3. ASSUME NEW s \in Stores, NEW h \in Hosts, Reset(s, h) PROVE FileInv'
  BY <1>3 DEF Reset
<1>4. ASSUME NEW s \in Stores, WriteTemp(s) PROVE FileInv'
  BY <1>4 DEF WriteTemp
<1>5. ASSUME NEW s \in Stores, SyncTemp(s) PROVE FileInv'
  BY <1>5 DEF SyncTemp
<1>6. ASSUME NEW s \in Stores, Rename(s) PROVE FileInv'
  <2>1. file' \in PinMap /\ temp[s] = "clean"
    BY <1>6 DEF Rename, Op
  <2>2. file' # Unreadable /\ file' # Torn
    BY <2>1, PinStoreAssumption
  <2>3. survivors' = survivors \union {file'}
    BY <1>6, <2>1 DEF Rename
  <2>4. QED
    BY <1>6, <2>2, <2>3 DEF Rename
<1>7. ASSUME NEW s \in Stores, Finish(s) PROVE FileInv'
  <2>1. file # Unreadable /\ survivors' = {file}
    BY <1>7 DEF Finish
  <2>2. QED
    BY <1>7, <2>1 DEF Finish
<1>8. ASSUME NEW s \in Stores, Fail(s) PROVE FileInv'
  BY <1>8 DEF Fail
<1>9. ASSUME NEW s \in Stores, Close(s) PROVE FileInv'
  BY <1>9 DEF Close
<1>10. CASE PowerLoss
  BY <1>10, PinStoreAssumption DEF PowerLoss
<1>11. ASSUME NEW s \in Stores, MakeDirectory(s) PROVE FileInv'
  BY <1>11 DEF MakeDirectory
<1>12. CASE Writeback
  BY <1>12 DEF Writeback
<1>13. CASE UNCHANGED vars
  BY <1>13 DEF vars
<1>14. QED
  BY <1>1, <1>2, <1>3, <1>4, <1>5, <1>6, <1>7, <1>8, <1>9, <1>10, <1>11,
     <1>12, <1>13 DEF Next

\* However many stores of however many processes write over one file, and
\* wherever they crash, no file is ever left without its data.
THEOREM NeverTorn == Spec => []NoTornFile
<1>1. FileInv => NoTornFile
  BY DEF FileInv, NoTornFile
<1>2. QED
  BY <1>1, FileInvInit, FileInvStep, TypeCorrect, PTL DEF Spec

\* However many stores there are, the bytes of a file that could not be read
\* are replaced only by the rename of a reset.
THEOREM UnreadableKept == Spec => UnreadableKeptUntilReset
<1>1. ASSUME TypeOK, FileInv, [Next]_vars
      PROVE  [file = Unreadable /\ file' # file =>
                \E s \in Stores : pc[s] = "rename" /\ op[s].kind = "reset"]_vars
  <2>1. ASSUME Next, file = Unreadable, file' # file
        PROVE  \E s \in Stores : pc[s] = "rename" /\ op[s].kind = "reset"
    <3>1. ~PowerLoss
      BY <2>1, <1>1 DEF PowerLoss, FileInv
    <3>2. PICK s \in Stores : Rename(s)
      BY <2>1, <3>1 DEF Next, Open, FirstContact, Reset, MakeDirectory,
                        WriteTemp, SyncTemp, Finish, Fail, Close, Writeback,
                        disk
    <3>3. pc[s] = "rename" /\ op[s].kind = "reset"
      BY <1>1, <2>1, <3>2 DEF Rename, FileInv, Writing
    <3>4. QED
      BY <3>3
  <2>2. QED
    BY <1>1, <2>1
<1>2. QED
  BY <1>1, FileInvInit, FileInvStep, TypeCorrect, PTL
     DEF Spec, UnreadableKeptUntilReset

-----------------------------------------------------------------------------
(***************************************************************************)
(* One store at a time over the file.  It holds every acknowledged pin in  *)
(* memory, unless it refuses connections and knows nothing of that host.   *)
(***************************************************************************)
AckedInv(s) ==
  /\ pc[s] = "syncdir" => file = op[s].next
  /\ pc[s] \in Writing => ~loadError[s]
  /\ \A h \in Hosts : acked[h] # NoPin =>
       /\ \A f \in survivors : f \in PinMap /\ f[h] = acked[h]
       /\ pc[s] # "closed" =>
            pins[s][h] = acked[h] \/ (loadError[s] /\ pins[s][h] = NoPin)
       /\ pc[s] \in Writing => op[s].next[h] = acked[h]

\* Nothing is acknowledged at first.
LEMMA AckedInvInit == ASSUME NEW s \in Stores PROVE Init => AckedInv(s)
BY DEF Init, AckedInv, NoPins, Writing

\* Every step of the one store keeps what it has acknowledged.
LEMMA AckedInvStep ==
  ASSUME NEW s \in Stores, Stores = {s}, TypeOK, FileInv, AckedInv(s),
         [Next]_vars
  PROVE  AckedInv(s)'
<1> USE DEF TypeOK, AckedInv, Goto, Writing, disk
<1>1. CASE Open(s)
  <2>1. ASSUME NEW h \in Hosts, acked[h] # NoPin
        PROVE  LoadedPins(file)[h] = acked[h] /\ NoPins[h] = NoPin
    BY <2>1 DEF FileInv, LoadedPins, NoPins
  <2>2. QED
    BY <1>1, <2>1 DEF Open
<1>2. ASSUME NEW h \in Hosts, NEW k \in Keys, FirstContact(s, h, k)
      PROVE  AckedInv(s)'
  <2>1. /\ op'[s].next = [pins[s] EXCEPT ![h] = k]
        /\ pins[s][h] = NoPin
        /\ pc'[s] = "mkdir" /\ ~loadError[s]
        /\ UNCHANGED <<survivors, pins, loadError, acked>>
    BY <1>2 DEF FirstContact
  <2>2. acked[h] = NoPin
    BY <1>2, <2>1 DEF FirstContact
  <2>3. ASSUME NEW g \in Hosts, acked[g] # NoPin
        PROVE  op'[s].next[g] = pins[s][g] /\ pins[s][g] = acked[g]
    BY <1>2, <2>1, <2>2, <2>3 DEF FirstContact, PinMap
  <2>4. QED
    BY <2>1, <2>3
<1>3. ASSUME NEW h \in Hosts, Reset(s, h) PROVE AckedInv(s)'
  <2>1. /\ pins'[s] = [pins[s] EXCEPT ![h] = NoPin]
        /\ op'[s].next = pins'[s]
        /\ pc[s] = "idle" /\ pc'[s] = "mkdir" /\ ~loadError'[s]
        /\ UNCHANGED survivors
    BY <1>3 DEF Reset
  <2>2. ASSUME NEW g \in Hosts, acked'[g] # NoPin
        PROVE  /\ acked[g] = acked'[g]
               /\ pins'[s][g] = pins[s][g] /\ pins[s][g] = acked[g]
    <3>1. acked'[g] = acked[g] /\ ~GivesUp(s, h, g)
      BY <1>3, <2>2 DEF Reset
    <3>2. QED
      BY <2>1, <2>2, <3>1 DEF GivesUp, PinMap
  <2>3. QED
    BY <2>1, <2>2
<1>4. CASE WriteTemp(s)
  BY <1>4 DEF WriteTemp
<1>5. CASE SyncTemp(s)
  BY <1>5 DEF SyncTemp
<1>6. CASE Rename(s)
  <2>1. survivors' = survivors \union {op[s].next} /\ op[s].next \in PinMap
    BY <1>6 DEF Rename, FileInv, Op
  <2>2. QED
    BY <1>6, <2>1 DEF Rename
<1>7. CASE Finish(s)
  <2>1. /\ survivors' = {op[s].next}
        /\ op[s] \in Op
        /\ pins'[s] = op[s].next
        /\ pc'[s] = "idle"
    BY <1>7 DEF Finish, FileInv
  <2>2. ASSUME NEW h \in Hosts, acked'[h] # NoPin
        PROVE  op[s].next[h] = acked'[h]
    <3>1. CASE op[s].kind = "set" /\ h = op[s].host
      BY <1>7, <2>1, <3>1 DEF Finish
    <3>2. CASE ~(op[s].kind = "set" /\ h = op[s].host)
      <4>1. acked'[h] = acked[h]
        BY <1>7, <2>1, <3>2 DEF Finish, Op
      <4>2. QED
        BY <1>7, <2>2, <4>1 DEF Finish
    <3>3. QED
      BY <3>1, <3>2
  <2>3. QED
    BY <2>1, <2>2 DEF Op
<1>8. CASE Fail(s)
  BY <1>8 DEF Fail
<1>9. CASE Close(s)
  BY <1>9 DEF Close
<1>10. CASE PowerLoss
  BY <1>10 DEF PowerLoss, NoPins
<1>11. CASE MakeDirectory(s) \/ Writeback
  BY <1>11 DEF MakeDirectory, Writeback
<1>12. CASE UNCHANGED vars
  BY <1>12 DEF vars
<1>13. QED
  BY <1>1, <1>2, <1>3, <1>4, <1>5, <1>6, <1>7, <1>8, <1>9, <1>10, <1>11, <1>12
     DEF Next

\* With one store over the file, for any number of hosts and keys: a pin
\* whose set returned Ok is in every file that a crash at any point can leave,
\* until it is given up by a reset of its host, by a reset in a store that
\* could not read the file, or with a new directory that a power loss takes.
THEOREM AckedSurvives ==
  ASSUME NEW s \in Stores, Stores = {s}
  PROVE  Spec => []AckedPinSurvives
<1>1. AckedInv(s) => AckedPinSurvives
  BY DEF AckedInv, AckedPinSurvives
<1>2. TypeOK /\ FileInv /\ AckedInv(s) /\ [Next]_vars => AckedInv(s)'
  BY AckedInvStep
<1>3. Init => AckedInv(s)
  BY AckedInvInit
<1>4. QED
  BY <1>1, <1>2, <1>3, FileInvInit, FileInvStep, TypeCorrect, PTL DEF Spec

\* With one store over the file, for any number of hosts and keys: a recorded
\* key is what every usable store holds later connections to, across failed
\* reads and writes, restarts and power losses.  It is never replaced by
\* another, and only what AckedPinSurvives names gives it up.
THEOREM RecordedKeysStable ==
  ASSUME NEW s \in Stores, Stores = {s}
  PROVE  Spec => RecordedKeyStable
<1> DEFINE kept(h) == acked'[h] = acked[h] \/ (acked'[h] = NoPin /\ Forgets(h))
           held(h) == \A r \in Stores :
                        pc[r] # "closed" /\ ~loadError[r] => pins[r][h] = acked[h]
<1>1. ASSUME TypeOK, AckedInv(s), [Next]_vars PROVE [KeyKept]_vars
  <2>1. ASSUME Next PROVE KeyKept
    <3> SUFFICES ASSUME NEW h \in Hosts, acked[h] # NoPin
                 PROVE  kept(h) /\ held(h)
      BY DEF KeyKept
    <3>1. held(h)
      BY <1>1 DEF AckedInv
    <3>2. CASE UNCHANGED acked
      BY <3>1, <3>2
    <3>3. ASSUME NEW g \in Hosts, Reset(s, g) PROVE kept(h)
      <4>1. /\ acked'[h] = IF GivesUp(s, g, h) THEN NoPin ELSE acked[h]
            /\ pc[s] = "idle"
            /\ pc' = [pc EXCEPT ![s] = "mkdir"]
            /\ op' = [op EXCEPT ![s] = [kind |-> "reset", host |-> g,
                                        next |-> pins'[s]]]
        BY <3>3 DEF Reset, Goto
      <4>2. pc'[s] = "mkdir" /\ op'[s].kind = "reset" /\ op'[s].host = g
        BY <1>1, <4>1 DEF TypeOK
      <4> QED
        BY <4>1, <4>2 DEF Forgets
    <3>4. CASE Finish(s)
      \* What is written for a host with a recorded key is that key.
      <4>1. pc[s] \in Writing /\ op[s].next[h] = acked[h]
        BY <1>1, <3>4 DEF Finish, Writing, AckedInv
      <4>2. op[s] \in Op
        BY <1>1, <4>1 DEF TypeOK
      <4>3. \/ acked' = [acked EXCEPT ![op[s].host] = op[s].next[op[s].host]]
            \/ acked' = acked
        BY <3>4 DEF Finish
      <4> QED
        BY <1>1, <3>1, <4>1, <4>2, <4>3 DEF TypeOK, Op
    <3>5. CASE PowerLoss
      BY <3>1, <3>5 DEF PowerLoss, NoPins, Forgets
    <3> QED
      BY <2>1, <3>1, <3>2, <3>3, <3>4, <3>5
      DEF Next, Open, FirstContact, MakeDirectory, WriteTemp, SyncTemp, Rename,
          Fail, Close, Writeback
  <2> QED
    BY <1>1, <2>1
<1>2. TypeOK /\ FileInv /\ AckedInv(s) /\ [Next]_vars => AckedInv(s)'
  BY AckedInvStep
<1>3. Init => AckedInv(s)
  BY AckedInvInit
<1> QED
  BY <1>1, <1>2, <1>3, FileInvInit, FileInvStep, TypeCorrect, PTL
  DEF Spec, RecordedKeyStable

-----------------------------------------------------------------------------
(***************************************************************************)
(* The one store implements the register AtomicPins.                       *)
(***************************************************************************)

\* What a running operation writes, against the map in memory; and that map
\* holds no pin that no file holds.
OpInv(s) ==
  /\ pc[s] \in Writing =>
       /\ ~loadError[s]
       /\ op[s].kind = "reset" => op[s].next = pins[s]
       /\ op[s].kind = "set" => \E k \in Keys :
            op[s].next = [pins[s] EXCEPT ![op[s].host] = k]
       /\ pc[s] = "syncdir" => file = op[s].next
  /\ \A h \in Hosts : pc[s] # "closed" /\ pins[s][h] # NoPin =>
       \E f \in survivors \intersect PinMap : f[h] = pins[s][h]

\* Every step keeps what the running operation is about to write.
LEMMA OpInvStep ==
  ASSUME NEW s \in Stores, Stores = {s}, TypeOK, FileInv, OpInv(s),
         [Next]_vars
  PROVE  OpInv(s)'
<1> USE DEF TypeOK, OpInv, Goto, Writing, disk
<1>1. ASSUME NEW h \in Hosts, NEW k \in Keys, FirstContact(s, h, k)
      PROVE  OpInv(s)'
  <2>1. op'[s] = [kind |-> "set", host |-> h, next |-> [pins[s] EXCEPT ![h] = k]]
    BY <1>1 DEF FirstContact
  <2>2. QED
    BY <1>1, <2>1 DEF FirstContact
<1>2. ASSUME NEW h \in Hosts, Reset(s, h) PROVE OpInv(s)'
  <2>1. op'[s] = [kind |-> "reset", host |-> h, next |-> pins'[s]]
    BY <1>2 DEF Reset
  <2>2. \A g \in Hosts : pins'[s][g] \in {pins[s][g], NoPin}
    BY <1>2 DEF Reset, PinMap
  <2>3. /\ pc[s] = "idle" /\ pc'[s] = "mkdir" /\ ~loadError'[s]
        /\ UNCHANGED survivors
    BY <1>2 DEF Reset
  <2>4. QED
    BY <2>1, <2>2, <2>3
<1>3. CASE MakeDirectory(s) \/ WriteTemp(s) \/ SyncTemp(s) \/ Writeback
  <2>1. UNCHANGED <<file, survivors, pins, loadError, op>>
    BY <1>3 DEF MakeDirectory, WriteTemp, SyncTemp, Writeback
  <2>2. pc'[s] = pc[s] \/ (pc[s] \in Writing /\ pc'[s] \in Writing \ {"syncdir"})
    BY <1>3 DEF MakeDirectory, WriteTemp, SyncTemp, Writeback
  <2>3. QED
    BY <2>1, <2>2
<1>4. CASE Rename(s)
  <2>1. survivors \subseteq survivors'
    BY <1>4 DEF Rename
  <2>2. QED
    BY <1>4, <2>1 DEF Rename
<1>5. CASE Open(s)
  <2>1. \A h \in Hosts : NoPins[h] = NoPin
    BY DEF NoPins
  <2>2. file \in survivors
    BY DEF FileInv
  <2>3. /\ pins'[s] \in {LoadedPins(file), NoPins}
        /\ pc'[s] = "idle"
        /\ UNCHANGED survivors
    BY <1>5 DEF Open
  <2>4. QED
    BY <2>1, <2>2, <2>3 DEF LoadedPins
<1>6. CASE Finish(s)
  <2>1. op[s] \in Op /\ file = op[s].next /\ file \in survivors'
    BY <1>6 DEF Finish
  <2>2. pins'[s] = file /\ file \in PinMap /\ pc'[s] = "idle"
    BY <1>6, <2>1 DEF Finish, Op
  <2>3. QED
    BY <2>1, <2>2
<1>7. CASE Fail(s)
  BY <1>7 DEF Fail
<1>8. CASE Close(s) \/ PowerLoss
  BY <1>8 DEF Close, PowerLoss
<1>9. CASE UNCHANGED vars
  BY <1>9 DEF vars
<1>10. QED
  BY <1>1, <1>2, <1>3, <1>4, <1>5, <1>6, <1>7, <1>8, <1>9 DEF Next

\* A store begins as a register does.
LEMMA RegisterInit ==
  ASSUME NEW s \in Stores, Stores = {s} PROVE Init => Register!Init
<1> SUFFICES ASSUME Init PROVE Register!Init
  OBVIOUS
<1>1. TheStore = s
  BY DEF TheStore
<1>2. Committed = AsMap(file)
  BY <1>1 DEF Committed, Init
<1>3. AsMap(file) \in PinMap \union {Unreadable}
  BY DEF AsMap, LoadFailed, LoadedPins, NoPins, PinMap
<1>4. directory # "synced" => AsMap(file) = NoPins
  BY PinStoreAssumption DEF Init, AsMap, LoadFailed, LoadedPins
<1>5. Possible = {AsMap(file)}
  BY <1>4 DEF Possible, Init
<1>6. QED
  BY <1>2, <1>3, <1>4, <1>5
     DEF Register!Init, Register!PinMap, Register!Empty, PinMap, NoPins

\* Every step of the store is one of the register or changes nothing of it.
LEMMA RegisterStep ==
  ASSUME NEW s \in Stores, Stores = {s}, TypeOK, FileInv, OpInv(s),
         [Next]_vars
  PROVE  [Register!Next]_(Register!vars)
<1> DEFINE abstract == Register!Next \/ UNCHANGED Register!vars
           founded  == directory = "synced"
           empty    == IF founded THEN {} ELSE {NoPins}
<1> SUFFICES abstract
  OBVIOUS
<1>0. TheStore = s
  BY DEF TheStore
<1> USE DEF TypeOK, Goto, Writing, disk
<1>a. \A f \in PinMap : AsMap(f) = f
  BY DEF AsMap, LoadFailed, LoadedPins
<1>b. \A f \in File : AsMap(f) \in PinMap \union {Unreadable}
  BY DEF AsMap, LoadFailed, LoadedPins, NoPins, PinMap
<1>c. /\ Possible = {AsMap(f) : f \in survivors} \union empty
      /\ Register!Empty = NoPins /\ Register!PinMap = PinMap
      /\ \A map : Register!Final(map) = {map} \union empty
  BY DEF Possible, Register!Final, Register!Empty, Register!PinMap, NoPins, PinMap
<1>d. ASSUME survivors' = survivors, directory' = directory
      PROVE  Possible' = Possible
  BY <1>d DEF Possible, AsMap, LoadFailed, LoadedPins
<1>1. CASE Open(s)
  <2>1. Possible' = Possible /\ founded' = founded
    BY <1>1, <1>d DEF Open
  <2>2. CASE ~loadError'[s] \/ LoadFailed(file)
    <3>1. CASE pins' = [pins EXCEPT ![s] = LoadedPins(file)]
               /\ loadError' = [loadError EXCEPT ![s] = LoadFailed(file)]
      <4>1. Committed' = Committed
        BY <1>0, <1>1, <3>1 DEF Open, Committed, AsMap
      <4>2. QED
        BY <2>1, <4>1 DEF Register!vars
    <3>2. CASE loadError' = [loadError EXCEPT ![s] = TRUE]
      <4>1. Committed' = Unreadable /\ Committed = Unreadable
        BY <1>0, <1>1, <2>2, <3>2 DEF Open, Committed, AsMap
      <4>2. QED
        BY <2>1, <4>1 DEF Register!vars
    <3>3. QED
      BY <1>1, <3>1, <3>2 DEF Open
  <2>3. CASE loadError'[s] = TRUE
    <3>1. Committed' = Unreadable
      BY <1>0, <1>1, <2>3 DEF Open, Committed
    <3>2. Register!Break
      BY <2>1, <3>1 DEF Register!Break
    <3>3. QED
      BY <3>2 DEF Register!Next
  <2>4. QED
    BY <1>1, <2>2, <2>3 DEF Open
<1>2. ASSUME NEW h \in Hosts, NEW k \in Keys, FirstContact(s, h, k)
      PROVE  abstract
  <2>1. Committed' = Committed /\ Possible' = Possible /\ founded' = founded
    BY <1>0, <1>2, <1>d DEF FirstContact, Committed
  <2>2. QED
    BY <2>1 DEF Register!vars
<1>3. ASSUME NEW h \in Hosts, Reset(s, h) PROVE abstract
  <2>1. Possible' = Possible /\ founded' = founded
    BY <1>3, <1>d DEF Reset
  <2>2. Committed' = [pins[s] EXCEPT ![h] = NoPin]
    BY <1>0, <1>3 DEF Reset, Committed
  <2>3. CASE loadError[s]
    <3>1. Committed = Unreadable
      BY <1>0, <1>3, <2>3 DEF Reset, Committed
    <3>2. Committed' \in PinMap
      BY <2>2 DEF PinMap
    \* Each pin that is left was read from a file, and is in one still.
    <3>3. ASSUME NEW g \in Hosts, Committed'[g] # NoPin
          PROVE  \E map \in Possible \intersect PinMap : map[g] = Committed'[g]
      <4>1. Committed'[g] = pins[s][g] /\ pc[s] # "closed"
        BY <1>3, <2>2, <3>3 DEF Reset, PinMap
      <4>2. PICK f \in survivors \intersect PinMap : f[g] = pins[s][g]
        BY <3>3, <4>1 DEF OpInv
      <4>3. f \in Possible
        BY <1>a, <1>c, <4>2
      <4>4. QED
        BY <4>1, <4>2, <4>3
    <3>4. Register!Repair
      BY <1>c, <2>1, <3>1, <3>2, <3>3 DEF Register!Repair
    <3>5. QED
      BY <3>4 DEF Register!Next
  <2>4. CASE ~loadError[s]
    <3>1. Committed = pins[s] /\ Committed # Unreadable
      BY <1>0, <1>3, <2>4, PinStoreAssumption DEF Reset, Committed
    <3>2. Register!Drop(h)
      BY <2>1, <2>2, <3>1 DEF Register!Drop
    <3>3. QED
      BY <3>2 DEF Register!Next
  <2>5. QED
    BY <2>3, <2>4
<1>4. CASE MakeDirectory(s) \/ WriteTemp(s) \/ SyncTemp(s)
  <2>1. survivors' = survivors /\ founded' = founded
    BY <1>4 DEF MakeDirectory, WriteTemp, SyncTemp
  <2>2. Possible' = Possible
    BY <2>1 DEF Possible, AsMap, LoadFailed, LoadedPins
  <2>3. Committed' = Committed
    BY <1>0, <1>4 DEF MakeDirectory, WriteTemp, SyncTemp, Committed
  <2>4. QED
    BY <2>1, <2>2, <2>3 DEF Register!vars
<1>5. CASE Rename(s)
  <2>1. op[s] \in Op /\ op[s].next \in PinMap
    BY <1>5 DEF Rename, Op
  <2>2. survivors' = survivors \union {op[s].next}
    BY <1>5 DEF Rename, FileInv
  <2>3. Possible' = Possible \union {op[s].next} /\ founded' = founded
    <3>1. directory' = directory
      BY <1>5 DEF Rename
    <3>2. Possible' = {AsMap(f) : f \in survivors'} \union empty
      BY <3>1 DEF Possible, AsMap, LoadFailed, LoadedPins
    <3>3. QED
      BY <1>a, <1>c, <2>1, <2>2, <3>1, <3>2
  <2>4. /\ Committed = pins[s] /\ Committed' = Committed
        /\ Committed # Unreadable
    BY <1>0, <1>5, PinStoreAssumption DEF Rename, Committed, OpInv
  <2>5. CASE op[s].kind = "set"
    <3>1. PICK k \in Keys : op[s].next = [Committed EXCEPT ![op[s].host] = k]
      BY <1>5, <2>4, <2>5 DEF OpInv, Rename
    <3>2. Register!Attempt(op[s].host, k)
      BY <2>3, <2>4, <3>1 DEF Register!Attempt
    <3>3. QED
      BY <2>1, <3>2 DEF Register!Next, Op
  <2>6. CASE op[s].kind = "reset"
    <3>1. Register!Publish
      BY <1>5, <2>3, <2>4, <2>6 DEF OpInv, Rename, Register!Publish
    <3>2. QED
      BY <3>1 DEF Register!Next
  <2>7. QED
    BY <2>1, <2>5, <2>6 DEF Op
<1>6. CASE Finish(s)
  <2>1. op[s] \in Op /\ op[s].next \in PinMap /\ file = op[s].next
    BY <1>6 DEF Finish, Op, OpInv
  <2>2. survivors' = {op[s].next}
    BY <1>6, <2>1 DEF Finish, FileInv
  <2>3. Possible' = Register!Final(op[s].next) /\ founded' = founded
    <3>1. directory' = directory
      BY <1>6 DEF Finish
    <3>2. Possible' = {AsMap(f) : f \in survivors'} \union empty
      BY <3>1 DEF Possible, AsMap, LoadFailed, LoadedPins
    <3>3. QED
      BY <1>a, <1>c, <2>1, <2>2, <3>1, <3>2
  <2>4. /\ Committed = pins[s] /\ Committed # Unreadable
        /\ Committed' = op[s].next
    BY <1>0, <1>6, PinStoreAssumption DEF Finish, Committed, OpInv
  <2>5. CASE op[s].kind = "set"
    <3>1. PICK k \in Keys : op[s].next = [Committed EXCEPT ![op[s].host] = k]
      BY <1>6, <2>4, <2>5 DEF OpInv, Finish
    <3>2. Register!Record(op[s].host, k)
      BY <2>3, <2>4, <3>1 DEF Register!Record
    <3>3. QED
      BY <2>1, <3>2 DEF Register!Next, Op
  <2>6. CASE op[s].kind = "reset"
    <3>1. Register!Settle
      BY <1>6, <2>3, <2>4, <2>6 DEF OpInv, Finish, Register!Settle
    <3>2. QED
      BY <3>1 DEF Register!Next
  <2>7. QED
    BY <2>1, <2>5, <2>6 DEF Op
<1>7. CASE Fail(s)
  <2>1. Possible' = Possible /\ founded' = founded
    BY <1>7, <1>d DEF Fail
  <2>2. CASE op[s].kind = "reset"
    <3>1. Committed' = Unreadable
      BY <1>0, <1>7, <2>2 DEF Fail, Committed
    <3>2. QED
      BY <2>1, <3>1 DEF Register!Break, Register!Next
  <2>3. CASE op[s].kind # "reset"
    <3>1. Committed' = Committed
      BY <1>0, <1>7, <2>3 DEF Fail, Committed, OpInv
    <3>2. QED
      BY <2>1, <3>1 DEF Register!vars
  <2>4. QED
    BY <2>2, <2>3
<1>8. CASE Close(s)
  <2>1. /\ Possible' = Possible /\ founded' = founded
        /\ Committed' = AsMap(file)
    BY <1>0, <1>8, <1>d DEF Close, Committed, AsMap, LoadFailed, LoadedPins
  <2>2. AsMap(file) \in Possible
    BY <1>c DEF FileInv
  <2>3. founded \/ NoPins \in Possible
    BY <1>c
  <2>4. Register!Restart
    BY <1>c, <2>1, <2>2, <2>3 DEF Register!Restart
  <2>5. QED
    BY <2>4 DEF Register!Next
<1>9. CASE PowerLoss
  <2>1. Committed' = AsMap(file')
    BY <1>0, <1>9 DEF PowerLoss, Committed, AsMap, LoadFailed, LoadedPins
  <2>2. Possible' = {AsMap(file')} \union
                    (IF founded' THEN {} ELSE {NoPins})
    BY <1>9 DEF PowerLoss, Possible, AsMap, LoadFailed, LoadedPins
  <2>3. AsMap(Absent) = NoPins
    BY PinStoreAssumption DEF AsMap, LoadFailed, LoadedPins
  <2>4. /\ AsMap(file') \in Possible
        /\ founded' \in BOOLEAN /\ (founded => founded')
        /\ ~founded' => NoPins \in Possible
    <3>1. CASE file' \in survivors
               /\ directory' = IF directory = "missing" THEN "missing"
                               ELSE "synced"
      BY <1>c, <3>1
    <3>2. CASE directory = "unsynced" /\ file' = Absent
               /\ directory' = "missing"
      BY <1>c, <2>3, <3>2
    <3>3. QED
      BY <1>9, <3>1, <3>2 DEF PowerLoss
  <2>5. Register!Restart
    BY <1>c, <2>1, <2>2, <2>4 DEF Register!Restart
  <2>6. QED
    BY <2>5 DEF Register!Next
<1>10. CASE Writeback
  <2>1. Committed' = Committed
    BY <1>10 DEF Writeback, Committed, AsMap, LoadFailed, LoadedPins
  <2>2. ~founded /\ founded'
    BY <1>10 DEF Writeback
  <2>3. Possible' = {AsMap(f) : f \in survivors}
    BY <1>10 DEF Writeback, Possible, AsMap, LoadFailed, LoadedPins
  <2>4. Possible = Possible' \union {NoPins}
    BY <1>c, <2>2, <2>3
  <2>5. Possible' = Possible \/ Possible' = Possible \ {NoPins}
    BY <2>4
  <2>6. Register!Found
    BY <1>c, <2>1, <2>2, <2>5 DEF Register!Found
  <2>7. QED
    BY <2>6 DEF Register!Next
<1>11. CASE UNCHANGED vars
  <2>1. Committed' = Committed /\ Possible' = Possible /\ founded' = founded
    BY <1>11, <1>d DEF vars, Committed, AsMap, LoadFailed, LoadedPins
  <2>2. QED
    BY <2>1 DEF Register!vars
<1>12. QED
  BY <1>1, <1>2, <1>3, <1>4, <1>5, <1>6, <1>7, <1>8, <1>9, <1>10, <1>11 DEF Next

\* With one store over the file, for any number of hosts and keys, the file
\* protocol is the register: all or nothing at every crash point, final once
\* returned and the directory is on the disk, and refusing updates after a
\* failed read or a reset that could not be written, until a reset, which
\* invents no pins.
THEOREM StoreImplementsRegister ==
  ASSUME NEW s \in Stores, Stores = {s}
  PROVE  Spec => ImplementsRegister
<1>1. Init => OpInv(s)
  BY DEF Init, OpInv, Writing
<1>2. TypeOK /\ FileInv /\ OpInv(s) /\ [Next]_vars => OpInv(s)'
  BY OpInvStep
<1>3. Init => Register!Init
  BY RegisterInit
<1>4. TypeOK /\ FileInv /\ OpInv(s) /\ [Next]_vars
        => [Register!Next]_(Register!vars)
  BY RegisterStep
<1>5. QED
  BY <1>1, <1>2, <1>3, <1>4, FileInvInit, FileInvStep, TypeCorrect, PTL
     DEF Spec, ImplementsRegister, Register!Spec
=============================================================================
