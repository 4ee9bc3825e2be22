----------------------------- MODULE PinStore -----------------------------
(***************************************************************************)
(* The persistent certificate pins of crates/symfritz-core/src/pins.rs and *)
(* the two places of crates/symfritz-tr064/src/transport.rs that use them. *)
(*                                                                         *)
(* A store is one value of the Rust type PinStore: the map it read when it *)
(* was opened, behind a mutex, over the one file of the user.  A process   *)
(* has as many stores as it has transports, and processes share the file.  *)
(* An operation holds the mutex while it replaces the whole file through a *)
(* temporary one, so a store runs one operation at a time, and different   *)
(* stores interleave at every file-system call.                            *)
(*                                                                         *)
(* Unix is modelled: the replacement is one rename.  The file that a power *)
(* loss leaves behind is any member of `survivors`, or none if it takes a  *)
(* directory that was made with the file and whose own entry nobody syncs. *)
(***************************************************************************)
CONSTANTS Stores,       \* PinStore values, of one or of several processes
          Hosts,        \* pin keys (the router hosts)
          Keys,         \* SPKI pins a router can present
          NoPin,        \* host has no entry in a map
          Absent,       \* the file does not exist
          Unreadable,   \* the user's file cannot be parsed, or read at all
          Torn,         \* a file whose data never reached the disk
          NoOp          \* no operation is running

PinMap == [Hosts -> Keys \union {NoPin}]
NoPins == [h \in Hosts |-> NoPin]
File   == PinMap \union {Absent, Unreadable, Torn}

ASSUME PinStoreAssumption ==
  /\ NoPin \notin Keys
  /\ Absent \notin PinMap /\ Unreadable \notin PinMap /\ Torn \notin PinMap
  /\ Absent # Unreadable /\ Absent # Torn /\ Unreadable # Torn

Op == [kind : {"set", "reset"}, host : Hosts, next : PinMap]

ASSUME NoOpAssumption == NoOp \notin Op

VARIABLES
  file,         \* what a reader of pins.json sees
  survivors,    \* what it may see after a power loss, in its directory
  directory,    \* that of the file: its own entry in its parent
  pc,           \* where each store is: closed, idle, or in write_state
  pins,         \* State.pins of each store
  loadError,    \* State.load_error of each store is set
  op,           \* the running operation and the map it writes
  temp,         \* the store's temporary file
  acked         \* history: the last pin whose set returned Ok, until it is
                \* given up

vars == <<file, survivors, directory, pc, pins, loadError, op, temp, acked>>
disk == <<file, survivors, directory>>

Writing == {"mkdir", "write", "sync", "rename", "syncdir"}

TypeOK ==
  /\ file \in File
  /\ survivors \subseteq File
  /\ directory \in {"missing", "unsynced", "synced"}
  /\ pc \in [Stores -> {"closed", "idle"} \union Writing]
  /\ pins \in [Stores -> PinMap]
  /\ loadError \in [Stores -> BOOLEAN]
  /\ op \in [Stores -> Op \union {NoOp}]
  /\ temp \in [Stores -> {"none", "dirty", "clean"}]
  /\ acked \in [Hosts -> Keys \union {NoPin}]
  /\ \A s \in Stores : pc[s] \in Writing <=> op[s] \in Op

\* A file that is there has been there for long; without one the directory
\* may be new, since the configuration is in it as well.
Init ==
  /\ file \in PinMap \union {Absent, Unreadable}
  /\ survivors = {file}
  /\ directory \in {"missing", "unsynced", "synced"}
  /\ file # Absent => directory = "synced"
  /\ pc = [s \in Stores |-> "closed"]
  /\ pins = [s \in Stores |-> NoPins]
  /\ loadError = [s \in Stores |-> FALSE]
  /\ op = [s \in Stores |-> NoOp]
  /\ temp = [s \in Stores |-> "none"]
  /\ acked = NoPins

Goto(s, label) == pc' = [pc EXCEPT ![s] = label]
-----------------------------------------------------------------------------
(* Opening a store                                                         *)

LoadedPins(f)  == IF f \in PinMap THEN f ELSE NoPins
LoadFailed(f)  == f \notin PinMap \union {Absent}

\* The read itself may fail as well, whatever the file holds.  The store
\* begins with an empty map then, as it does with a corrupt file.
Open(s) ==
  /\ pc[s] = "closed"
  /\ Goto(s, "idle")
  /\ \/ /\ pins' = [pins EXCEPT ![s] = LoadedPins(file)]
        /\ loadError' = [loadError EXCEPT ![s] = LoadFailed(file)]
     \/ /\ pins' = [pins EXCEPT ![s] = NoPins]
        /\ loadError' = [loadError EXCEPT ![s] = TRUE]
  /\ UNCHANGED <<disk, op, temp, acked>>

-----------------------------------------------------------------------------
(* The operations that start a write                                       *)

FirstContactAlone(s, h, k) ==
  /\ pc[s] = "idle"
  /\ ~loadError[s]
  /\ pins[s][h] = NoPin
  /\ op' = [op EXCEPT ![s] = [kind |-> "set", host |-> h,
                              next |-> [NoPins EXCEPT ![h] = k]]]
  /\ Goto(s, "mkdir")
  /\ UNCHANGED <<disk, pins, loadError, temp, acked>>

\* A TLS handshake with host h, which presents key k.  verify_pin refuses it
\* when the store failed to load or holds another key, and accepts it; then
\* record_peer_pin finds the key and changes nothing, or sets it.  Only the
\* last case changes state.  `set` copies the map and writes the copy.
FirstContact(s, h, k) ==
  /\ pc[s] = "idle"
  /\ ~loadError[s]
  /\ pins[s][h] = NoPin
  /\ op' = [op EXCEPT ![s] = [kind |-> "set", host |-> h,
                              next |-> [pins[s] EXCEPT ![h] = k]]]
  /\ Goto(s, "mkdir")
  /\ UNCHANGED <<disk, pins, loadError, temp, acked>>

\* `reset` forgets the load error and the pin first, and writes the map that
\* is left.  With no load error and no pin it returns Ok(false).  After a load
\* error it gives up, with h, the hosts that this store knows nothing of.
GivesUp(s, h, g) == g = h \/ (loadError[s] /\ pins[s][g] = NoPin)

Reset(s, h) ==
  /\ pc[s] = "idle"
  /\ loadError[s] \/ pins[s][h] # NoPin
  /\ loadError' = [loadError EXCEPT ![s] = FALSE]
  /\ pins' = [pins EXCEPT ![s][h] = NoPin]
  /\ op' = [op EXCEPT ![s] = [kind |-> "reset", host |-> h, next |-> pins'[s]]]
  /\ acked' = [g \in Hosts |-> IF GivesUp(s, h, g) THEN NoPin ELSE acked[g]]
  /\ Goto(s, "mkdir")
  /\ UNCHANGED <<disk, temp>>

-----------------------------------------------------------------------------
(* write_state: directory, temporary file, fsync, rename, fsync of the     *)
(* directory                                                               *)

\* create_dir_all: the new entry in the parent is never synced.
MakeDirectory(s) ==
  /\ pc[s] = "mkdir"
  /\ directory' = IF directory = "missing" THEN "unsynced" ELSE directory
  /\ Goto(s, "write")
  /\ UNCHANGED <<file, survivors, pins, loadError, op, temp, acked>>

WriteTemp(s) ==
  /\ pc[s] = "write"
  /\ temp' = [temp EXCEPT ![s] = "dirty"]
  /\ Goto(s, "sync")
  /\ UNCHANGED <<disk, pins, loadError, op, acked>>

SyncTempSkipped(s) ==
  /\ pc[s] = "sync"
  /\ Goto(s, "rename")
  /\ UNCHANGED <<disk, pins, loadError, op, temp, acked>>

SyncTemp(s) ==
  /\ pc[s] = "sync"
  /\ temp' = [temp EXCEPT ![s] = "clean"]
  /\ Goto(s, "rename")
  /\ UNCHANGED <<disk, pins, loadError, op, acked>>

\* Until the directory is synced a power loss may find the new file or an
\* earlier one; the new one is torn unless its data was synced before.
Rename(s) ==
  /\ pc[s] = "rename"
  /\ file' = op[s].next
  /\ survivors' = survivors \union {file'}
                    \union (IF temp[s] = "clean" THEN {} ELSE {Torn})
  /\ temp' = [temp EXCEPT ![s] = "none"]
  /\ Goto(s, "syncdir")
  /\ UNCHANGED <<directory, pins, loadError, op, acked>>

FinishEarly(s) ==
  /\ pc[s] = "syncdir"
  /\ pins' = [pins EXCEPT ![s] = op[s].next]
  /\ acked' = IF op[s].kind = "set"
              THEN [acked EXCEPT ![op[s].host] = op[s].next[op[s].host]]
              ELSE acked
  /\ op' = [op EXCEPT ![s] = NoOp]
  /\ Goto(s, "idle")
  /\ UNCHANGED <<disk, loadError, temp>>

FinishForgotten(s) ==
  /\ pc[s] = "syncdir"
  /\ survivors' = {file} \union (survivors \intersect {Torn})
  /\ acked' = IF op[s].kind = "set"
              THEN [acked EXCEPT ![op[s].host] = op[s].next[op[s].host]]
              ELSE acked
  /\ op' = [op EXCEPT ![s] = NoOp]
  /\ Goto(s, "idle")
  /\ UNCHANGED <<file, directory, pins, loadError, temp>>

\* The directory is synced, the map in memory becomes the one written, and
\* the operation returns Ok.
Finish(s) ==
  /\ pc[s] = "syncdir"
  /\ survivors' = {file} \union (survivors \intersect {Torn})
  /\ pins' = [pins EXCEPT ![s] = op[s].next]
  /\ acked' = IF op[s].kind = "set"
              THEN [acked EXCEPT ![op[s].host] = op[s].next[op[s].host]]
              ELSE acked
  /\ op' = [op EXCEPT ![s] = NoOp]
  /\ Goto(s, "idle")
  /\ UNCHANGED <<file, directory, loadError, temp>>

FailForgiving(s) ==
  /\ pc[s] \in Writing
  /\ op' = [op EXCEPT ![s] = NoOp]
  /\ temp' = [temp EXCEPT ![s] = "none"]
  /\ Goto(s, "idle")
  /\ UNCHANGED <<disk, pins, loadError, acked>>

\* Any of these calls fails.  A set leaves the map in memory as it was; a
\* reset, whose map is already changed, makes the store unusable instead.
Fail(s) ==
  /\ pc[s] \in Writing
  /\ loadError' = [loadError EXCEPT ![s] = op[s].kind = "reset"]
  /\ op' = [op EXCEPT ![s] = NoOp]
  /\ temp' = [temp EXCEPT ![s] = "none"]
  /\ Goto(s, "idle")
  /\ UNCHANGED <<disk, pins, acked>>

-----------------------------------------------------------------------------
(* Crashes                                                                 *)

\* The process of s ends, at any point; its temporary file is left behind
\* and nobody reads it.
Close(s) ==
  /\ pc[s] # "closed"
  /\ pins' = [pins EXCEPT ![s] = NoPins]
  /\ loadError' = [loadError EXCEPT ![s] = FALSE]
  /\ op' = [op EXCEPT ![s] = NoOp]
  /\ temp' = [temp EXCEPT ![s] = "none"]
  /\ Goto(s, "closed")
  /\ UNCHANGED <<disk, acked>>

\* Some time later the system writes a new directory's entry by itself.
Writeback ==
  /\ directory = "unsynced"
  /\ directory' = "synced"
  /\ UNCHANGED <<file, survivors, pc, pins, loadError, op, temp, acked>>

\* What comes back is one of the survivors, with a directory that is on the
\* disk if there was one; or a new directory is gone, and every pin with it.
PowerLoss ==
  /\ \/ /\ file' \in survivors
        /\ directory' = IF directory = "missing" THEN "missing" ELSE "synced"
        /\ UNCHANGED acked
     \/ /\ directory = "unsynced"
        /\ file' = Absent /\ directory' = "missing" /\ acked' = NoPins
  /\ survivors' = {file'}
  /\ pc' = [s \in Stores |-> "closed"]
  /\ pins' = [s \in Stores |-> NoPins]
  /\ loadError' = [s \in Stores |-> FALSE]
  /\ op' = [s \in Stores |-> NoOp]
  /\ temp' = [s \in Stores |-> "none"]

Next ==
  \/ \E s \in Stores :
       \/ Open(s)
       \/ \E h \in Hosts, k \in Keys : FirstContact(s, h, k)
       \/ \E h \in Hosts : Reset(s, h)
       \/ MakeDirectory(s)
       \/ WriteTemp(s)
       \/ SyncTemp(s)
       \/ Rename(s)
       \/ Finish(s)
       \/ Fail(s)
       \/ Close(s)
  \/ Writeback
  \/ PowerLoss

Spec == Init /\ [][Next]_vars

-----------------------------------------------------------------------------
(* Properties                                                              *)

\* No crash, at whatever point of however many writes, leaves a file whose
\* data is missing: write_state syncs the temporary file before the rename
\* publishes it.
NoTornFile == Torn \notin survivors \union {file}

\* A file that could not be read is what a user may want to recover: it
\* stays as it is until an explicit reset writes over it, whatever other
\* stores do and whichever earlier resets failed (`set` refuses while
\* load_error is there, and a failed reset puts it back).
UnreadableKeptUntilReset ==
  [][file = Unreadable /\ file' # file
       => \E s \in Stores : pc[s] = "rename" /\ op[s].kind = "reset"]_vars

\* With one store: a pin whose set returned Ok is in every file that a crash
\* or a power loss can leave, until it is given up: by a reset of its host, by
\* a reset of any host in a store that could not read the file, or by a power
\* loss that takes the new directory of the file.
AckedPinSurvives ==
  \A h \in Hosts : acked[h] # NoPin =>
    \A f \in survivors : f \in PinMap /\ f[h] = acked[h]

\* What gives up the pin of h.
Forgets(h) ==
  \/ directory = "unsynced" /\ directory' = "missing"
  \/ \E s \in Stores :
       /\ pc[s] = "idle" /\ pc'[s] = "mkdir" /\ op'[s].kind = "reset"
       /\ GivesUp(s, op'[s].host, h)

KeyKept ==
  \A h \in Hosts : acked[h] # NoPin =>
    /\ acked'[h] = acked[h] \/ (acked'[h] = NoPin /\ Forgets(h))
    /\ \A s \in Stores :
         pc[s] # "closed" /\ ~loadError[s] => pins[s][h] = acked[h]

\* With one store: the key recorded on the first connection is the one later
\* connections are held to, or they are refused, across failed reads and
\* writes, crashes and restarts; it is never replaced by another, and nothing
\* but what AckedPinSurvives names gives it up.
RecordedKeyStable == [][KeyKept]_vars

\* What README.md says of every connection: its key is recorded, and later
\* calls are verified against it.  So recording the key of one host leaves
\* the recorded keys of the others in the file.
RecordingKeepsOthers ==
  [][\A s \in Stores, h \in Hosts :
       pc[s] = "rename" /\ Rename(s) /\ op[s].kind = "set" /\ op[s].host # h
         => acked[h] \in {NoPin, file'[h]}]_vars

\* With one store, the file and the mutex implement the register AtomicPins.
\* A closed store stands for what the next Open will load.
AsMap(f) == IF LoadFailed(f) THEN Unreadable ELSE LoadedPins(f)

TheStore == CHOOSE s \in Stores : TRUE

Committed ==
  IF pc[TheStore] = "closed" THEN AsMap(file)
  ELSE IF loadError[TheStore] THEN Unreadable ELSE pins[TheStore]

Possible ==
  {AsMap(f) : f \in survivors}
    \union (IF directory = "synced" THEN {} ELSE {NoPins})

Register == INSTANCE AtomicPins WITH
  Broken    <- Unreadable,
  committed <- Committed,
  possible  <- Possible,
  founded   <- directory = "synced"

\* Every step of the file protocol is a step of the register or invisible:
\* an update is all or nothing at every crash point, is final once it has
\* returned (and a new directory is on the disk), and a store that lost track
\* of the file refuses updates until a reset, which invents no pins.
ImplementsRegister == Register!Spec
=============================================================================
