--------------------------- MODULE Capabilities ---------------------------
(***************************************************************************)
(* crates/symfritz-tr064/src/capabilities.rs: the operations that are      *)
(* composed of several TR-064 calls, one call per step.  The router's      *)
(* tables change while they are read, any call fails in any way that       *)
(* error_kind tells apart, and a signal may set the flag that the          *)
(* transport looks at before each request and after each response.         *)
(***************************************************************************)
EXTENDS Naturals, SequencesExt

CONSTANTS Devices,    \* entries of the router's tables
          Named,      \* those with the name that is looked up
          Radios,     \* indices of the WLANConfigurations in tr64desc.xml
          Band,       \* the radio of an entry; not one of Radios when wired
          MaxChanges  \* bound: how often the table changes

ASSUME CapabilitiesAssumption ==
  /\ IsFiniteSet(Devices) /\ Named \subseteq Devices
  /\ IsFiniteSet(Radios) /\ Radios \subseteq Nat \ {0}
  /\ Band \in [Devices -> Nat]
  /\ MaxChanges \in Nat

\* ErrorKind: Timeout with Transport, and what no operation looks at as one.
Failures == {"unauthorized", "unsupported", "transport", "other"}

Reads == [traffic |-> 1, dsl |-> 2, calls |-> 2, log |-> 2, address |-> 1,
          guest |-> 1, discover |-> 1, call |-> 2, mesh |-> 1]
Listings == {"hosts", "name", "diagnose"}
Writes == {"dial", "hangup", "reboot", "wake", "guest_set"}
Wireless == {"radios", "clients", "guest_index"}
Tasks == {"status"} \union DOMAIN Reads \union Listings \union Writes
           \union Wireless

VARIABLES
  cancelled,  \* CANCEL_REQUESTED
  task,       \* the operation that runs
  at,         \* its next call, "idle" or "returned"
  index,      \* of that call or entry
  count,      \* entries that the router has announced
  indices,    \* radios still to be asked
  bands,      \* radios that answered
  kept,       \* entries or status queries that answered
  faults,     \* kinds of the failures that were put aside
  picked,     \* the host that a name was resolved to
  answer,     \* "none", "ok", a failure, or "checks" of a diagnosis
  table,      \* the router's host table
  changes,    \* how often it has changed
  effect,     \* how often a writing call was executed
  stays,      \* history: entries there all the time since the operation began
  was,        \* history: entries there at some time since
  moved,      \* history: the table changed while its indices were read
  missed      \* history: a request for an entry or a radio failed

progress == <<index, count, indices, bands, kept, faults, picked>>
operation == <<task, at, progress, answer>>
router == <<table, changes>>
history == <<stays, was, moved>>
capVars == <<cancelled, operation, router, effect, history, missed>>

CapTypeOK ==
  /\ cancelled \in BOOLEAN
  /\ task \in Tasks \union {"none"}
  /\ at \in {"idle", "returned", "query", "ppp", "read", "igd", "write",
             "path", "list", "count", "entry", "lookup", "discover", "info",
             "total", "probe"}
  /\ index \in Nat /\ count \in Nat
  /\ indices \subseteq Nat /\ bands \subseteq Nat
  /\ kept \in Seq(Devices \union Nat) /\ faults \in Seq(Failures)
  /\ picked \subseteq Devices /\ Cardinality(picked) <= 1
  /\ answer \in Failures \union {"none", "ok", "checks"}
  /\ table \in Seq(Devices) /\ IsInjective(table)
  /\ changes \in 0..MaxChanges
  /\ effect \in 0..1
  /\ stays \subseteq was /\ was \subseteq Devices
  /\ moved \in BOOLEAN /\ missed \in BOOLEAN

CapInit ==
  /\ cancelled = FALSE
  /\ task = "none" /\ at = "idle"
  /\ index = 0 /\ count = 0 /\ indices = {} /\ bands = {}
  /\ kept = <<>> /\ faults = <<>> /\ picked = {} /\ answer = "none"
  /\ table = SetToSeq(Devices) /\ changes = 0
  /\ effect = 0
  /\ stays = {} /\ was = {} /\ moved = FALSE /\ missed = FALSE

-----------------------------------------------------------------------------
(* One call                                                                *)

\* How a read ends.  Nothing is sent, and no response accepted, once the
\* flag is set.
Replies == IF cancelled THEN {"transport"} ELSE {"ok"} \union Failures

Return(a) ==
  /\ at' = "returned" /\ answer' = a
  /\ UNCHANGED <<task, progress>>

Goto(place) == at' = place /\ UNCHANGED <<task, answer>>

\* A diagnosis is of a host with a name, or with an address.
First(t) ==
  CASE t = "status" -> {"query"}
    [] t \in DOMAIN Reads -> {"read"}
    [] t = "diagnose" -> {"path", "lookup"}
    [] t \in Listings \ {"diagnose"} -> {"path"}
    [] t \in Writes -> {"write"}
    [] t \in Wireless -> {"discover"}

Begin(t) ==
  /\ at = "idle"
  /\ task' = t /\ at' \in First(t)
  /\ index' = 1 /\ count' = 0 /\ indices' = {} /\ bands' = {}
  /\ kept' = <<>> /\ faults' = <<>> /\ picked' = {} /\ answer' = "none"
  /\ stays' = ToSet(table) /\ was' = ToSet(table) /\ moved' = FALSE
  /\ missed' = FALSE
  /\ UNCHANGED <<cancelled, router, effect>>

\* The caller has the answer.
End ==
  /\ at = "returned" /\ at' = "idle" /\ task' = "none"
  /\ UNCHANGED <<progress, answer>>

-----------------------------------------------------------------------------
(* status: four queries, each of which may fail                            *)

\* The queries for DeviceInfo, the connection and the address fill the
\* primary fields, when the router's answer has them.
Queried(reply) ==
  /\ index' = index + 1
  /\ IF reply = "ok"
     THEN UNCHANGED faults /\ kept' \in {kept, Append(kept, index)}
     ELSE faults' = Append(faults, reply) /\ UNCHANGED kept
  /\ UNCHANGED <<count, indices, bands, picked>>

WanConnectionCall(reply) ==
  IF reply = "unsupported" /\ index \in {2, 3}
  THEN Goto("ppp") /\ UNCHANGED progress
  ELSE Goto("query") /\ Queried(reply)

StatusQuery ==
  /\ at = "query" /\ index <= 4
  /\ \E reply \in Replies : WanConnectionCall(reply)
  /\ UNCHANGED <<cancelled, router, effect, history, missed>>

\* When the fallback fails too, both failures become one of the transport.
StatusPpp ==
  /\ at = "ppp"
  /\ \E reply \in Replies :
       Goto("query") /\ Queried(IF reply = "ok" THEN "ok" ELSE "transport")
  /\ UNCHANGED <<cancelled, router, effect, history, missed>>

Primary == ToSet(kept) \ {4}

StatusEndLenient ==
  /\ at = "query" /\ index = 5
  /\ Return(IF Len(faults) = 4 THEN Head(faults) ELSE "ok")
  /\ UNCHANGED <<cancelled, router, effect, history, missed>>

\* A report without primary data fails, for an authentication failure first.
StatusEnd ==
  /\ at = "query" /\ index = 5
  /\ Return(IF Len(faults) = 4 \/ (Primary = {} /\ faults # <<>>)
            THEN IF "unauthorized" \in ToSet(faults)
                 THEN "unauthorized" ELSE Head(faults)
            ELSE "ok")
  /\ UNCHANGED <<cancelled, router, effect, history, missed>>

-----------------------------------------------------------------------------
(* Operations that stop at their first failure                             *)

ReadAll(t, reply) ==
  /\ task = t /\ at = "read"
  /\ IF reply # "ok" \/ index = Reads[t]
     THEN Return(reply)
     ELSE /\ Goto("read") /\ index' = index + 1
          /\ UNCHANGED <<count, indices, bands, kept, faults, picked>>

\* The reduced data of the IGD service, after an authentication failure only.
ReadOrIgd(t, reply) ==
  IF reply = "unauthorized"
  THEN task = t /\ at = "read" /\ Goto("igd") /\ UNCHANGED progress
  ELSE ReadAll(t, reply)

DslLineStats(reply) == ReadOrIgd("dsl", reply)
OnlineMonitor(reply) == ReadOrIgd("traffic", reply)
Igd(reply) == at = "igd" /\ Return(reply)

CallList(reply) == ReadAll("calls", reply)
DeviceLog(reply) == ReadAll("log", reply)
HostByAddress(reply) == ReadAll("address", reply)
GuestWlanStatus(reply) == ReadAll("guest", reply)
Discover(reply) == ReadAll("discover", reply)
ServiceCall(reply) == ReadAll("call", reply)
MeshListPath(reply) == ReadAll("mesh", reply)

Read ==
  /\ \E reply \in Replies :
       \/ DslLineStats(reply) \/ OnlineMonitor(reply) \/ Igd(reply)
       \/ CallList(reply) \/ DeviceLog(reply) \/ HostByAddress(reply)
       \/ GuestWlanStatus(reply) \/ Discover(reply) \/ ServiceCall(reply)
       \/ MeshListPath(reply)
  /\ UNCHANGED <<cancelled, router, effect, history, missed>>

\* A call that changes something: a fault says that it did not, a failed
\* transport says nothing, and a request that was not sent does nothing.
Write(t, reply) ==
  /\ task = t /\ at = "write"
  /\ effect' \in CASE reply = "ok" -> {effect + 1}
                   [] reply = "transport" /\ ~cancelled -> {effect, effect + 1}
                   [] OTHER -> {effect}
  /\ Return(reply)

Dial(reply) == Write("dial", reply)
Hangup(reply) == Write("hangup", reply)
Reboot(reply) == Write("reboot", reply)
WakeOnLan(reply) == Write("wake", reply)
SetGuestWlan(reply) == Write("guest_set", reply)

WriteOnce ==
  /\ \E reply \in Replies :
       \/ Dial(reply) \/ Hangup(reply) \/ Reboot(reply)
       \/ WakeOnLan(reply) \/ SetGuestWlan(reply)
  /\ UNCHANGED <<cancelled, router, history, missed>>

-----------------------------------------------------------------------------
(* hosts, host_by_name                                                     *)

\* Exactly one match is accepted.
Resolved(found) ==
  {found[i] : i \in {match \in DOMAIN found :
     \A other \in DOMAIN found : found[other] \in Named <=> other = match}}

\* What becomes of a table that was read: a listing, a host by its name, or
\* the first check of a diagnosis.
Listed(found) ==
  /\ kept' = found
  /\ picked' = IF task = "hosts" THEN {} ELSE Resolved(found)
  /\ UNCHANGED <<task, index, count, indices, bands, faults>>
  /\ IF task = "diagnose"
     THEN at' = "probe" /\ UNCHANGED answer
     ELSE /\ at' = "returned"
          /\ answer' = IF task = "hosts" \/ picked' # {}
                       THEN "ok" ELSE "transport"

HostsFail(reply) ==
  IF task = "diagnose" THEN Goto("probe") /\ UNCHANGED progress
  ELSE Return(reply)

\* bulk_hosts; whatever fails, the index is tried.
BulkHosts ==
  /\ at \in {"path", "list"}
  /\ \E reply \in Replies :
       IF reply # "ok" THEN Goto("count") /\ UNCHANGED progress
       ELSE IF at = "path" THEN Goto("list") /\ UNCHANGED progress
       ELSE Listed(table)
  /\ UNCHANGED <<cancelled, router, effect, history, missed>>

\* checked_table_count refuses a count that is missing, odd or too large.
HostCount ==
  /\ at = "count"
  /\ \E reply \in Replies :
       IF reply # "ok" THEN HostsFail(reply)
       ELSE /\ Goto("entry") /\ count' = Len(table)
            /\ UNCHANGED <<index, indices, bands, kept, faults, picked>>
  /\ UNCHANGED <<cancelled, router, effect, history, missed>>

\* Radios are taken in the order of their indices.
Lowest(set) == {r \in set : \A other \in set : r <= other}
Highest(set) == {r \in set : \A other \in set : other <= r}

\* The entries of the table that is read, at this moment: of the hosts, or of
\* the devices that use the radio.
Entries ==
  IF task # "clients" THEN table
  ELSE SetToSeq({d \in ToSet(table) : Band[d] \in Lowest(bands)})

\* An index beyond the end of the table is a fault of its own.
EntryReplies == IF index <= Len(Entries) THEN Replies ELSE Replies \ {"ok"}

\* A failed entry is left out.
Entry ==
  /\ at = "entry" /\ index <= count
  /\ \E reply \in EntryReplies :
       /\ kept' = IF reply = "ok" THEN Append(kept, Entries[index]) ELSE kept
       /\ missed' = (missed \/ (reply # "ok" /\ index <= Len(Entries)))
  /\ index' = index + 1
  /\ UNCHANGED <<task, at, answer, count, indices, bands, faults, picked,
                 cancelled, router, effect, history>>

HostsFromIndexShort ==
  /\ at = "entry" /\ index >= count /\ task \in Listings
  /\ Listed(kept)
  /\ UNCHANGED <<cancelled, router, effect, history, missed>>

HostsFromIndex ==
  /\ at = "entry" /\ index > count /\ task \in Listings
  /\ Listed(kept)
  /\ UNCHANGED <<cancelled, router, effect, history, missed>>

\* host_by_ip or host_by_mac; a diagnosis goes on without the host.
LookUp ==
  /\ at = "lookup"
  /\ Goto("probe")
  /\ \E reply \in Replies :
       picked' \in IF reply = "ok" THEN {{d} : d \in ToSet(table)} ELSE {{}}
  /\ UNCHANGED <<index, count, indices, bands, kept, faults, cancelled, router,
                 effect, history, missed>>

\* probe_ports: neither the flag nor the order of the threads matters.  The
\* diagnosis fails with any failed check: the host is not known, or a port
\* that is not optional is closed.
ProbePorts ==
  /\ at = "probe"
  /\ \E closed \in BOOLEAN :
       Return(IF picked = {} \/ closed THEN "checks" ELSE "ok")
  /\ UNCHANGED <<cancelled, router, effect, history, missed>>

-----------------------------------------------------------------------------
(* radios, wlan_clients, all_wlan_clients, guest_wlan_index                *)

GuestWlanIndex(reply) ==
  /\ task = "guest_index"
  /\ task' = task /\ at' = "returned"
  /\ answer' = IF reply # "ok" THEN reply
               ELSE IF Radios = {} THEN "transport" ELSE "ok"
  /\ bands' = IF reply = "ok" THEN Highest(Radios) ELSE {}
  /\ UNCHANGED <<index, count, indices, kept, faults, picked>>

\* Without the advertised indices, three are tried.
RadioIndices(reply) ==
  /\ task # "guest_index"
  /\ Goto("info")
  /\ indices' = IF reply = "ok" /\ Radios # {} THEN Radios ELSE {1, 2, 3}
  /\ UNCHANGED <<index, count, bands, kept, faults, picked>>

WlanConfigIndices ==
  /\ at = "discover"
  /\ \E reply \in Replies :
       /\ GuestWlanIndex(reply) \/ RadioIndices(reply)
       /\ missed' = (reply # "ok")
  /\ UNCHANGED <<cancelled, router, effect, history>>

\* The first radio has to answer; a later one that does not ends the list,
\* unless the failure would meet all of them.
RadioInfo ==
  /\ at = "info"
  /\ \E radio \in Lowest(indices) :
       \E reply \in IF radio \in Radios THEN Replies ELSE Replies \ {"ok"} :
         /\ IF reply = "ok"
            THEN /\ bands' = bands \union {radio}
                 /\ indices' = indices \ {radio}
                 /\ UNCHANGED <<at, answer>>
            ELSE IF radio = 1 \/ reply \in {"unauthorized", "transport"}
            THEN /\ at' = "returned" /\ answer' = reply
                 /\ UNCHANGED <<bands, indices>>
            ELSE indices' = {} /\ UNCHANGED <<bands, at, answer>>
         /\ missed' = (missed \/ (radio \in Radios /\ reply # "ok"))
  /\ UNCHANGED <<task, index, count, kept, faults, picked, cancelled, router,
                 effect, history>>

RadiosEnd ==
  /\ at = "info" /\ indices = {}
  /\ IF bands = {} THEN Return("transport")
     ELSE IF task = "radios" THEN Return("ok")
     ELSE Goto("total") /\ UNCHANGED progress
  /\ UNCHANGED <<cancelled, router, effect, history, missed>>

\* A radio whose table cannot be enumerated fails the whole aggregate, one
\* that does not answer is left out.
TotalAssociations ==
  /\ at = "total" /\ bands # {}
  /\ \E reply \in Replies \union (IF cancelled THEN {} ELSE {"odd"}) :
       /\ CASE reply = "ok" -> /\ Goto("entry") /\ index' = 1
                               /\ count' = Len(Entries) /\ UNCHANGED bands
            [] reply = "odd" -> /\ at' = "returned" /\ answer' = "transport"
                                /\ UNCHANGED <<task, index, count, bands>>
            [] OTHER -> /\ Goto("total") /\ bands' = bands \ Lowest(bands)
                        /\ UNCHANGED <<index, count>>
       /\ missed' = (missed \/ reply # "ok")
  /\ UNCHANGED <<indices, kept, faults, picked, cancelled, router, effect,
                 history>>

WlanClients ==
  /\ at = "entry" /\ index > count /\ task = "clients"
  /\ Goto("total") /\ bands' = bands \ Lowest(bands)
  /\ UNCHANGED <<index, count, indices, kept, faults, picked>>
  /\ UNCHANGED <<cancelled, router, effect, history, missed>>

AllWlanClients ==
  /\ at = "total" /\ bands = {}
  /\ Return("ok")
  /\ UNCHANGED <<cancelled, router, effect, history, missed>>

-----------------------------------------------------------------------------
(* The environment                                                         *)

\* Entries leave and join at any place while an operation reads them.
TableChanges ==
  /\ task \in Listings \union {"clients"} /\ at # "returned"
  /\ changes < MaxChanges
  /\ \/ \E i \in DOMAIN table : table' = RemoveAt(table, i)
     \/ \E d \in Devices \ ToSet(table), i \in 1..(Len(table) + 1) :
          table' = InsertAt(table, i, d)
  /\ changes' = changes + 1
  /\ stays' = stays \intersect ToSet(table')
  /\ was' = was \union ToSet(table')
  /\ moved' = (moved \/ at = "entry")
  /\ UNCHANGED <<cancelled, operation, effect, missed>>

\* The handler of SIGINT and SIGTERM.
Cancel ==
  /\ ~cancelled
  /\ cancelled' = TRUE
  /\ UNCHANGED <<operation, router, effect, history, missed>>

CapStep ==
  \/ StatusQuery \/ StatusPpp \/ StatusEnd
  \/ Read \/ WriteOnce
  \/ BulkHosts \/ HostCount \/ Entry \/ HostsFromIndex
  \/ LookUp \/ ProbePorts
  \/ WlanConfigIndices \/ RadioInfo \/ RadiosEnd
  \/ TotalAssociations \/ WlanClients \/ AllWlanClients

-----------------------------------------------------------------------------
(* Properties                                                              *)

\* What a listing is expected to have: every host, or every device that uses
\* one of the radios, that was there all along.
Expected ==
  IF task = "clients" THEN {d \in stays : Band[d] \in Radios} ELSE stays

\* A listing that succeeds invents nothing, and leaves nothing out that was
\* there all along, although failed entries are skipped and the table moves:
\* unless the request for an entry did fail, or entries moved between two
\* indices.  A name that two hosts share all along is therefore not resolved
\* to one of them either.
ListedOrFailed ==
  at = "returned" /\ answer = "ok" /\ task \in {"hosts", "name", "clients"} =>
    /\ ToSet(kept) \subseteq was
    /\ picked \subseteq Named \intersect was
    /\ ~missed /\ ~moved =>
         /\ Expected \subseteq ToSet(kept)
         /\ task = "name" => Named \intersect stays \subseteq picked
=============================================================================
