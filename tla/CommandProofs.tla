--------------------------- MODULE CommandProofs ---------------------------
(***************************************************************************)
(* Proofs about a run of the `symfritz` process, for every value of the    *)
(* constants: the operations that it is made of (Capabilities), the `dns`  *)
(* diagnosis (DnsDiagnosis), and the scripts of its commands (Command).    *)
(* One invariant has the three parts; each is kept by the steps of its own *)
(* module, and by all others because they leave its variables alone.       *)
(***************************************************************************)
EXTENDS Command, TLAPS, FiniteSetTheorems, SequenceTheorems

-----------------------------------------------------------------------------
(* Sequences and sets                                                      *)

\* What SetToSeq promises: each element of a finite set has one place.
LEMMA SetToSeqIsBijection ==
  ASSUME NEW S, IsFiniteSet(S)
  PROVE  /\ SetToSeq(S) \in Seq(S)
         /\ IsInjective(SetToSeq(S))
         /\ ToSet(SetToSeq(S)) = S
<1> DEFINE n == Cardinality(S)
           f == SetToSeq(S)
<1>1. n \in Nat /\ ExistsBijection(1..n, S)
  BY FS_CardinalityType
<1>2. PICK g \in [1..n -> S] : IsInjective(g)
  BY <1>1 DEF ExistsBijection, Bijection, Injection
<1>3. f \in [1..n -> S] /\ IsInjective(f)
  BY <1>2 DEF SetToSeq
<1>4. f \in Injection(1..n, S)
  BY <1>3 DEF Injection
<1>5. IsFiniteSet(1..n) /\ Cardinality(1..n) = n
  BY <1>1, FS_Interval
<1>6. f \in Surjection(1..n, S)
  BY <1>4, <1>5, FS_Injection
<1>7. ToSet(f) = S
  BY <1>3, <1>6 DEF ToSet, Surjection
<1>8. f \in Seq(S)
  BY <1>1, <1>3, IsASeq
<1> QED
  BY <1>3, <1>7, <1>8

\* The elements of a longer sequence.
LEMMA ToSetOfAppend ==
  ASSUME NEW S, NEW s \in Seq(S), NEW e \in S
  PROVE  ToSet(Append(s, e)) = ToSet(s) \union {e}
<1> DEFINE t == Append(s, e)
<1>1. /\ Len(s) \in Nat /\ DOMAIN s = 1..Len(s) /\ DOMAIN t = 1..(Len(s) + 1)
      /\ t[Len(s) + 1] = e /\ \A k \in 1..Len(s) : t[k] = s[k]
  OBVIOUS
<1> HIDE DEF t
<1>2. \A k \in DOMAIN t : k \in DOMAIN s \/ k = Len(s) + 1
  BY <1>1
<1>3. /\ \A k \in DOMAIN s : k \in DOMAIN t /\ k \in 1..Len(s)
      /\ Len(s) + 1 \in DOMAIN t
  BY <1>1
<1>4. ToSet(t) = ToSet(s) \union {e}
  BY <1>1, <1>2, <1>3 DEF ToSet
<1> QED
  BY <1>4 DEF t

\* The elements of a sequence over a set are in it.
LEMMA ToSetTyped ==
  ASSUME NEW S, NEW s \in Seq(S)
  PROVE  ToSet(s) \subseteq S
  BY DEF ToSet

\* A table without one of its entries is still one without duplicates.
LEMMA RemoveAtKeeps ==
  ASSUME NEW S, NEW s \in Seq(S), IsInjective(s), NEW i \in DOMAIN s
  PROVE  RemoveAt(s, i) \in Seq(S) /\ IsInjective(RemoveAt(s, i))
<1> DEFINE r == RemoveAt(s, i)
           n == Len(s)
           a == SubSeq(s, 1, i - 1)
           b == SubSeq(s, i + 1, n)
<1>1. n \in Nat /\ DOMAIN s = 1..n /\ i \in 1..n
  OBVIOUS
<1>2. a \in Seq(S) /\ Len(a) = i - 1 /\ \A k \in 1..(i - 1) : a[k] = s[k]
  BY <1>1
<1>3. b \in Seq(S) /\ Len(b) = n - i /\ \A k \in 1..(n - i) : b[k] = s[k + i]
  BY <1>1
<1>4. r = a \o b
  BY DEF RemoveAt
<1> HIDE DEF r, n, a, b
<1>5. /\ r \in Seq(S) /\ Len(r) = n - 1
       /\ \A k \in 1..(n - 1) : r[k] = IF k < i THEN a[k] ELSE b[k - (i - 1)]
  <2>1. /\ r \in Seq(S) /\ Len(r) = Len(a) + Len(b)
        /\ \A k \in 1..(Len(a) + Len(b)) :
             r[k] = IF k <= Len(a) THEN a[k] ELSE b[k - Len(a)]
    BY <1>2, <1>3, <1>4, ConcatProperties
  <2> QED
    BY <1>1, <1>2, <1>3, <2>1
<1>6. \A k \in 1..(n - 1) : r[k] = IF k < i THEN s[k] ELSE s[k + 1]
  <2> TAKE k \in 1..(n - 1)
  <2>1. CASE k < i
    BY <1>1, <1>2, <1>5, <2>1
  <2>2. CASE ~(k < i)
    <3>1. k - (i - 1) \in 1..(n - i) /\ (k - (i - 1)) + i = k + 1
      BY <1>1, <2>2
    <3> QED
      BY <1>3, <1>5, <2>2, <3>1
  <2> QED
    BY <2>1, <2>2
<1>7. \A k \in 1..(n - 1) : k \in 1..n /\ k + 1 \in 1..n
  BY <1>1
<1>8. IsInjective(r)
  <2>1. DOMAIN r = 1..(n - 1)
    BY <1>1, <1>5
  <2> SUFFICES ASSUME NEW k \in 1..(n - 1), NEW m \in 1..(n - 1), r[k] = r[m]
               PROVE  k = m
    BY <2>1 DEF IsInjective
  <2>2. \A x, y \in 1..n : s[x] = s[y] => x = y
    BY <1>1 DEF IsInjective, n
  <2>3. k \in Int /\ m \in Int /\ i \in Int
    BY <1>1
  <2> QED
    BY <1>6, <1>7, <2>2, <2>3
<1> QED
  BY <1>5, <1>8 DEF r

\* So is a table with an entry that it did not have.
LEMMA InsertAtKeeps ==
  ASSUME NEW S, NEW s \in Seq(S), IsInjective(s), NEW e \in S \ ToSet(s),
         NEW i \in 1..(Len(s) + 1)
  PROVE  InsertAt(s, i, e) \in Seq(S) /\ IsInjective(InsertAt(s, i, e))
<1> DEFINE r == InsertAt(s, i, e)
           n == Len(s)
           a == SubSeq(s, 1, i - 1)
           b == SubSeq(s, i, n)
<1>1. n \in Nat /\ DOMAIN s = 1..n /\ i \in 1..(n + 1)
  OBVIOUS
<1>2. a \in Seq(S) /\ Len(a) = i - 1 /\ \A k \in 1..(i - 1) : a[k] = s[k]
  BY <1>1
<1>3. /\ b \in Seq(S) /\ Len(b) = n - i + 1
      /\ \A k \in 1..(n - i + 1) : b[k] = s[k + i - 1]
  BY <1>1
<1> DEFINE c == a \o <<e>>
<1>4. /\ c \in Seq(S) /\ Len(c) = i /\ c[i] = e
      /\ \A k \in 1..(i - 1) : c[k] = s[k]
  BY <1>1, <1>2
<1> HIDE DEF a, b, c
<1>5. r = c \o b
  BY DEF InsertAt, a, b, c
<1> HIDE DEF r, n
<1>6. /\ r \in Seq(S) /\ Len(r) = n + 1
      /\ \A k \in 1..(n + 1) : r[k] = IF k <= i THEN c[k] ELSE b[k - i]
  <2>1. /\ r \in Seq(S) /\ Len(r) = Len(c) + Len(b)
        /\ \A k \in 1..(Len(c) + Len(b)) :
             r[k] = IF k <= Len(c) THEN c[k] ELSE b[k - Len(c)]
    BY <1>3, <1>4, <1>5, ConcatProperties
  <2>2. Len(c) = i /\ Len(c) + Len(b) = n + 1
    BY <1>1, <1>3, <1>4
  <2> QED
    BY <2>1, <2>2
<1>7. \A k \in 1..(n + 1) :
        r[k] = IF k < i THEN s[k] ELSE IF k = i THEN e ELSE s[k - 1]
  <2> TAKE k \in 1..(n + 1)
  <2>1. CASE k <= i
    BY <1>1, <1>4, <1>6, <2>1
  <2>2. CASE ~(k <= i)
    <3>1. k - i \in 1..(n - i + 1) /\ (k - i) + i - 1 = k - 1
      BY <1>1, <2>2
    <3> QED
      BY <1>1, <1>3, <1>6, <2>2, <3>1
  <2> QED
    BY <2>1, <2>2
<1>8. \A k \in 1..n : s[k] # e
  BY <1>1 DEF ToSet
<1>9. \A k \in 1..(n + 1) : /\ k < i => k \in 1..n
                            /\ k > i => k - 1 \in 1..n
  BY <1>1
<1>10. IsInjective(r)
  <2>1. DOMAIN r = 1..(n + 1)
    BY <1>1, <1>6
  <2> SUFFICES ASSUME NEW k \in 1..(n + 1), NEW m \in 1..(n + 1), r[k] = r[m]
               PROVE  k = m
    BY <2>1 DEF IsInjective
  <2>2. \A x, y \in 1..n : s[x] = s[y] => x = y
    BY <1>1 DEF IsInjective, n
  <2>3. k \in Int /\ m \in Int /\ i \in Int
    BY <1>1
  <2>4. CASE k = i \/ m = i
    BY <1>7, <1>8, <1>9, <2>3, <2>4
  <2>5. CASE k # i /\ m # i
    <3>1. k < i \/ k > i
      BY <2>3, <2>5
    <3>2. m < i \/ m > i
      BY <2>3, <2>5
    <3> QED
      BY <1>7, <1>9, <2>2, <2>3, <3>1, <3>2
  <2> QED
    BY <2>4, <2>5
<1> QED
  BY <1>6, <1>10 DEF r

\* A set with one element at most.
LEMMA AtMostOne ==
  ASSUME NEW S, NEW e, S \subseteq {e}
  PROVE  Cardinality(S) <= 1
<1>1. S = {} \/ S = {e}
  OBVIOUS
<1>2. Cardinality({}) = 0 /\ Cardinality({e}) = 1
  BY FS_EmptySet, FS_Singleton
<1> QED
  BY <1>1, <1>2
-----------------------------------------------------------------------------
(* The operations: types and places                                        *)

\* The operations that a place belongs to.
TasksAt(place) ==
  CASE place = "idle" -> {"none"}
    [] place \in {"query", "ppp"} -> {"status"}
    [] place \in {"read", "igd"} -> DOMAIN Reads
    [] place = "write" -> Writes
    [] place \in {"path", "list", "count"} -> Listings
    [] place \in {"lookup", "probe"} -> {"diagnose"}
    [] place = "discover" -> Wireless
    [] place = "info" -> {"radios", "clients"}
    [] place = "total" -> {"clients"}
    [] place = "entry" -> Listings \union {"clients"}
    [] OTHER -> Tasks

\* Each place is one of the operation that runs, a table is read from its
\* first entry, and only a diagnosis ends with failed checks.
TaskInv ==
  /\ task \in TasksAt(at)
  /\ at \in {"path", "list", "count"} => index = 1
  /\ at = "entry" => index > 0
  /\ at = "ppp" => index \in {2, 3}
  /\ at = "returned" /\ answer = "checks" => task = "diagnose"

\* A call succeeds, or fails in a way that error_kind tells apart.
LEMMA ReplyType == Replies \subseteq {"ok"} \union Failures
  BY DEF Replies, Failures

\* Exactly one match is accepted, and it is one.
LEMMA ResolvedIsOne ==
  ASSUME NEW S, NEW found \in Seq(S)
  PROVE  /\ Resolved(found) \subseteq Named \intersect ToSet(found)
         /\ Resolved(found) \subseteq S
         /\ Cardinality(Resolved(found)) <= 1
         /\ Resolved(found) # {} =>
              Named \intersect ToSet(found) \subseteq Resolved(found)
<1> DEFINE M == {match \in DOMAIN found :
                   \A other \in DOMAIN found :
                     found[other] \in Named <=> other = match}
<1>1. Resolved(found) = {found[i] : i \in M}
  BY DEF Resolved
<1>2. \A i \in M : i \in DOMAIN found /\ found[i] \in Named /\ found[i] \in S
  OBVIOUS
<1>3. \A i \in M, j \in DOMAIN found : found[j] \in Named => j = i
  OBVIOUS
<1>4. CASE M = {}
  <2>1. Resolved(found) = {}
    BY <1>1, <1>4
  <2> QED
    BY <2>1, FS_EmptySet
<1>5. CASE M # {}
  <2>1. PICK i \in M : TRUE
    BY <1>5
  <2>2. M = {i}
    BY <1>2, <1>3, <2>1
  <2>3. Resolved(found) = {found[i]}
    BY <1>1, <2>2
  <2>4. Cardinality(Resolved(found)) <= 1
    BY <2>3, AtMostOne
  <2> QED
    BY <1>2, <1>3, <2>1, <2>3, <2>4 DEF ToSet
<1> QED
  BY <1>4, <1>5

\* The types of what an operation has so far.
ProgressOK ==
  /\ index \in Nat /\ count \in Nat
  /\ indices \subseteq Nat /\ bands \subseteq Nat
  /\ kept \in Seq(Devices \union Nat) /\ faults \in Seq(Failures)
  /\ picked \subseteq Devices /\ Cardinality(picked) <= 1

\* A query of the status keeps them.
LEMMA QueriedTyped ==
  ASSUME ProgressOK, NEW reply \in {"ok"} \union Failures, Queried(reply)
  PROVE  ProgressOK'
<1>1. Append(kept, index) \in Seq(Devices \union Nat)
  BY DEF ProgressOK
<1>2. kept' \in Seq(Devices \union Nat)
  BY <1>1 DEF ProgressOK, Queried
<1>3. faults' \in Seq(Failures)
  BY DEF ProgressOK, Queried, Failures
<1> QED
  BY <1>2, <1>3 DEF ProgressOK, Queried

\* What becomes of a table that was read keeps them.
LEMMA ListedTyped ==
  ASSUME ProgressOK, NEW found \in Seq(Devices \union Nat), Listed(found)
  PROVE  ProgressOK'
<1>1. picked' \in {{}, Resolved(found)}
  BY DEF Listed
<1>2. picked' \subseteq Devices /\ Cardinality(picked') <= 1
  <2>1. /\ {} \subseteq Devices /\ Cardinality({}) <= 1
        /\ Resolved(found) \subseteq Devices
        /\ Cardinality(Resolved(found)) <= 1
    BY ResolvedIsOne, FS_EmptySet, CapabilitiesAssumption
  <2> QED
    BY <1>1, <2>1
<1>3. kept' \in Seq(Devices \union Nat)
  BY DEF Listed
<1> QED
  BY <1>2, <1>3 DEF ProgressOK, Listed

\* The entries that are read, of the hosts or of the devices of a radio, are
\* entries of the table.
LEMMA EntriesTyped ==
  ASSUME CapTypeOK
  PROVE  /\ Entries \in Seq(Devices) /\ ToSet(Entries) \subseteq ToSet(table)
         /\ task # "clients" => Entries = table
         /\ task = "clients" =>
              ToSet(Entries) = {d \in ToSet(table) : Band[d] \in Lowest(bands)}
<1>1. CASE task # "clients"
  BY <1>1 DEF Entries, CapTypeOK
<1>2. CASE task = "clients"
  <2> DEFINE S == {d \in ToSet(table) : Band[d] \in Lowest(bands)}
  <2>1. S \subseteq ToSet(table) /\ S \subseteq Devices
    BY ToSetTyped DEF CapTypeOK
  <2>2. IsFiniteSet(S)
    BY <2>1, CapabilitiesAssumption, FS_Subset
  <2>3. SetToSeq(S) \in Seq(S) /\ ToSet(SetToSeq(S)) = S
    BY <2>2, SetToSeqIsBijection
  <2>4. Entries = SetToSeq(S)
    BY <1>2 DEF Entries
  <2> HIDE DEF S
  <2>5. Entries \in Seq(Devices)
    BY <2>1, <2>3, <2>4, SeqMonotonic
  <2> QED
    BY <1>2, <2>1, <2>3, <2>4, <2>5 DEF S
<1> QED
  BY <1>1, <1>2

\* Every step of an operation keeps the types of its progress.
LEMMA ProgressStep ==
  ASSUME CapTypeOK, TaskInv, CapStep
  PROVE  ProgressOK'
<1>0. ProgressOK
  BY DEF CapTypeOK, ProgressOK
<1>a. ASSUME UNCHANGED progress PROVE ProgressOK'
  BY <1>0, <1>a DEF progress, ProgressOK
<1>1. CASE StatusQuery
  <2>1. PICK reply \in Replies : WanConnectionCall(reply)
    BY <1>1 DEF StatusQuery
  <2>2. UNCHANGED progress \/ Queried(reply)
    BY <2>1 DEF WanConnectionCall
  <2> QED
    BY <1>0, <1>a, <2>2, QueriedTyped, ReplyType
<1>2. CASE StatusPpp
  <2>1. \E reply \in {"ok", "transport"} : Queried(reply)
    BY <1>2 DEF StatusPpp
  <2> QED
    BY <1>0, <2>1, QueriedTyped DEF Failures
<1>3. CASE StatusEnd
  BY <1>3, <1>a DEF StatusEnd, Return
<1>4. CASE Read
  <2>1. PICK t \in DOMAIN Reads, reply \in Replies :
          \/ UNCHANGED progress \/ ReadAll(t, reply)
    BY <1>4 DEF Read, DslLineStats, OnlineMonitor, Igd, CallList, DeviceLog,
       HostByAddress, GuestWlanStatus, Discover, ServiceCall, MeshListPath,
       ReadOrIgd, Return, Reads
  <2>2. \/ UNCHANGED progress
        \/ /\ index' = index + 1
           /\ UNCHANGED <<count, indices, bands, kept, faults, picked>>
    BY <2>1 DEF ReadAll, Return
  <2>3. ASSUME index' = index + 1,
               UNCHANGED <<count, indices, bands, kept, faults, picked>>
        PROVE  ProgressOK'
    BY <1>0, <2>3 DEF ProgressOK
  <2> QED
    BY <1>a, <2>2, <2>3
<1>5. CASE WriteOnce
  BY <1>5, <1>a DEF WriteOnce, Dial, Hangup, Reboot, WakeOnLan, SetGuestWlan,
     Write, Return
<1>6. CASE BulkHosts
  <2>1. UNCHANGED progress \/ Listed(table)
    BY <1>6 DEF BulkHosts
  <2>2. table \in Seq(Devices)
    BY DEF CapTypeOK
  <2> QED
    BY <1>0, <1>a, <2>1, <2>2, ListedTyped
<1>7. CASE HostCount
  <2>1. \/ UNCHANGED progress
        \/ /\ count' = Len(table)
           /\ UNCHANGED <<index, indices, bands, kept, faults, picked>>
    BY <1>7 DEF HostCount, HostsFail, Return
  <2>2. Len(table) \in Nat
    BY DEF CapTypeOK
  <2> QED
    BY <1>0, <1>a, <2>1, <2>2 DEF ProgressOK
<1>8. CASE Entry
  <2>1. PICK reply \in EntryReplies :
          kept' = IF reply = "ok" THEN Append(kept, Entries[index]) ELSE kept
    BY <1>8 DEF Entry
  <2>2. reply = "ok" => Entries[index] \in Devices
    <3>1. index \in Nat /\ index > 0
      BY <1>0, <1>8 DEF Entry, TaskInv, ProgressOK
    <3>2. Entries \in Seq(Devices)
      BY EntriesTyped
    <3>3. reply = "ok" => index <= Len(Entries)
      BY <2>1 DEF EntryReplies
    <3> QED
      BY <3>1, <3>2, <3>3
  <2>3. kept' \in Seq(Devices \union Nat)
    BY <1>0, <2>1, <2>2 DEF ProgressOK
  <2> QED
    BY <1>0, <1>8, <2>3 DEF ProgressOK, Entry
<1>9. CASE HostsFromIndex
  BY <1>0, <1>9, ListedTyped DEF HostsFromIndex, ProgressOK
<1>10. CASE LookUp
  <2>1. picked' = {} \/ \E d \in ToSet(table) : picked' = {d}
    BY <1>10 DEF LookUp
  <2>2. ToSet(table) \subseteq Devices
    BY ToSetTyped DEF CapTypeOK
  <2>3. picked' \subseteq Devices /\ Cardinality(picked') <= 1
    BY <2>1, <2>2, AtMostOne
  <2>4. UNCHANGED <<index, count, indices, bands, kept, faults>>
    BY <1>10 DEF LookUp
  <2> QED
    BY <1>0, <2>3, <2>4 DEF ProgressOK
<1>11. CASE ProbePorts
  BY <1>11, <1>a DEF ProbePorts, Return
<1>12. CASE WlanConfigIndices
  <2>1. Radios \subseteq Nat
    BY CapabilitiesAssumption
  <2>2. Highest(Radios) \subseteq Nat /\ {1, 2, 3} \subseteq Nat
    <3>1. Highest(Radios) \subseteq Radios
      BY DEF Highest
    <3>2. Highest(Radios) \subseteq Nat
      BY <2>1, <3>1, Zenon
    <3>3. {1, 2, 3} \subseteq Nat
      OBVIOUS
    <3> QED
      BY <3>2, <3>3
  <2>3. /\ indices' \in {indices, Radios, {1, 2, 3}}
        /\ bands' \in {bands, {}, Highest(Radios)}
    BY <1>12 DEF WlanConfigIndices, GuestWlanIndex, RadioIndices
  <2>4. UNCHANGED <<index, count, kept, faults, picked>>
    BY <1>12 DEF WlanConfigIndices, GuestWlanIndex, RadioIndices
  <2> QED
    BY <1>0, <2>1, <2>2, <2>3, <2>4 DEF ProgressOK
<1>13. CASE RadioInfo
  <2>1. PICK radio \in indices :
          /\ indices' \in {indices, {}, indices \ {radio}}
          /\ bands' \in {bands, bands \union {radio}}
    BY <1>13 DEF RadioInfo, Lowest
  <2>2. UNCHANGED <<index, count, kept, faults, picked>>
    BY <1>13 DEF RadioInfo
  <2> QED
    BY <1>0, <2>1, <2>2 DEF ProgressOK
<1>14. CASE RadiosEnd
  BY <1>14, <1>a DEF RadiosEnd, Return
<1>15. CASE TotalAssociations
  <2>1. Len(Entries) \in Nat
    BY EntriesTyped
  <2>2. /\ index' \in {index, 1} /\ count' \in {count, Len(Entries)}
        /\ bands' \in {bands, bands \ Lowest(bands)}
        /\ UNCHANGED <<indices, kept, faults, picked>>
    BY <1>15 DEF TotalAssociations
  <2> QED
    BY <1>0, <2>1, <2>2 DEF ProgressOK
<1>16. CASE WlanClients
  BY <1>0, <1>16 DEF WlanClients, ProgressOK
<1>17. CASE AllWlanClients
  BY <1>17, <1>a DEF AllWlanClients, Return
<1> QED
  BY <1>1, <1>2, <1>3, <1>4, <1>5, <1>6, <1>7, <1>8, <1>9, <1>10, <1>11,
     <1>12, <1>13, <1>14, <1>15, <1>16, <1>17 DEF CapStep

\* Every step of an operation goes to another place of it, or returns.
LEMMA PlaceStep ==
  ASSUME CapTypeOK, TaskInv, CapStep
  PROVE  /\ TaskInv' /\ task' = task
         /\ at \notin {"idle", "returned"} /\ at' # "idle"
         /\ at' \in {"idle", "returned", "query", "ppp", "read", "igd",
                     "write", "path", "list", "count", "entry", "lookup",
                     "discover", "info", "total", "probe"}
         /\ answer' \in Failures \union {"none", "ok", "checks"}
         /\ missed' \in BOOLEAN
<1>0. /\ task \in TasksAt(at)
      /\ at \in {"path", "list", "count"} => index = 1
      /\ at = "entry" => index > 0
      /\ answer \in Failures \union {"none", "ok", "checks"}
      /\ missed \in BOOLEAN
  BY DEF CapTypeOK, TaskInv
<1> USE DEF TasksAt, TaskInv, Failures, Goto, Return
<1>1. CASE StatusQuery
  BY <1>0, <1>1, ReplyType DEF StatusQuery, WanConnectionCall, progress
<1>2. CASE StatusPpp
  BY <1>0, <1>2, ReplyType DEF StatusPpp
<1>3. CASE StatusEnd
  <2>1. faults # <<>> => Head(faults) \in Failures
    BY DEF CapTypeOK
  <2>2. Len(faults) = 4 => faults # <<>>
    OBVIOUS
  <2> QED
    BY <1>0, <1>3, <2>1, <2>2 DEF StatusEnd, Tasks
<1>4. CASE Read
  <2>1. PICK t \in DOMAIN Reads, reply \in Replies :
          \/ task = t /\ at = "read" /\ Goto("igd")
          \/ at = "igd" /\ Return(reply)
          \/ ReadAll(t, reply)
    BY <1>4 DEF Read, DslLineStats, OnlineMonitor, Igd, CallList, DeviceLog,
       HostByAddress, GuestWlanStatus, Discover, ServiceCall, MeshListPath,
       ReadOrIgd, Reads
  <2>2. /\ at \in {"read", "igd"} /\ task' = task
        /\ \/ at' \in {"read", "igd"} /\ answer' = answer
           \/ at' = "returned" /\ answer' = reply
    BY <2>1 DEF ReadAll
  <2> QED
    BY <1>0, <1>4, <2>2, ReplyType DEF Read, Tasks
<1>5. CASE WriteOnce
  <2>1. PICK t \in Writes, reply \in Replies : Write(t, reply)
    BY <1>5 DEF WriteOnce, Dial, Hangup, Reboot, WakeOnLan, SetGuestWlan,
       Writes
  <2> QED
    BY <1>0, <1>5, <2>1, ReplyType DEF Write, WriteOnce, Tasks, Writes
<1>6. CASE BulkHosts
  BY <1>0, <1>6 DEF BulkHosts, Listed, progress, Tasks, Listings
<1>7. CASE HostCount
  BY <1>0, <1>7, ReplyType DEF HostCount, HostsFail, Tasks, Listings
<1>8. CASE Entry
  <2>1. index \in Nat
    BY DEF CapTypeOK
  <2> QED
    BY <1>0, <1>8, <2>1 DEF Entry
<1>9. CASE HostsFromIndex
  BY <1>0, <1>9 DEF HostsFromIndex, Listed, Tasks, Listings
<1>10. CASE LookUp
  BY <1>0, <1>10 DEF LookUp
<1>11. CASE ProbePorts
  BY <1>0, <1>11 DEF ProbePorts, Tasks, Listings
<1>12. CASE WlanConfigIndices
  BY <1>0, <1>12, ReplyType
  DEF WlanConfigIndices, GuestWlanIndex, RadioIndices, Tasks, Wireless
<1>13. CASE RadioInfo
  BY <1>0, <1>13, ReplyType DEF RadioInfo, Tasks, Wireless
<1>14. CASE RadiosEnd
  BY <1>0, <1>14 DEF RadiosEnd, Tasks, Wireless
<1>15. CASE TotalAssociations
  BY <1>0, <1>15, ReplyType DEF TotalAssociations, Tasks, Wireless
<1>16. CASE WlanClients
  BY <1>0, <1>16 DEF WlanClients
<1>17. CASE AllWlanClients
  BY <1>0, <1>17 DEF AllWlanClients, Tasks, Wireless
<1> QED
  BY <1>1, <1>2, <1>3, <1>4, <1>5, <1>6, <1>7, <1>8, <1>9, <1>10, <1>11,
     <1>12, <1>13, <1>14, <1>15, <1>16, <1>17 DEF CapStep

\* No step of an operation touches the flag, the table or its history, but
\* an operation that writes does so once, when it returns.
LEMMA CapFrame ==
  ASSUME CapStep
  PROVE  /\ UNCHANGED <<cancelled, table, changes, stays, was, moved>>
         /\ \/ effect' = effect
            \/ /\ at = "write" /\ task \in Writes /\ at' = "returned"
               /\ effect' = effect + 1 /\ answer' # "unauthorized"
         /\ at = "write" /\ at' = "returned" /\ answer' = "ok" =>
              effect' = effect + 1
<1>1. CASE WriteOnce
  <2>1. PICK t \in Writes, reply \in Replies : Write(t, reply)
    BY <1>1 DEF WriteOnce, Dial, Hangup, Reboot, WakeOnLan, SetGuestWlan,
       Writes
  <2> QED
    BY <1>1, <2>1 DEF Write, WriteOnce, Return, router, history
<1>2. CASE ~WriteOnce
  <2>1. UNCHANGED <<cancelled, router, effect, history>>
    BY <1>2 DEF CapStep, StatusQuery, StatusPpp, StatusEnd, Read,
       BulkHosts, HostCount, Entry, HostsFromIndex, LookUp, ProbePorts,
       WlanConfigIndices, RadioInfo, RadiosEnd, TotalAssociations,
       WlanClients, AllWlanClients
  <2>2. at # "write"
    BY <1>2 DEF CapStep, StatusQuery, StatusPpp, StatusEnd, Read, DslLineStats,
       OnlineMonitor, Igd, CallList, DeviceLog,
       HostByAddress, GuestWlanStatus, Discover, ServiceCall, MeshListPath,
       ReadOrIgd, ReadAll, BulkHosts, HostCount, Entry, HostsFromIndex,
       LookUp, ProbePorts, WlanConfigIndices, RadioInfo, RadiosEnd,
       TotalAssociations, WlanClients, AllWlanClients
  <2> QED
    BY <2>1, <2>2 DEF router, history
<1> QED
  BY <1>1, <1>2

\* Every step of an operation keeps the types and the places.
LEMMA CapTypeStep ==
  ASSUME CapTypeOK, TaskInv, CapStep, effect' \in 0..1
  PROVE  CapTypeOK'
<1>1. ProgressOK'
  BY ProgressStep
<1>2. task' \in Tasks \union {"none"}
  BY PlaceStep DEF CapTypeOK
<1>3. /\ cancelled' \in BOOLEAN
      /\ table' \in Seq(Devices) /\ IsInjective(table')
      /\ changes' \in 0..MaxChanges
      /\ stays' \subseteq was' /\ was' \subseteq Devices
      /\ moved' \in BOOLEAN
  BY CapFrame DEF CapTypeOK
<1> QED
  BY <1>1, <1>2, <1>3, PlaceStep DEF CapTypeOK, ProgressOK

-----------------------------------------------------------------------------
(* Listings                                                                *)

\* While a table is read, the history holds what it had and has, and nothing
\* else was read.
HistoryInv ==
  /\ task \in Listings \union {"clients"} =>
       /\ stays \subseteq ToSet(table) /\ ToSet(table) \subseteq was
       /\ ToSet(kept) \subseteq was
  /\ task = "clients" => picked = {}

\* As long as the entries do not move, the announced count is theirs, and
\* those before the index were read, unless a request failed.
EntryInv ==
  at = "entry" /\ ~moved =>
    /\ count = Len(Entries)
    /\ ~missed => \A i \in DOMAIN Entries :
                    i < index => Entries[i] \in ToSet(kept)

\* Each radio is to be asked, or to be read, or its devices were.
RadioInv ==
  task = "clients" /\ ~missed /\ ~moved =>
    /\ at = "info" => /\ Radios \subseteq indices \union bands
                      /\ Radios = {} \/ indices \subseteq Radios
    /\ at \in {"total", "entry"} =>
         \A d \in stays :
           Band[d] \in Radios => Band[d] \in bands \/ d \in ToSet(kept)

\* A status that succeeds has primary data or no failure, a diagnosis that
\* does has its host.
AnswerInv ==
  at = "returned" /\ answer = "ok" =>
    /\ task = "status" => Primary # {} \/ faults = <<>>
    /\ task = "diagnose" => picked # {}

ListInv == HistoryInv /\ EntryInv /\ RadioInv /\ AnswerInv /\ ListedOrFailed

\* A table that was read makes a sound listing.
LEMMA ListedSound ==
  ASSUME CapTypeOK, HistoryInv, task \in Listings,
         NEW found \in Seq(Devices \union Nat), ToSet(found) \subseteq was,
         ~missed /\ ~moved => stays \subseteq ToSet(found),
         Listed(found),
         UNCHANGED <<table, stays, was, moved, missed>>
  PROVE  ListInv'
<1>1. /\ picked' \in {{}, Resolved(found)} /\ kept' = found /\ task' = task
      /\ at' \in {"probe", "returned"}
      /\ at' = "returned" => task # "diagnose"
      /\ answer' = "ok" /\ at' = "returned" /\ task = "name" =>
           picked' = Resolved(found) /\ picked' # {}
  BY DEF Listed
<1>2. picked' \subseteq Named \intersect was
  BY <1>1, ResolvedIsOne
<1>3. task # "clients" /\ task # "status"
  BY DEF Listings
<1>4. task = "name" /\ at' = "returned" /\ answer' = "ok" =>
        Named \intersect ToSet(found) \subseteq picked'
  BY <1>1, ResolvedIsOne
<1>5. HistoryInv'
  BY <1>1, <1>3 DEF HistoryInv
<1>6. EntryInv' /\ RadioInv' /\ AnswerInv'
  BY <1>1, <1>3 DEF EntryInv, RadioInv, AnswerInv
<1>7. ListedOrFailed'
  BY <1>1, <1>2, <1>3, <1>4 DEF ListedOrFailed, Expected
<1> QED
  BY <1>5, <1>6, <1>7 DEF ListInv

\* Other operations than listings have nothing to lose.
LEMMA UnlistedSound ==
  ASSUME TaskInv', task' \notin Listings \union {"clients"}, AnswerInv'
  PROVE  ListInv'
<1>1. HistoryInv' /\ RadioInv'
  BY DEF HistoryInv, RadioInv
<1>2. EntryInv'
  BY DEF EntryInv, TaskInv, TasksAt
<1>3. ListedOrFailed'
  BY DEF ListedOrFailed, Listings
<1> QED
  BY <1>1, <1>2, <1>3 DEF ListInv

\* Every step of an operation keeps its listing sound.
LEMMA ListStep ==
  ASSUME CapTypeOK, TaskInv, ListInv, CapStep
  PROVE  ListInv'
<1>0. /\ TaskInv' /\ task' = task /\ at' # "idle"
      /\ UNCHANGED <<table, stays, was, moved>>
  BY PlaceStep, CapFrame
<1>a. ASSUME task \notin Listings \union {"clients"}, AnswerInv'
      PROVE  ListInv'
  BY <1>0, <1>a, UnlistedSound
<1>b. /\ HistoryInv /\ EntryInv /\ RadioInv
      /\ table \in Seq(Devices) /\ index \in Nat /\ count \in Nat
      /\ kept \in Seq(Devices \union Nat) /\ missed \in BOOLEAN
      /\ Entries \in Seq(Devices) /\ ToSet(Entries) \subseteq ToSet(table)
  BY EntriesTyped DEF ListInv, CapTypeOK
<1> USE DEF TasksAt
<1>1. CASE StatusQuery \/ StatusPpp
  <2>1. at' # "returned" /\ at \in {"query", "ppp"}
    BY <1>1 DEF StatusQuery, StatusPpp, WanConnectionCall, Goto
  <2>2. task = "status" /\ AnswerInv'
    BY <2>1 DEF TaskInv, AnswerInv
  <2> QED
    BY <1>a, <2>2 DEF Listings
<1>2. CASE StatusEnd
  <2>1. task = "status"
    BY <1>2 DEF StatusEnd, TaskInv
  <2>2. answer' = "ok" => Primary # {} \/ faults = <<>>
    <3>1. faults # <<>> => Head(faults) \in Failures
      BY DEF CapTypeOK
    <3>2. Len(faults) = 4 => faults # <<>>
      OBVIOUS
    <3> QED
      BY <1>2, <3>1, <3>2 DEF StatusEnd, Return, Failures
  <2>3. UNCHANGED <<kept, faults>>
    BY <1>2 DEF StatusEnd, Return, progress
  <2>4. AnswerInv'
    BY <1>0, <2>1, <2>2, <2>3 DEF AnswerInv, Primary
  <2> QED
    BY <1>a, <2>1, <2>4 DEF Listings
<1>3. CASE Read \/ WriteOnce
  <2>1. at \in {"read", "igd", "write"}
    BY <1>3 DEF WriteOnce, Dial, Hangup, Reboot, WakeOnLan, SetGuestWlan,
       Write, Read, DslLineStats, OnlineMonitor, Igd, CallList, DeviceLog,
       HostByAddress, GuestWlanStatus, Discover, ServiceCall, MeshListPath,
       ReadOrIgd, ReadAll
  <2>2. task \in DOMAIN Reads \union Writes
    BY <2>1 DEF TaskInv
  <2>3. AnswerInv' /\ task \notin Listings \union {"clients"}
    BY <1>0, <2>2 DEF AnswerInv, Reads, Writes, Listings
  <2> QED
    BY <1>a, <2>3
<1>4. CASE BulkHosts
  <2>1. task \in Listings /\ at \in {"path", "list"} /\ UNCHANGED missed
    BY <1>4 DEF BulkHosts, TaskInv
  <2>2. CASE Listed(table)
    <3>1. /\ table \in Seq(Devices \union Nat) /\ ToSet(table) \subseteq was
          /\ stays \subseteq ToSet(table)
      BY <1>b, <2>1 DEF HistoryInv
    <3> QED
      BY <1>0, <1>b, <2>1, <2>2, <3>1, ListedSound
  <2>3. CASE at' \in {"list", "count"} /\ UNCHANGED <<answer, progress>>
    BY <1>0, <1>b, <2>1, <2>3 DEF ListInv, HistoryInv, EntryInv, RadioInv,
       AnswerInv, ListedOrFailed, progress, Listings
  <2> QED
    BY <1>4, <2>2, <2>3 DEF BulkHosts, Goto
<1>5. CASE HostCount
  <2>1. task \in Listings /\ at = "count" /\ index = 1 /\ UNCHANGED missed
    BY <1>5 DEF HostCount, TaskInv
  <2>2. CASE at' # "entry"
    <3>1. /\ UNCHANGED progress
          /\ at' = "returned" => answer' # "ok"
      BY <1>5, <2>2 DEF HostCount, HostsFail, Goto, Return
    <3> QED
      BY <1>0, <1>b, <2>1, <2>2, <3>1 DEF ListInv, HistoryInv, EntryInv,
         RadioInv, AnswerInv, ListedOrFailed, progress, Listings
  <2>3. CASE at' = "entry"
    <3>1. /\ count' = Len(table)
          /\ UNCHANGED <<index, indices, bands, kept, faults, picked>>
      BY <1>5, <2>3 DEF HostCount, HostsFail, Goto, Return
    <3>2. task # "clients" /\ Entries' = table
      BY <1>0, <2>1 DEF Entries, Listings
    <3>3. EntryInv'
      BY <1>0, <1>b, <2>1, <3>1, <3>2 DEF EntryInv
    <3> QED
      BY <1>0, <1>b, <2>1, <2>3, <3>1, <3>2, <3>3 DEF ListInv, HistoryInv,
         RadioInv, AnswerInv, ListedOrFailed
  <2> QED
    BY <2>2, <2>3
<1>6. CASE Entry
  <2>1. /\ at = "entry" /\ at' = "entry" /\ index' = index + 1
        /\ UNCHANGED <<count, indices, bands, picked>>
        /\ task \in Listings \union {"clients"} /\ index > 0
    BY <1>6 DEF Entry, TaskInv
  <2>2. Entries' = Entries
    BY <1>0, <2>1 DEF Entries, Lowest
  <2>3. \/ /\ index \in DOMAIN Entries
           /\ kept' = Append(kept, Entries[index]) /\ missed' = missed
        \/ /\ kept' = kept
           /\ missed' = (missed \/ index \in DOMAIN Entries)
    <3>1. DOMAIN Entries = 1..Len(Entries) /\ Len(Entries) \in Nat
      BY <1>b
    <3>2. index <= Len(Entries) <=> index \in DOMAIN Entries
      BY <1>b, <2>1, <3>1
    <3>3. PICK reply \in EntryReplies :
            /\ kept' = IF reply = "ok" THEN Append(kept, Entries[index])
                       ELSE kept
            /\ missed' = (missed \/ (reply # "ok" /\ index <= Len(Entries)))
      BY <1>6 DEF Entry
    <3>4. reply = "ok" => index <= Len(Entries)
      BY DEF EntryReplies
    <3> QED
      BY <1>b, <3>2, <3>3, <3>4
  <2>4. \/ /\ index \in DOMAIN Entries /\ missed' = missed
           /\ ToSet(kept') = ToSet(kept) \union {Entries[index]}
        \/ /\ ToSet(kept') = ToSet(kept)
           /\ missed' = (missed \/ index \in DOMAIN Entries)
    <3>1. index \in DOMAIN Entries => Entries[index] \in Devices \union Nat
      BY <1>b
    <3>2. index \in DOMAIN Entries =>
            ToSet(Append(kept, Entries[index]))
              = ToSet(kept) \union {Entries[index]}
      BY <1>b, <3>1, ToSetOfAppend
    <3> QED
      BY <2>3, <3>2
  <2>5. index \in DOMAIN Entries => Entries[index] \in ToSet(table)
    BY <1>b DEF ToSet
  <2>6. HistoryInv'
    BY <1>0, <1>b, <2>1, <2>4, <2>5 DEF HistoryInv
  <2>7. EntryInv'
    <3> SUFFICES ASSUME ~moved
                 PROVE  /\ count = Len(Entries)
                        /\ ~missed' =>
                             \A i \in DOMAIN Entries :
                               i < index + 1 => Entries[i] \in ToSet(kept')
      BY <1>0, <2>1, <2>2 DEF EntryInv
    <3>1. /\ count = Len(Entries)
          /\ ~missed => \A i \in DOMAIN Entries :
                          i < index => Entries[i] \in ToSet(kept)
      BY <1>b, <2>1 DEF EntryInv
    <3>2. \A i \in DOMAIN Entries : i < index + 1 => i < index \/ i = index
      BY <1>b
    <3>3. ASSUME ~missed', NEW i \in DOMAIN Entries, i < index + 1
          PROVE  Entries[i] \in ToSet(kept')
      <4>1. CASE i < index
        <5>1. ~missed
          BY <2>4, <3>3
        <5>2. Entries[i] \in ToSet(kept)
          BY <3>1, <3>3, <4>1, <5>1
        <5>3. ToSet(kept) \subseteq ToSet(kept')
          BY <2>4
        <5> QED
          BY <5>2, <5>3
      <4>2. CASE i = index
        BY <2>4, <3>3, <4>2
      <4> QED
        BY <3>2, <3>3, <4>1, <4>2
    <3> QED
      BY <3>1, <3>3
  <2>8. RadioInv'
    BY <1>0, <1>b, <2>1, <2>4 DEF RadioInv
  <2> QED
    BY <2>1, <2>6, <2>7, <2>8 DEF ListInv, AnswerInv, ListedOrFailed
<1>7. CASE HostsFromIndex
  <2>1. /\ at = "entry" /\ index > count /\ task \in Listings
        /\ Listed(kept) /\ UNCHANGED missed
    BY <1>7 DEF HostsFromIndex
  <2>2. Entries = table /\ ToSet(kept) \subseteq was
    BY <1>b, <2>1, EntriesTyped DEF HistoryInv, Listings
  <2>3. ASSUME ~missed, ~moved
        PROVE  stays \subseteq ToSet(kept)
    <3>1. \A i \in DOMAIN table : table[i] \in ToSet(kept)
      BY <1>b, <2>1, <2>2, <2>3 DEF EntryInv
    <3> QED
      BY <1>b, <2>1, <3>1 DEF HistoryInv, ToSet
  <2> QED
    BY <1>0, <1>b, <2>1, <2>2, <2>3, ListedSound
<1>8. CASE LookUp
  <2>1. task = "diagnose" /\ at' = "probe"
        /\ UNCHANGED <<index, count, indices, bands, kept, faults, missed>>
    BY <1>8 DEF LookUp, TaskInv, Goto
  <2> QED
    BY <1>0, <1>b, <2>1 DEF ListInv, HistoryInv, EntryInv, RadioInv,
       AnswerInv, ListedOrFailed, Listings
<1>9. CASE ProbePorts
  <2>1. /\ task = "diagnose" /\ at' = "returned" /\ UNCHANGED progress
        /\ UNCHANGED missed /\ (answer' = "ok" => picked # {})
    BY <1>9 DEF ProbePorts, TaskInv, Return
  <2> QED
    BY <1>0, <1>b, <2>1 DEF ListInv, HistoryInv, EntryInv, RadioInv,
       AnswerInv, ListedOrFailed, Listings, progress
<1>10. CASE WlanConfigIndices
  <2>1. /\ task \in Wireless /\ UNCHANGED <<kept, picked>>
        /\ at' \in {"info", "returned"}
    BY <1>10 DEF WlanConfigIndices, TaskInv, GuestWlanIndex, RadioIndices, Goto
  <2>2. CASE task # "clients"
    <3>1. AnswerInv' /\ task \notin Listings \union {"clients"}
      BY <1>0, <2>1, <2>2 DEF AnswerInv, Wireless, Listings
    <3> QED
      BY <1>a, <3>1
  <2>3. CASE task = "clients"
    <3>1. /\ at' = "info" /\ UNCHANGED bands
          /\ ~missed' => /\ Radios \subseteq indices'
                         /\ Radios = {} \/ indices' \subseteq Radios
      BY <1>10, <2>3 DEF WlanConfigIndices, GuestWlanIndex, RadioIndices, Goto
    <3> QED
      BY <1>0, <1>b, <2>1, <2>3, <3>1 DEF ListInv, HistoryInv, EntryInv,
         RadioInv, AnswerInv, ListedOrFailed
  <2> QED
    BY <2>2, <2>3
<1>11. CASE RadioInfo
  <2>1. /\ task \in {"radios", "clients"} /\ at = "info"
        /\ UNCHANGED <<kept, picked>>
    BY <1>11 DEF RadioInfo, TaskInv
  <2>2. PICK radio \in indices :
          \/ at' = "returned" /\ answer' # "ok"
          \/ /\ at' = "info" /\ bands' = bands \union {radio}
             /\ indices' = indices \ {radio} /\ missed' = missed
          \/ /\ at' = "info" /\ indices' = {} /\ bands' = bands
             /\ missed' = (missed \/ radio \in Radios)
    <3>1. PICK radio \in indices, reply \in Replies :
            /\ IF reply = "ok"
               THEN /\ bands' = bands \union {radio}
                    /\ indices' = indices \ {radio}
                    /\ UNCHANGED <<at, answer>>
               ELSE IF radio = 1 \/ reply \in {"unauthorized", "transport"}
               THEN at' = "returned" /\ answer' = reply
               ELSE indices' = {} /\ UNCHANGED <<bands, at, answer>>
            /\ missed' = (missed \/ (radio \in Radios /\ reply # "ok"))
      BY <1>11 DEF RadioInfo, Lowest
    <3>2. CASE reply = "ok"
      BY <1>b, <2>1, <3>1, <3>2
    <3>3. CASE reply # "ok"
      BY <1>b, <2>1, <3>1, <3>3
    <3> QED
      BY <3>2, <3>3
  <2>3. HistoryInv' /\ EntryInv'
    BY <1>0, <1>b, <2>1, <2>2 DEF HistoryInv, EntryInv, TaskInv
  <2>4. CASE at' = "returned"
    BY <1>0, <2>1, <2>2, <2>3, <2>4 DEF ListInv, RadioInv, AnswerInv,
       ListedOrFailed
  <2>5. CASE at' # "returned"
    <3>1. RadioInv'
      <4> SUFFICES ASSUME task = "clients", ~missed', ~moved
                   PROVE  /\ Radios \subseteq indices' \union bands'
                          /\ Radios = {} \/ indices' \subseteq Radios
        BY <1>0, <2>2, <2>5 DEF RadioInv
      <4>1. ~missed
        BY <2>2, <2>5
      <4>2. /\ Radios \subseteq indices \union bands
            /\ Radios = {} \/ indices \subseteq Radios
        BY <1>b, <2>1, <4>1 DEF RadioInv
      <4>3. CASE bands' = bands \union {radio} /\ indices' = indices \ {radio}
        BY <4>2, <4>3
      <4>4. CASE indices' = {} /\ missed' = (missed \/ radio \in Radios)
        BY <4>2, <4>4
      <4> QED
        BY <2>2, <2>5, <4>3, <4>4
    <3> QED
      BY <2>2, <2>3, <2>5, <3>1 DEF ListInv, AnswerInv, ListedOrFailed
  <2> QED
    BY <2>4, <2>5
<1>12. CASE RadiosEnd
  <2>1. /\ task \in {"radios", "clients"} /\ at = "info" /\ indices = {}
        /\ UNCHANGED progress /\ UNCHANGED missed
        /\ \/ at' = "returned" /\ (answer' = "ok" => task = "radios")
           \/ at' = "total"
    BY <1>12 DEF RadiosEnd, TaskInv, Return, Goto
  <2> QED
    BY <1>0, <1>b, <2>1 DEF ListInv, HistoryInv, EntryInv, RadioInv,
       AnswerInv, ListedOrFailed, progress
<1>13. CASE TotalAssociations
  <2>1. task = "clients" /\ at = "total" /\ UNCHANGED <<kept, picked>>
    BY <1>13 DEF TotalAssociations, TaskInv
  <2>2. \/ /\ at' = "entry" /\ index' = 1 /\ count' = Len(Entries)
           /\ UNCHANGED <<bands, missed>>
        \/ at' = "returned" /\ answer' # "ok"
        \/ at' = "total" /\ missed'
    <3>1. PICK reply \in Replies \union {"odd"} :
            /\ CASE reply = "ok" -> /\ at' = "entry" /\ index' = 1
                                    /\ count' = Len(Entries)
                                    /\ UNCHANGED bands
                 [] reply = "odd" -> at' = "returned" /\ answer' = "transport"
                 [] OTHER -> at' = "total"
            /\ missed' = (missed \/ reply # "ok")
      BY <1>13 DEF TotalAssociations, Goto
    <3> QED
      BY <1>b, <3>1
  <2>3. HistoryInv'
    BY <1>0, <1>b, <2>1 DEF HistoryInv
  <2>4. CASE at' = "entry"
    <3>1. Entries' = Entries
      BY <1>0, <2>2, <2>4 DEF Entries, Lowest
    <3>2. EntryInv'
      BY <1>b, <2>2, <2>4, <3>1 DEF EntryInv
    <3> QED
      BY <1>0, <1>b, <2>1, <2>2, <2>3, <2>4, <3>2 DEF ListInv, RadioInv,
         AnswerInv, ListedOrFailed
  <2>5. CASE at' # "entry"
    BY <1>0, <1>b, <2>1, <2>2, <2>3, <2>5 DEF ListInv, EntryInv, RadioInv,
       AnswerInv, ListedOrFailed
  <2> QED
    BY <2>4, <2>5
<1>14. CASE WlanClients
  <2>1. /\ task = "clients" /\ at = "entry" /\ at' = "total"
        /\ index > count /\ bands' = bands \ Lowest(bands)
        /\ UNCHANGED <<kept, picked, missed>>
    BY <1>14 DEF WlanClients, Goto
  <2>2. ASSUME ~missed, ~moved,
               NEW d \in stays, Band[d] \in Radios, Band[d] \notin bands'
        PROVE  d \in ToSet(kept)
    <3>1. CASE Band[d] \notin bands
      BY <1>b, <2>1, <2>2, <3>1 DEF RadioInv
    <3>2. CASE Band[d] \in bands
      <4>1. Band[d] \in Lowest(bands) /\ d \in ToSet(table)
        BY <1>b, <2>1, <2>2, <3>2 DEF HistoryInv
      <4>2. d \in ToSet(Entries)
        BY <2>1, <4>1, EntriesTyped
      <4>3. PICK i \in DOMAIN Entries : Entries[i] = d
        BY <4>2 DEF ToSet
      <4>4. i < index
        BY <1>b, <2>1, <2>2 DEF EntryInv
      <4> QED
        BY <1>b, <2>1, <2>2, <4>3, <4>4 DEF EntryInv
    <3> QED
      BY <3>1, <3>2
  <2> QED
    BY <1>0, <1>b, <2>1, <2>2 DEF ListInv, HistoryInv, EntryInv, RadioInv,
       AnswerInv, ListedOrFailed
<1>15. CASE AllWlanClients
  <2>1. /\ task = "clients" /\ at = "total" /\ at' = "returned" /\ bands = {}
        /\ UNCHANGED progress /\ UNCHANGED missed
    BY <1>15 DEF AllWlanClients, TaskInv, Return
  <2>2. ~missed /\ ~moved =>
          {d \in stays : Band[d] \in Radios} \subseteq ToSet(kept)
    BY <1>b, <2>1 DEF RadioInv
  <2>3. picked = {}
    BY <1>b, <2>1 DEF HistoryInv
  <2> QED
    BY <1>0, <1>b, <2>1, <2>2, <2>3 DEF ListInv, HistoryInv, EntryInv,
       RadioInv, AnswerInv, ListedOrFailed, Expected, progress
<1> QED
  BY <1>1, <1>2, <1>3, <1>4, <1>5, <1>6, <1>7, <1>8, <1>9, <1>10, <1>11,
     <1>12, <1>13, <1>14, <1>15 DEF CapStep

-----------------------------------------------------------------------------
(* The invariant of the operations                                         *)

CapInv == CapTypeOK /\ TaskInv /\ ListInv

\* The invariant holds before the first operation.
LEMMA CapInvInit == CapInit => CapInv
<1> SUFFICES ASSUME CapInit PROVE CapInv
  OBVIOUS
<1>1. table \in Seq(Devices) /\ IsInjective(table)
  BY SetToSeqIsBijection, CapabilitiesAssumption DEF CapInit
<1>2. Cardinality(picked) <= 1
  BY FS_EmptySet DEF CapInit
<1>3. CapTypeOK
  <2>1. kept \in Seq(Devices \union Nat) /\ faults \in Seq(Failures)
    BY DEF CapInit
  <2>2. changes \in 0..MaxChanges /\ effect \in 0..1
    BY CapabilitiesAssumption DEF CapInit
  <2>3. /\ indices \subseteq Nat /\ bands \subseteq Nat
        /\ index \in Nat /\ count \in Nat
        /\ picked \subseteq Devices /\ stays \subseteq was
        /\ was \subseteq Devices
    BY DEF CapInit
  <2> QED
    BY <1>1, <1>2, <2>1, <2>2, <2>3 DEF CapInit, CapTypeOK
<1>4. TaskInv
  BY DEF CapInit, TaskInv, TasksAt
<1>5. ListInv
  BY DEF CapInit, ListInv, HistoryInv, EntryInv, RadioInv, AnswerInv,
     ListedOrFailed, Listings
<1> QED
  BY <1>3, <1>4, <1>5 DEF CapInv

\* An operation begins with nothing.
LEMMA BeginSound ==
  ASSUME CapInv, NEW t \in Tasks, Begin(t)
  PROVE  CapInv'
<1> USE DEF CapInv
<1>1. /\ task' = t /\ at' \in First(t) /\ index' = 1 /\ count' = 0
      /\ indices' = {} /\ bands' = {} /\ kept' = <<>> /\ faults' = <<>>
      /\ picked' = {} /\ answer' = "none" /\ stays' = ToSet(table)
      /\ was' = ToSet(table) /\ moved' = FALSE /\ missed' = FALSE
      /\ UNCHANGED <<cancelled, table, changes, effect>>
  BY DEF Begin, router
<1>2. /\ at' \in {"query", "read", "write", "path", "lookup", "discover"}
      /\ task' \in TasksAt(at')
  BY <1>1 DEF First, TasksAt, Tasks, Reads, Listings, Writes, Wireless
<1>3. ToSet(table) \subseteq Devices
  BY ToSetTyped DEF CapTypeOK
<1>4. CapTypeOK'
  <2>1. Cardinality(picked') <= 1
    BY <1>1, FS_EmptySet
  <2>2. kept' \in Seq(Devices \union Nat) /\ faults' \in Seq(Failures)
    BY <1>1
  <2>3. task' \in Tasks \union {"none"} /\ at' \notin {"idle", "returned"}
    BY <1>1, <1>2
  <2> QED
    BY <1>1, <1>2, <1>3, <2>1, <2>2, <2>3 DEF CapTypeOK
<1>5. TaskInv'
  BY <1>1, <1>2 DEF TaskInv
<1>6. ToSet(kept') = {}
  BY <1>1 DEF ToSet
<1>7. ListInv'
  BY <1>1, <1>2, <1>6 DEF ListInv, HistoryInv, EntryInv, RadioInv, AnswerInv,
     ListedOrFailed
<1> QED
  BY <1>4, <1>5, <1>7

\* The caller takes the answer.
LEMMA EndSound ==
  ASSUME CapInv, End, UNCHANGED <<cancelled, router, effect, history, missed>>
  PROVE  CapInv'
<1> USE DEF CapInv
<1>1. CapTypeOK'
  BY DEF End, CapTypeOK, progress, router, history
<1>2. TaskInv'
  BY DEF End, TaskInv, TasksAt
<1>3. ListInv'
  BY DEF End, ListInv, HistoryInv, EntryInv, RadioInv, AnswerInv,
     ListedOrFailed, Listings
<1> QED
  BY <1>1, <1>2, <1>3

\* A step of an operation.
LEMMA CapStepSound ==
  ASSUME CapInv, CapStep, effect' \in 0..1
  PROVE  CapInv'
  BY CapTypeStep, PlaceStep, ListStep DEF CapInv

\* The router's table changes.
LEMMA TableChangesSound ==
  ASSUME CapInv, TableChanges
  PROVE  CapInv' /\ UNCHANGED <<cancelled, operation, effect, missed>>
<1> USE DEF CapInv
<1>1. /\ task \in Listings \union {"clients"} /\ at # "returned"
      /\ changes' = changes + 1 /\ changes < MaxChanges
      /\ stays' = stays \intersect ToSet(table')
      /\ was' = was \union ToSet(table')
      /\ moved' = (moved \/ at = "entry")
      /\ UNCHANGED <<cancelled, operation, effect, missed>>
  BY DEF TableChanges
<1>2. table' \in Seq(Devices) /\ IsInjective(table')
  <2>1. table \in Seq(Devices) /\ IsInjective(table)
    BY DEF CapTypeOK
  <2>2. CASE \E i \in DOMAIN table : table' = RemoveAt(table, i)
    BY <2>1, <2>2, RemoveAtKeeps
  <2>3. CASE \E d \in Devices \ ToSet(table), i \in 1..(Len(table) + 1) :
               table' = InsertAt(table, i, d)
    BY <2>1, <2>3, InsertAtKeeps
  <2> QED
    BY <2>2, <2>3 DEF TableChanges
<1>3. ToSet(table') \subseteq Devices
  BY <1>2, ToSetTyped
<1>4. CapTypeOK'
  <2>1. changes' \in 0..MaxChanges
    BY <1>1, CapabilitiesAssumption DEF CapTypeOK
  <2> QED
    BY <1>1, <1>2, <1>3, <2>1 DEF CapTypeOK, operation, progress
<1>5. TaskInv'
  BY <1>1 DEF TaskInv, TasksAt, operation, progress
<1>6. ListInv'
  BY <1>1 DEF ListInv, HistoryInv, EntryInv, RadioInv, AnswerInv,
     ListedOrFailed, operation, progress
<1> QED
  BY <1>1, <1>4, <1>5, <1>6

\* The steps of the process that leave the operation alone.
LEMMA CapIdleSound ==
  ASSUME CapInv, UNCHANGED <<operation, table, history, missed>>,
         cancelled' \in BOOLEAN, changes' \in 0..MaxChanges, effect' \in 0..1
  PROVE  CapInv'
<1> USE DEF CapInv, operation, progress, history
<1>1. CapTypeOK'
  BY DEF CapTypeOK
<1>2. TaskInv'
  BY DEF TaskInv, TasksAt
<1>3. HistoryInv' /\ RadioInv' /\ AnswerInv' /\ ListedOrFailed'
  BY DEF ListInv, HistoryInv, RadioInv, AnswerInv, ListedOrFailed, Expected,
     Primary
<1>4. EntryInv'
  BY DEF ListInv, EntryInv, Entries, Lowest
<1> QED
  BY <1>1, <1>2, <1>3, <1>4 DEF ListInv

-----------------------------------------------------------------------------
(* The DNS diagnosis                                                       *)

Names == Owners \union {"none"}

\* Fifteen hops by doubling, of a chain over three names.
LEMMA FifteenHops ==
  ASSUME NEW hop \in [Names -> Names],
         hop["other"] = "other", hop["none"] = "none"
  PROVE  LET hops2 == [owner \in DOMAIN hop |-> hop[hop[owner]]]
             hops4 == [owner \in DOMAIN hop |-> hops2[hops2[owner]]]
             hops8 == [owner \in DOMAIN hop |-> hops4[hops4[owner]]]
             last == hops8[hops4[hops2[hop[Query]]]]
         IN IF hop[Query] # "alias" THEN last = hop[Query]
            ELSE IF hop["alias"] # Query THEN last = hop["alias"]
            ELSE last \in {Query, "alias"}
<1> DEFINE hops2 == [owner \in DOMAIN hop |-> hop[hop[owner]]]
           hops4 == [owner \in DOMAIN hop |-> hops2[hops2[owner]]]
           hops8 == [owner \in DOMAIN hop |-> hops4[hops4[owner]]]
           last == hops8[hops4[hops2[hop[Query]]]]
<1>1. /\ DOMAIN hop = Names /\ Names = {Query, "alias", "other", "none"}
      /\ Query = "query"
      /\ \A n \in Names : hop[n] \in Names
  BY DEF Names, Owners, Query
<1>2. \A n \in Names : hops2[n] = hop[hop[n]]
  BY <1>1
<1>3. \A n \in Names : hops2[n] \in Names
  BY <1>1, <1>2
<1>4. \A n \in Names : hops4[n] = hops2[hops2[n]]
  BY <1>1
<1>5. \A n \in Names : hops4[n] \in Names
  BY <1>3, <1>4
<1>6. \A n \in Names : hops8[n] = hops4[hops4[n]]
  BY <1>1
<1>7. last = hops8[hops4[hops2[hop[Query]]]]
  OBVIOUS
<1> HIDE DEF hops2, hops4, hops8, last
<1>8. /\ hops2["other"] = "other" /\ hops2["none"] = "none"
      /\ hops4["other"] = "other" /\ hops4["none"] = "none"
      /\ hops8["other"] = "other" /\ hops8["none"] = "none"
  BY <1>1, <1>2, <1>4, <1>6
<1>9. CASE hop[Query] # "alias"
  <2>1. hop[Query] \in {Query, "other", "none"}
    BY <1>1, <1>9
  <2>2. ASSUME hop[Query] = Query PROVE last = hop[Query]
    <3>1. hops2[Query] = Query
      BY <1>1, <1>2, <2>2
    <3>2. hops4[Query] = Query
      BY <1>1, <1>4, <3>1
    <3>3. hops8[Query] = Query
      BY <1>1, <1>6, <3>2
    <3> QED
      BY <1>7, <2>2, <3>1, <3>2, <3>3
  <2>3. ASSUME hop[Query] = "other" PROVE last = hop[Query]
    BY <1>7, <1>8, <2>3
  <2>4. ASSUME hop[Query] = "none" PROVE last = hop[Query]
    BY <1>7, <1>8, <2>4
  <2>5. last = hop[Query]
    BY <2>1, <2>2, <2>3, <2>4
  <2> QED
    BY <1>9, <2>5 DEF last, hops2, hops4, hops8
<1>10. CASE hop[Query] = "alias" /\ hop["alias"] # Query
  <2>1. hop["alias"] \in {"alias", "other", "none"}
    BY <1>1, <1>10
  <2>2. hops2["alias"] = hop[hop["alias"]]
    BY <1>1, <1>2
  <2>3. ASSUME hop["alias"] = "alias" PROVE last = hop["alias"]
    <3>1. hops2["alias"] = "alias"
      BY <2>2, <2>3
    <3>2. hops4["alias"] = "alias"
      BY <1>1, <1>4, <3>1
    <3>3. hops8["alias"] = "alias"
      BY <1>1, <1>6, <3>2
    <3> QED
      BY <1>7, <1>10, <2>3, <3>1, <3>2, <3>3
  <2>4. ASSUME hop["alias"] = "other" PROVE last = hop["alias"]
    <3>1. hops2["alias"] = "other"
      BY <1>1, <2>2, <2>4
    <3> QED
      BY <1>7, <1>8, <1>10, <2>4, <3>1
  <2>5. ASSUME hop["alias"] = "none" PROVE last = hop["alias"]
    <3>1. hops2["alias"] = "none"
      BY <1>1, <2>2, <2>5
    <3> QED
      BY <1>7, <1>8, <1>10, <2>5, <3>1
  <2>6. last = hop["alias"]
    BY <2>1, <2>3, <2>4, <2>5
  <2> QED
    BY <1>10, <2>6 DEF last, hops2, hops4, hops8
<1>11. CASE hop[Query] = "alias" /\ hop["alias"] = Query
  <2>1. hops2[Query] = Query /\ hops2["alias"] = "alias"
    BY <1>1, <1>2, <1>11
  <2>2. hops4[Query] = Query /\ hops4["alias"] = "alias"
    BY <1>1, <1>4, <2>1
  <2>3. hops8["alias"] = "alias"
    BY <1>1, <1>6, <2>2
  <2>4. last = "alias"
    BY <1>7, <1>11, <2>1, <2>2, <2>3
  <2> QED
    BY <1>11, <2>4 DEF last, hops2, hops4, hops8
<1> QED
  BY <1>9, <1>10, <1>11

\* The least set of names that is closed under the aliases.
LEMMA ReachedNames ==
  ASSUME NEW aliases \in Aliases
  PROVE  Reached(aliases)
           = {Query, aliases[Query]}
               \union (IF aliases[Query] = "alias" THEN {aliases["alias"]}
                       ELSE {})
<1> DEFINE R == {Query, aliases[Query]} \union
                (IF aliases[Query] = "alias" THEN {aliases["alias"]} ELSE {})
           closed(set) ==
             Query \in set /\ \A n \in set \intersect DOMAIN aliases :
                                aliases[n] \in set
           least(names) == closed(names) /\ \A fewer \in SUBSET names :
                                              closed(fewer) => fewer = names
<1>1. /\ DOMAIN aliases = {Query, "alias"} /\ Query = "query"
      /\ aliases[Query] \in Names /\ aliases["alias"] \in Names
  BY DEF Aliases, Names, Query
<1>2. R \in SUBSET Names
  BY <1>1 DEF Names, Owners
<1>3. closed(R)
  BY <1>1
<1>4. ASSUME NEW set, closed(set) PROVE R \subseteq set
  BY <1>1, <1>4
<1> HIDE DEF R
<1>5. least(R)
  BY <1>3, <1>4
<1>6. \A names : least(names) => names = R
  <2> SUFFICES ASSUME NEW names, least(names) PROVE names = R
    OBVIOUS
  <2>1. R \subseteq names
    BY <1>4
  <2> QED
    BY <1>3, <2>1
<1>7. Reached(aliases) = CHOOSE names \in SUBSET Names : least(names)
  BY DEF Reached, Names
<1> HIDE DEF least, closed
<1>8. Reached(aliases) = R
  BY <1>2, <1>5, <1>6, <1>7
<1> QED
  BY <1>8 DEF R

\* An alias chain of a packet is followed to the records it leads to.
LEMMA ChainsAreFollowed == ChainsFollowed
<1> SUFFICES ASSUME NEW aliases \in Aliases, NEW owners \in SUBSET Owners
             PROVE  LET found == Reached(aliases) \intersect owners
                        owner == Owner(aliases, owners)
                    IN IF found = {} THEN owner = "none" ELSE owner \in found
  BY DEF ChainsFollowed
<1> DEFINE hop == [owner \in Names |->
                     IF owner \in owners \/ owner \notin DOMAIN aliases
                     THEN owner ELSE aliases[owner]]
           hops2 == [owner \in DOMAIN hop |-> hop[hop[owner]]]
           hops4 == [owner \in DOMAIN hop |-> hops2[hops2[owner]]]
           hops8 == [owner \in DOMAIN hop |-> hops4[hops4[owner]]]
           last == hops8[hops4[hops2[hop[Query]]]]
<1>1. /\ DOMAIN aliases = {Query, "alias"} /\ Query = "query"
      /\ aliases[Query] \in Names /\ aliases["alias"] \in Names
      /\ Names = {Query, "alias", "other", "none"} /\ "none" \notin owners
  BY DEF Aliases, Names, Query, Owners
<1>2. /\ hop \in [Names -> Names]
      /\ hop["other"] = "other" /\ hop["none"] = "none"
      /\ hop[Query] = IF Query \in owners THEN Query ELSE aliases[Query]
      /\ hop["alias"] = IF "alias" \in owners THEN "alias"
                        ELSE aliases["alias"]
  BY <1>1
<1>3. Owner(aliases, owners) = IF last \in owners THEN last ELSE "none"
  BY DEF Owner, Names
<1> HIDE DEF hop
<1>4. IF hop[Query] # "alias" THEN last = hop[Query]
      ELSE IF hop["alias"] # Query THEN last = hop["alias"]
      ELSE last \in {Query, "alias"}
  BY <1>2, FifteenHops
<1> HIDE DEF last
<1> QED
  BY <1>1, <1>2, <1>3, <1>4, ReachedNames

\* A lookup of the report is one of those to be made, in its place.
Reported == {<<lookups[i].ip, lookups[i].type>> : i \in DOMAIN lookups}

LookupInv ==
  /\ todo \intersect Reported = {}
  /\ \A i, j \in DOMAIN lookups :
       <<lookups[i].ip, lookups[i].type>> = <<lookups[j].ip, lookups[j].type>>
         => i = j
  /\ \A i \in DOMAIN lookups :
       lookups[i].outcome = "answer" =>
         lookups[i].reply = <<lookups[i].ip, lookups[i].type>>

\* The lookups have been chosen: they are made, or all is over.
Probing ==
  dnsAt \in {"next", "wait", "end"} \/ dnsResult \in {"report", "cancelled"}

\* Nothing is lost between the lookups that are to be made and the report.
PhaseInv ==
  /\ Probing => todo \union Reported = ToSet(Sources) \X Types
  /\ ~Probing => todo = {} /\ lookups = <<>> /\ asked = {}
  /\ dnsAt = "wait" => Asked \in todo /\ left + spent <= Budget
  /\ dnsAt = "end" /\ ~cancelled => todo = {}
  /\ dnsResult # "none" => dnsAt = "off"
  /\ dnsResult = "report" => todo = {}
  /\ name = "mdns" => asked = {}

DnsInv == DnsTypeOK /\ LookupInv /\ PhaseInv

\* The elements of a concatenation are those of both sequences.
LEMMA ToSetOfConcat ==
  ASSUME NEW S, NEW s \in Seq(S), NEW t \in Seq(S)
  PROVE  ToSet(s \o t) = ToSet(s) \union ToSet(t)
<1>1. /\ s \o t \in Seq(S) /\ Len(s \o t) = Len(s) + Len(t)
      /\ \A i \in 1..(Len(s) + Len(t)) :
           (s \o t)[i] = IF i <= Len(s) THEN s[i] ELSE t[i - Len(s)]
  BY ConcatProperties
<1>2. Len(s) \in Nat /\ Len(t) \in Nat
  OBVIOUS
<1> DEFINE both == s \o t
<1>3. DOMAIN both = 1..(Len(s) + Len(t))
  BY <1>1
<1>4. ToSet(both) = {both[i] : i \in 1..(Len(s) + Len(t))}
  BY <1>3 DEF ToSet
<1>5. /\ ToSet(s) = {s[i] : i \in 1..Len(s)}
      /\ ToSet(t) = {t[i] : i \in 1..Len(t)}
  BY DEF ToSet
<1>6. \A i \in 1..(Len(s) + Len(t)) :
        both[i] = IF i <= Len(s) THEN s[i] ELSE t[i - Len(s)]
  BY <1>1
<1> HIDE DEF both
<1>7. ASSUME NEW i \in 1..(Len(s) + Len(t))
      PROVE  both[i] \in ToSet(s) \union ToSet(t)
  BY <1>2, <1>5, <1>6
<1>8. ASSUME NEW i \in 1..Len(s) PROVE s[i] \in ToSet(both)
  <2>1. i \in 1..(Len(s) + Len(t)) /\ both[i] = s[i]
    BY <1>2, <1>6
  <2> QED
    BY <1>4, <2>1
<1>9. ASSUME NEW i \in 1..Len(t) PROVE t[i] \in ToSet(both)
  <2>1. Len(s) + i \in 1..(Len(s) + Len(t)) /\ both[Len(s) + i] = t[i]
    BY <1>2, <1>6
  <2> QED
    BY <1>4, <2>1
<1>10. ToSet(both) = ToSet(s) \union ToSet(t)
  BY <1>4, <1>5, <1>7, <1>8, <1>9
<1> QED
  BY <1>10 DEF both

\* The resolvers are those that any source names.
LEMMA SourcesNamed ==
  ASSUME DnsTypeOK
  PROVE  /\ ToSet(Sources) = {Router} \union ToSet(dhcp) \union ToSet(system)
         /\ ToSet(Sources) \subseteq Resolvers
<1>1. /\ dhcp \in Seq(Resolvers) /\ system \in Seq(Resolvers)
      /\ Router \in Resolvers
  BY DnsAssumption DEF DnsTypeOK
<1>2. <<Router>> \in Seq(Resolvers) /\ ToSet(<<Router>>) = {Router}
  BY <1>1 DEF ToSet
<1> DEFINE own == <<Router>>
           first == own \o dhcp
<1>3. /\ Sources = first \o system
      /\ own \in Seq(Resolvers) /\ ToSet(own) = {Router}
  BY <1>2 DEF Sources
<1> HIDE DEF own
<1>4. first \in Seq(Resolvers)
  BY <1>1, <1>3, ConcatProperties
<1>5. ToSet(first) = ToSet(own) \union ToSet(dhcp)
  BY <1>1, <1>3, ToSetOfConcat
<1> HIDE DEF first
<1>6. ToSet(Sources) = {Router} \union ToSet(dhcp) \union ToSet(system)
  BY <1>1, <1>3, <1>4, <1>5, ToSetOfConcat
<1> QED
  <2>1. ToSet(dhcp) \subseteq Resolvers /\ ToSet(system) \subseteq Resolvers
    BY <1>1, ToSetTyped
  <2> QED
    BY <1>1, <1>6, <2>1

\* The resolvers of the system are a list that is short enough.
LEMMA SnapshotTyped ==
  /\ Lists \subseteq Seq(Resolvers)
  /\ \A list \in Lists : /\ Snapshot(list) \in Seq(Resolvers)
                         /\ Len(Snapshot(list)) <= MaxResolvers
<1>1. Lists \subseteq Seq(Resolvers)
  <2>1. \A a, b \in Resolvers : <<a, b>> \in Seq(Resolvers)
    OBVIOUS
  <2>2. \A a \in Resolvers : <<a>> \in Seq(Resolvers)
    OBVIOUS
  <2>3. <<>> \in Seq(Resolvers)
    OBVIOUS
  <2>4. ASSUME NEW list \in Lists PROVE list \in Seq(Resolvers)
    <3>1. \/ \E a, b \in Resolvers : list = <<a, b>>
          \/ \E a \in Resolvers : list = <<a>>
          \/ list = <<>>
      BY <2>4 DEF Lists
    <3> QED
      BY <2>1, <2>2, <2>3, <3>1
  <2> QED
    BY <2>4
<1>2. ASSUME NEW list \in Lists
      PROVE  /\ Snapshot(list) \in Seq(Resolvers)
             /\ Len(Snapshot(list)) <= MaxResolvers
  <2> DEFINE unique == IF Len(list) = 2 /\ list[1] = list[2]
                       THEN <<list[1]>> ELSE list
  <2>1. list \in Seq(Resolvers)
    BY <1>1
  <2>2. unique \in Seq(Resolvers)
    <3>1. CASE Len(list) = 2 /\ list[1] = list[2]
      <4>1. list[1] \in Resolvers
        BY <2>1, <3>1
      <4>2. <<list[1]>> \in Seq(Resolvers)
        BY <4>1
      <4> QED
        BY <3>1, <4>2
    <3>2. CASE ~(Len(list) = 2 /\ list[1] = list[2])
      BY <2>1, <3>2
    <3> QED
      BY <3>1, <3>2
  <2>3. Snapshot(list) = IF Len(unique) <= MaxResolvers THEN unique ELSE <<>>
    BY DEF Snapshot
  <2> HIDE DEF unique
  <2>4. <<>> \in Seq(Resolvers) /\ Len(<<>>) = 0
    OBVIOUS
  <2> QED
    BY <2>2, <2>3, <2>4, DnsAssumption
<1> QED
  BY <1>1, <1>2

\* A lookup that ends in the report is made no more, and its address is of
\* the reply to it.
LEMMA ReportSound ==
  ASSUME DnsTypeOK, LookupInv,
         NEW lookup \in todo, NEW outcome \in {"answer", "none", "unsent"},
         NEW reply \in {<<>>} \union (Resolvers \X Types),
         outcome = "answer" => reply = lookup,
         Report(lookup, outcome, reply)
  PROVE  /\ todo' \subseteq todo
         /\ lookups' \in Seq([ip : Resolvers, type : Types,
                              outcome : {"answer", "none", "unsent"},
                              reply : {<<>>} \union (Resolvers \X Types)])
         /\ LookupInv'
         /\ todo' \union Reported' = todo \union Reported
<1> DEFINE entry == [ip |-> lookup[1], type |-> lookup[2],
                     outcome |-> outcome, reply |-> reply]
           Records == [ip : Resolvers, type : Types,
                       outcome : {"answer", "none", "unsent"},
                       reply : {<<>>} \union (Resolvers \X Types)]
<1>1. /\ lookups' = Append(lookups, entry) /\ todo' = todo \ {lookup}
      /\ lookups \in Seq(Records)
      /\ lookup \in Resolvers \X Types
  BY DEF Report, DnsTypeOK
<1>2. lookup = <<lookup[1], lookup[2]>> /\ entry \in Records
  BY <1>1
<1>3. /\ <<entry.ip, entry.type>> = lookup
      /\ entry.outcome = "answer" => entry.reply = lookup
  BY <1>2
<1> HIDE DEF entry, Records
<1>4. /\ lookups' \in Seq(Records) /\ Len(lookups) \in Nat
      /\ DOMAIN lookups = 1..Len(lookups)
      /\ DOMAIN lookups' = 1..(Len(lookups) + 1)
      /\ lookups'[Len(lookups) + 1] = entry
      /\ \A i \in DOMAIN lookups : lookups'[i] = lookups[i]
  BY <1>1, <1>2, AppendProperties
<1>5. /\ DOMAIN lookups' = DOMAIN lookups \union {Len(lookups) + 1}
      /\ Len(lookups) + 1 \notin DOMAIN lookups
  BY <1>4
<1>6. Reported' = Reported \union {lookup}
  BY <1>3, <1>4, <1>5 DEF Reported
<1>7. lookup \notin Reported
  BY DEF LookupInv
<1>8. \A i \in DOMAIN lookups : <<lookups[i].ip, lookups[i].type>> # lookup
  BY <1>7 DEF Reported
<1>9. LookupInv'
  <2>1. todo' \intersect Reported' = {}
    BY <1>1, <1>6 DEF LookupInv
  <2>2. \A i, j \in DOMAIN lookups' :
          <<lookups'[i].ip, lookups'[i].type>>
            = <<lookups'[j].ip, lookups'[j].type>> => i = j
    BY <1>3, <1>4, <1>5, <1>8 DEF LookupInv
  <2>3. \A i \in DOMAIN lookups' :
          lookups'[i].outcome = "answer" =>
            lookups'[i].reply = <<lookups'[i].ip, lookups'[i].type>>
    BY <1>3, <1>4, <1>5 DEF LookupInv
  <2> QED
    BY <2>1, <2>2, <2>3 DEF LookupInv
<1>10. todo' \union Reported' = todo \union Reported
  BY <1>1, <1>6
<1> QED
  BY <1>1, <1>4, <1>9, <1>10 DEF Records

\* The timeout of a query is at most what is left of the budget.
LEMMA MinOfTwo ==
  ASSUME NEW a \in Nat, NEW b \in Nat
  PROVE  Min({a, b}) \in Nat /\ Min({a, b}) <= a /\ Min({a, b}) <= b
<1>1. Min({a, b}) = CHOOSE x \in {a, b} : \A y \in {a, b} : x <= y
  BY DEF Min
<1>2. \E x \in {a, b} : \A y \in {a, b} : x <= y
  OBVIOUS
<1>3. Min({a, b}) \in {a, b} /\ \A y \in {a, b} : Min({a, b}) <= y
  BY <1>1, <1>2
<1> QED
  BY <1>3

\* The steps before the resolvers are known, and those that give up.
LEMMA EvidenceKept ==
  ASSUME DnsInv, dnsAt \notin {"next", "wait", "end", "off"},
         dnsAt' \notin {"next", "wait", "end"},
         dnsResult' \in {"none", "error"},
         dnsResult' # "none" => dnsAt' = "off",
         UNCHANGED <<probing, name>>
  PROVE  LookupInv' /\ PhaseInv'
<1>1. ~Probing /\ ~Probing'
  BY DEF DnsInv, PhaseInv, Probing
<1>2. LookupInv'
  BY DEF DnsInv, LookupInv, Reported, probing
<1>3. PhaseInv'
  BY <1>1 DEF DnsInv, PhaseInv, probing
<1> QED
  BY <1>2, <1>3

\* The steps that make a lookup, or give one up.
LEMMA ProbingKept ==
  ASSUME DnsInv, dnsAt \in {"next", "wait"}, LookupInv',
         dnsAt' \in {"next", "wait", "end"},
         UNCHANGED <<cancelled, evidence, dnsResult>>,
         todo' \union Reported' = todo \union Reported,
         dnsAt' = "wait" => Asked' \in todo' /\ left' + spent' <= Budget,
         dnsAt' = "end" /\ ~cancelled => todo' = {},
         name = "mdns" => asked' = {}
  PROVE  PhaseInv'
<1>1. Probing /\ Probing' /\ dnsResult = "none"
  BY DEF DnsInv, PhaseInv, Probing
<1>2. Sources' = Sources
  BY DEF Sources, evidence
<1> QED
  BY <1>1, <1>2 DEF DnsInv, PhaseInv, evidence

\* The next lookup is sent or skipped, or the diagnosis ends.
LEMMA NextLookupSound ==
  ASSUME DnsInv, NextLookup
  PROVE  DnsInv'
<1> USE DEF DnsInv
<1>1. /\ dnsAt = "next"
      /\ UNCHANGED <<capVars, evidence, spent, dnsResult>>
  BY DEF NextLookup
<1>2. CASE /\ todo = {} \/ cancelled
           /\ dnsAt' = "end"
           /\ UNCHANGED <<todo, lookups, socket, left, asked>>
  <2>1. DnsTypeOK' /\ LookupInv'
    BY <1>1, <1>2 DEF DnsTypeOK, LookupInv, Reported, evidence
  <2>2. PhaseInv'
    BY <1>1, <1>2, <2>1, ProbingKept DEF capVars, PhaseInv, Reported, evidence
  <2> QED
    BY <2>1, <2>2
<1>3. ASSUME NEW lookup \in todo, Skip(lookup)
      PROVE  DnsInv'
  <2>1. /\ Report(lookup, "unsent", <<>>)
        /\ UNCHANGED <<dnsAt, socket, left, asked>>
    BY <1>3 DEF Skip
  <2>2. /\ todo' \subseteq todo
        /\ lookups' \in Seq([ip : Resolvers, type : Types,
                             outcome : {"answer", "none", "unsent"},
                             reply : {<<>>} \union (Resolvers \X Types)])
        /\ LookupInv'
        /\ todo' \union Reported' = todo \union Reported
    BY <2>1, ReportSound
  <2>3. DnsTypeOK'
    BY <1>1, <2>1, <2>2 DEF DnsTypeOK, evidence
  <2>4. PhaseInv'
    BY <1>1, <2>1, <2>2, ProbingKept DEF capVars, PhaseInv, evidence
  <2> QED
    BY <2>2, <2>3, <2>4
<1>4. ASSUME NEW lookup \in todo, Send(lookup)
      PROVE  DnsInv'
  <2>1. /\ name # "mdns" /\ spent < Budget
        /\ socket'.ip = lookup[1] /\ socket'.type = lookup[2]
        /\ left' = Min({QueryTime, Budget - spent})
        /\ dnsAt' = "wait"
        /\ UNCHANGED <<todo, lookups>>
    BY <1>4 DEF Send
  <2>2. lookup \in Resolvers \X Types /\ Asked' = lookup
    BY <2>1 DEF DnsTypeOK, Asked
  <2>3. /\ spent \in Nat /\ Budget \in Nat /\ QueryTime \in Nat
        /\ Budget - spent \in Nat
    BY <2>1, DnsAssumption DEF DnsTypeOK
  <2>4. left' \in Nat /\ left' <= QueryTime /\ left' <= Budget - spent
    BY <2>1, <2>3, MinOfTwo
  <2>5. left' \in 0..QueryTime /\ left' + spent <= Budget
    <3>1. left' \in 0..QueryTime
      BY <2>3, <2>4
    <3>2. \A l, s, b \in Nat : l <= b - s => l + s <= b
      OBVIOUS
    <3>3. left' + spent <= Budget
      BY <2>3, <2>4, <3>2
    <3> QED
      BY <3>1, <3>3
  <2>6. DnsTypeOK' /\ LookupInv'
    BY <1>1, <2>1, <2>5 DEF DnsTypeOK, LookupInv, Reported, evidence
  <2>7. todo' \union Reported' = todo \union Reported
    BY <2>1 DEF Reported
  <2>8. PhaseInv'
    BY <1>1, <2>1, <2>2, <2>5, <2>6, <2>7, ProbingKept DEF capVars
  <2> QED
    BY <2>6, <2>8
<1> QED
  BY <1>2, <1>3, <1>4 DEF NextLookup

\* The request that was waited for is over.
LEMMA AskedSound ==
  ASSUME DnsInv, dnsAt = "wait", dnsAt' = "next",
         NEW outcome \in {"answer", "none"},
         NEW reply \in {<<>>} \union (Resolvers \X Types),
         outcome = "answer" => reply = Asked,
         Report(Asked, outcome, reply),
         UNCHANGED <<cancelled, evidence, socket, spent, left, asked,
                     dnsResult>>
  PROVE  DnsInv'
<1> USE DEF DnsInv
<1>1. Asked \in todo
  BY DEF PhaseInv
<1>2. /\ todo' \subseteq todo
      /\ lookups' \in Seq([ip : Resolvers, type : Types,
                           outcome : {"answer", "none", "unsent"},
                           reply : {<<>>} \union (Resolvers \X Types)])
      /\ LookupInv'
      /\ todo' \union Reported' = todo \union Reported
  BY <1>1, ReportSound
<1>3. DnsTypeOK'
  BY <1>2 DEF DnsTypeOK, evidence
<1>4. PhaseInv'
  BY <1>2, ProbingKept DEF PhaseInv, evidence
<1> QED
  BY <1>2, <1>3, <1>4

\* A datagram ends the request that is waited for: it is no reply to it, or
\* the address is of this lookup.
LEMMA ReceiveSound ==
  ASSUME DnsInv, Receive
  PROVE  DnsInv'
<1>1. /\ dnsAt = "wait" /\ dnsAt' = "next"
      /\ UNCHANGED <<cancelled, evidence, socket, spent, left, asked,
                     dnsResult>>
  BY DEF Receive, capVars
<1>2. PICK reply \in asked :
        /\ reply.ip = socket.ip
        /\ \/ Report(Asked, "none", <<>>)
           \/ /\ reply.type = socket.type
              /\ Report(Asked, "answer", <<reply.ip, reply.type>>)
  BY DEF Receive, ParsePacket, Packet
<1>3. CASE Report(Asked, "none", <<>>)
  BY <1>1, <1>3, AskedSound
<1>4. CASE /\ reply.type = socket.type
           /\ Report(Asked, "answer", <<reply.ip, reply.type>>)
  <2>1. <<reply.ip, reply.type>> = Asked
    BY <1>2, <1>4 DEF Asked
  <2>2. Asked \in Resolvers \X Types
    BY <1>1 DEF DnsInv, PhaseInv, DnsTypeOK
  <2>3. Report(Asked, "answer", Asked)
    BY <1>4, <2>1
  <2> QED
    BY <1>1, <2>2, <2>3, AskedSound
<1> QED
  BY <1>2, <1>3, <1>4

\* Time passes within the budget, or the request ends without an answer.
LEMMA WaitSound ==
  ASSUME DnsInv, Wait
  PROVE  DnsInv'
<1>1. /\ dnsAt = "wait"
      /\ UNCHANGED <<cancelled, evidence, socket, asked, dnsResult>>
  BY DEF Wait, capVars
<1>2. CASE /\ left > 0 /\ spent' = spent + 1 /\ left' = left - 1
           /\ UNCHANGED <<dnsAt, todo, lookups>>
  <2>1. /\ left \in 0..QueryTime /\ spent \in 0..Budget
        /\ left + spent <= Budget
        /\ QueryTime \in Nat /\ Budget \in Nat
    BY <1>1, DnsAssumption DEF DnsInv, DnsTypeOK, PhaseInv
  <2>2. /\ left' \in 0..QueryTime /\ spent' \in 0..Budget
        /\ left' + spent' <= Budget
    BY <1>2, <2>1
  <2>3. DnsTypeOK' /\ LookupInv'
    BY <1>1, <1>2, <2>2 DEF DnsInv, DnsTypeOK, LookupInv, Reported, evidence
  <2>4. /\ todo' \union Reported' = todo \union Reported
        /\ Asked' = Asked
    BY <1>1, <1>2 DEF Reported, Asked
  <2>5. PhaseInv'
    BY <1>1, <1>2, <2>2, <2>3, <2>4, ProbingKept DEF DnsInv, PhaseInv, evidence
  <2> QED
    BY <2>3, <2>5 DEF DnsInv
<1>3. CASE /\ dnsAt' = "next" /\ Report(Asked, "none", <<>>)
           /\ UNCHANGED <<spent, left>>
  BY <1>1, <1>3, AskedSound
<1> QED
  BY <1>2, <1>3 DEF Wait

\* A step of the diagnosis.
LEMMA DnsStepSound ==
  ASSUME DnsInv, cancelled \in BOOLEAN, DnsStep
  PROVE  DnsInv' /\ UNCHANGED capVars
<1> USE DEF DnsInv
<1>0. dnsResult = "none" \/ dnsAt = "off"
  BY DEF PhaseInv
<1>1. CASE Collect
  <2>1. /\ dnsAt = "collect" /\ dnsAt' = "validate"
        /\ UNCHANGED <<capVars, name, dhcp, probing, dnsResult>>
    BY <1>1 DEF Collect
  <2>2. /\ search' \in BOOLEAN /\ system' \in Seq(Resolvers)
        /\ Len(system') <= MaxResolvers
    BY <1>1, SnapshotTyped DEF Collect, DnsTypeOK
  <2>3. DnsTypeOK'
    BY <2>1, <2>2 DEF DnsTypeOK, probing
  <2> QED
    BY <1>0, <2>1, <2>3, EvidenceKept
<1>2. CASE ValidateEvidence
  <2>1. /\ dnsAt = "validate" /\ dnsAt' \in {"off", "service"}
        /\ dnsResult' \in {dnsResult, "error"}
        /\ dnsAt' = "service" => dnsResult' = dnsResult
        /\ UNCHANGED <<capVars, evidence, probing>>
    BY <1>2 DEF ValidateEvidence
  <2>2. DnsTypeOK'
    BY <2>1 DEF DnsTypeOK, evidence, probing
  <2> QED
    BY <1>0, <2>1, <2>2, EvidenceKept DEF evidence
<1>3. CASE DhcpService
  <2>1. /\ dnsAt = "service" /\ dnsAt' \in {"info", "host"}
        /\ UNCHANGED <<capVars, evidence, probing, dnsResult>>
    BY <1>3 DEF DhcpService
  <2>2. DnsTypeOK'
    BY <2>1 DEF DnsTypeOK, evidence, probing
  <2> QED
    BY <1>0, <2>1, <2>2, EvidenceKept DEF evidence
<1>4. CASE ApplyDhcp
  <2>1. /\ dnsAt = "info" /\ dnsAt' = "host"
        /\ UNCHANGED <<capVars, name, search, system, probing, dnsResult>>
    BY <1>4 DEF ApplyDhcp
  <2>2. dhcp' \in Seq(Resolvers) /\ Len(dhcp') <= MaxResolvers
    BY <1>4, SnapshotTyped DEF ApplyDhcp, DnsTypeOK
  <2>3. DnsTypeOK'
    BY <2>1, <2>2 DEF DnsTypeOK, probing
  <2> QED
    BY <1>0, <2>1, <2>3, EvidenceKept
<1>5. CASE HostEvidence
  <2>1. /\ dnsAt = "host" /\ dnsAt' = "resolvers"
        /\ UNCHANGED <<capVars, evidence, probing, dnsResult>>
    BY <1>5 DEF HostEvidence
  <2>2. DnsTypeOK'
    BY <2>1 DEF DnsTypeOK, evidence, probing
  <2> QED
    BY <1>0, <2>1, <2>2, EvidenceKept DEF evidence
<1>6. CASE SelectResolvers
  <2>1. /\ dnsAt = "resolvers" /\ dnsAt' = "next"
        /\ todo' = ToSet(Sources) \X Types
        /\ UNCHANGED <<capVars, evidence, socket, spent, left, asked, lookups,
                       dnsResult>>
    BY <1>6 DEF SelectResolvers
  <2>2. ~Probing /\ todo = {} /\ lookups = <<>> /\ asked = {}
    BY <1>0, <2>1 DEF PhaseInv, Probing
  <2>3. todo' \subseteq Resolvers \X Types /\ Sources' = Sources
    BY <2>1, SourcesNamed DEF Sources, evidence
  <2>4. DnsTypeOK'
    BY <2>1, <2>3 DEF DnsTypeOK, evidence
  <2>5. DOMAIN lookups' = {} /\ Reported' = {}
    BY <2>1, <2>2 DEF Reported
  <2>6. LookupInv'
    BY <2>5 DEF LookupInv
  <2>7. PhaseInv'
    BY <1>0, <2>1, <2>2, <2>3, <2>5 DEF PhaseInv, Probing, evidence
  <2> QED
    BY <2>1, <2>4, <2>6, <2>7
<1>7. CASE NextLookup
  BY <1>7, NextLookupSound DEF NextLookup
<1>8. CASE Receive
  BY <1>8, ReceiveSound DEF Receive
<1>9. CASE Wait
  BY <1>9, WaitSound DEF Wait
<1>10. CASE DnsEnd
  <2>1. /\ dnsAt = "end" /\ dnsAt' = "off"
        /\ dnsResult' = IF cancelled THEN "cancelled" ELSE "report"
        /\ UNCHANGED <<capVars, evidence, probing>>
    BY <1>10 DEF DnsEnd
  <2>2. DnsTypeOK' /\ LookupInv'
    BY <2>1 DEF DnsTypeOK, LookupInv, Reported, evidence, probing
  <2>3. Probing /\ Probing' /\ Sources' = Sources /\ Reported' = Reported
    BY <2>1 DEF Probing, Sources, Reported, evidence, probing
  <2>4. PhaseInv'
    BY <1>0, <2>1, <2>3 DEF PhaseInv, evidence, probing
  <2> QED
    BY <2>1, <2>2, <2>4
<1> QED
  BY <1>1, <1>2, <1>3, <1>4, <1>5, <1>6, <1>7, <1>8, <1>9, <1>10 DEF DnsStep

\* The invariant of the diagnosis holds when the process starts.
LEMMA DnsInvInit == DnsInit => DnsInv
<1> SUFFICES ASSUME DnsInit PROVE DnsInv
  OBVIOUS
<1>1. <<>> \in Seq(Resolvers) /\ Len(<<>>) = 0 /\ DOMAIN <<>> = {}
  OBVIOUS
<1>2. DnsTypeOK
  BY <1>1, DnsAssumption DEF DnsInit, DnsTypeOK
<1>3. Reported = {}
  BY <1>1 DEF DnsInit, Reported
<1>4. LookupInv
  BY <1>1, <1>3 DEF DnsInit, LookupInv
<1>5. PhaseInv
  BY DEF DnsInit, PhaseInv, Probing
<1> QED
  BY <1>2, <1>4, <1>5 DEF DnsInv

\* The diagnosis is begun once.
LEMMA DnsBeginSound ==
  ASSUME DnsInv, DnsBegin, dnsResult = "none"
  PROVE  DnsInv' /\ UNCHANGED capVars
<1> USE DEF DnsInv
<1>1. /\ dnsAt = "off" /\ dnsAt' = "collect"
      /\ name' \in {"odd", "mdns", "plain"}
      /\ UNCHANGED <<capVars, search, system, dhcp, probing, dnsResult>>
  BY DEF DnsBegin
<1>2. DnsTypeOK' /\ LookupInv'
  BY <1>1 DEF DnsTypeOK, LookupInv, Reported, probing
<1>3. ~Probing /\ ~Probing'
  BY <1>1 DEF Probing
<1>4. PhaseInv'
  BY <1>1, <1>3 DEF PhaseInv, probing
<1> QED
  BY <1>1, <1>2, <1>4

\* The steps of the process that leave the diagnosis alone.
LEMMA DnsIdleSound ==
  ASSUME DnsInv, UNCHANGED dnsVars, cancelled => cancelled'
  PROVE  DnsInv'
<1> USE DEF DnsInv, dnsVars, evidence, probing
<1>1. DnsTypeOK' /\ LookupInv'
  BY DEF DnsTypeOK, LookupInv, Reported
<1>2. Sources' = Sources /\ Reported' = Reported /\ Probing' = Probing
      /\ Asked' = Asked
  BY DEF Sources, Reported, Probing, Asked
<1>3. PhaseInv'
  BY <1>2 DEF PhaseInv
<1> QED
  BY <1>1, <1>3

\* The invariant says what the report promises.
LEMMA DnsInvSound == DnsInv => LookupsSound
<1> SUFFICES ASSUME DnsInv PROVE LookupsSound
  OBVIOUS
<1>1. /\ \A i \in DOMAIN lookups :
           lookups[i].outcome = "answer" =>
             lookups[i].reply = <<lookups[i].ip, lookups[i].type>>
      /\ \A i, j \in DOMAIN lookups :
           <<lookups[i].ip, lookups[i].type>>
             = <<lookups[j].ip, lookups[j].type>> => i = j
  BY DEF DnsInv, LookupInv
<1>2. name = "mdns" => asked = {}
  BY DEF DnsInv, PhaseInv
<1>3. dnsResult = "report" =>
        Reported = ({Router} \union ToSet(dhcp) \union ToSet(system)) \X Types
  BY SourcesNamed DEF DnsInv, PhaseInv, Probing
<1> QED
  BY <1>1, <1>2, <1>3, ChainsAreFollowed DEF LookupsSound, Reported
-----------------------------------------------------------------------------
(* The scripts                                                             *)

\* The steps that change something outside the process.
Written == {"dial", "hangup", "reboot", "wake", "guest_set", "switch"}

\* After a step of the first set, only steps of the second one come.
Only(script, first, next) ==
  \A i, j \in DOMAIN script :
    i < j /\ script[i] \in first => script[j] \in next

\* From this step to the end of the checks, only these steps are skipped.
Skips(script, step, steps) ==
  \A i, j, k \in DOMAIN script :
    script[i] = step /\ script[k] = "print" =>
      /\ i < k
      /\ i <= j /\ j < k => script[j] \in steps

\* The order of the steps that the invariants rest on.
Ordered(script) ==
  /\ Len(script) \in Nat /\ DOMAIN script = 1..Len(script)
  /\ Only(script, Written \union {"store"}, {"boundary", "print"})
  /\ Only(script, {"verdict"}, {"store", "print"})
  /\ Only(script, {"status", "diagnose"}, {"cpu", "print", "verdict"})
  /\ Only(script, {"interval"}, {})
  /\ Skips(script, "before", {"before", "apply", "after"})
  /\ Skips(script, "checkup", {"checkup", "discover", "verify", "devices"})
  /\ \E i \in DOMAIN script : script[i] = "print"
  /\ \A i \in DOMAIN script : script[i] = "interval" =>
       /\ \E j \in DOMAIN script : script[j] = "traffic"
       /\ \A j \in DOMAIN script :
            /\ script[j] = "traffic" => j < i
            /\ script[j] \notin Written \union {"store"}

\* The scripts of all commands are ordered.
LEMMA ScriptsOrdered == \A c \in DOMAIN Scripts : Ordered(Scripts[c])
<1>1. Ordered(StatusScript)
  BY DEF Ordered, Only, Skips, Written, StatusScript
<1>2. Ordered(HostsScript)
  BY DEF Ordered, Only, Skips, Written, HostsScript
<1>3. Ordered(HostGetScript)
  BY DEF Ordered, Only, Skips, Written, HostGetScript
<1>4. Ordered(HostPinScript)
  BY DEF Ordered, Only, Skips, Written, HostPinScript
<1>5. Ordered(RadiosScript)
  BY DEF Ordered, Only, Skips, Written, RadiosScript
<1>6. Ordered(ClientsScript)
  BY DEF Ordered, Only, Skips, Written, ClientsScript
<1>7. Ordered(GuestScript)
  BY DEF Ordered, Only, Skips, Written, GuestScript
<1>8. Ordered(GuestSetScript)
  BY DEF Ordered, Only, Skips, Written, GuestSetScript
<1>9. Ordered(DslScript)
  BY DEF Ordered, Only, Skips, Written, DslScript
<1>10. Ordered(TrafficScript)
  BY DEF Ordered, Only, Skips, Written, TrafficScript
<1>11. Ordered(CallsScript)
  BY DEF Ordered, Only, Skips, Written, CallsScript
<1>12. Ordered(LogScript)
  BY DEF Ordered, Only, Skips, Written, LogScript
<1>13. Ordered(ServicesScript)
  BY DEF Ordered, Only, Skips, Written, ServicesScript
<1>14. Ordered(CallScript)
  BY DEF Ordered, Only, Skips, Written, CallScript
<1>15. Ordered(DialScript)
  BY DEF Ordered, Only, Skips, Written, DialScript
<1>16. Ordered(HangupScript)
  BY DEF Ordered, Only, Skips, Written, HangupScript
<1>17. Ordered(RebootScript)
  BY DEF Ordered, Only, Skips, Written, RebootScript
<1>18. Ordered(WolScript)
  BY DEF Ordered, Only, Skips, Written, WolScript
<1>19. Ordered(ConfigInitScript)
  BY DEF Ordered, Only, Skips, Written, ConfigInitScript
<1>20. Ordered(TrustScript)
  BY DEF Ordered, Only, Skips, Written, TrustScript
<1>21. Ordered(AuthTestScript)
  BY DEF Ordered, Only, Skips, Written, AuthTestScript
<1>22. Ordered(AuthLoginScript)
  BY DEF Ordered, Only, Skips, Written, AuthLoginScript
<1>23. Ordered(AuthStoreScript)
  BY DEF Ordered, Only, Skips, Written, AuthStoreScript
<1>24. Ordered(DiagnoseScript)
  BY DEF Ordered, Only, Skips, Written, DiagnoseScript
<1>25. Ordered(RouterScript)
  BY DEF Ordered, Only, Skips, Written, RouterScript
<1>26. Ordered(DetectScript)
  BY DEF Ordered, Only, Skips, Written, DetectScript
<1>27. Ordered(MeshScript)
  BY DEF Ordered, Only, Skips, Written, MeshScript
<1>28. Ordered(HomeListScript)
  BY DEF Ordered, Only, Skips, Written, HomeListScript
<1>29. Ordered(HomeSwitchScript)
  BY DEF Ordered, Only, Skips, Written, HomeSwitchScript
<1>30. Ordered(HomeTempScript)
  BY DEF Ordered, Only, Skips, Written, HomeTempScript
<1>31. Ordered(ScrapeScript)
  BY DEF Ordered, Only, Skips, Written, ScrapeScript
<1>32. Ordered(DoctorScript)
  BY DEF Ordered, Only, Skips, Written, DoctorScript
<1>33. Ordered(DnsScript)
  BY DEF Ordered, Only, Skips, Written, DnsScript
<1>34. Ordered(VersionScript)
  BY DEF Ordered, Only, Skips, Written, VersionScript
<1>35. Ordered(HomeActorsScript)
  BY DEF Ordered, Only, Skips, Written, HomeActorsScript
<1> QED
  BY <1>1, <1>2, <1>3, <1>4, <1>5, <1>6, <1>7, <1>8, <1>9, <1>10, <1>11,
     <1>12, <1>13, <1>14, <1>15, <1>16, <1>17, <1>18, <1>19, <1>20, <1>21,
     <1>22, <1>23, <1>24, <1>25, <1>26, <1>27, <1>28, <1>29, <1>30, <1>31,
     <1>32, <1>33, <1>34, <1>35
  DEF Scripts

-----------------------------------------------------------------------------
(* The invariant of the process                                            *)

CmdTypeOK ==
  /\ cmd \in Commands /\ pc \in 0..(Len(Script) + 1)
  /\ code \in {0, Failed, 2, NoAuth, BadConfig, Cancelled}
  /\ exit \in {0, Failed, 2, NoAuth, BadConfig, Cancelled, Running}
  /\ printed \in BOOLEAN /\ healthy \in BOOLEAN
  /\ verified \in BOOLEAN /\ stored \in BOOLEAN
  /\ setting \in BOOLEAN /\ agreed \in BOOLEAN
  /\ echo \in BOOLEAN /\ balked \in BOOLEAN
  /\ stty \in {"none", "save", "off", "read", "restore"}
  /\ typed \in {"none", "line", "blank", "error", "cancelled"}

\* What holds from a step that succeeded to the end of the command.
Done(step) ==
  /\ step = "print" => printed
  /\ step \in Written => effect = 1
  /\ step = "store" => stored
  /\ step = "after" => agreed
  /\ step = "verify" => verified \/ ~healthy
  /\ step = "verdict" => healthy
  /\ step = "diagnose" => picked # {} \/ ~healthy
  /\ step = "status" => Primary # {} \/ faults = <<>>
  /\ step = "dns" => dnsResult = "report"

Past(steps) == \E i \in DOMAIN Script : i < pc /\ Script[i] \in steps

\* An operation, a diagnosis or a prompt is of the step that the process is
\* at; a code or an exit ends the script.
PlaceInv ==
  /\ at # "idle" => /\ exit = Running /\ pc \in DOMAIN Script
                    /\ task \in Operations(Script[pc])
  /\ dnsAt # "off" => At("dns")
  /\ stty # "none" => At("prompt")
  /\ code # 0 => pc = Len(Script) + 1
  /\ exit # Running =>
       \/ pc = Len(Script) + 1 /\ exit \in {code, Cancelled}
       \/ pc = 0 /\ exit \in {Failed, 2, BadConfig}

StepInv ==
  /\ code = 0 => \A i \in DOMAIN Script : i < pc => Done(Script[i])
  /\ setting => agreed

\* Nothing was changed, unless by a step that is past or by the call that has
\* just returned; never before a code that says so.
EffectInv ==
  /\ effect # 0 =>
       \/ Past(Written)
       \/ at = "returned" /\ task \in Writes /\ answer # "unauthorized"
  /\ at = "returned" /\ task \in Writes /\ answer = "ok" => effect = 1
  /\ stored => Past({"store"})
  /\ code \in {NoAuth, BadConfig} => effect = 0 /\ ~stored

\* An exit code but 130 of a command that was begun: it was not cancelled.
FlagInv == exit \notin {Running, Cancelled} /\ pc > 0 => ~cancelled

\* The terminal echoes until its mode is changed, and it is restored only
\* once the prompt has ended.
EchoInv ==
  /\ stty \in {"none", "save", "off"} /\ ~balked => echo
  /\ stty = "restore" => typed # "none"

CmdInv == CmdTypeOK /\ PlaceInv /\ StepInv /\ EffectInv /\ FlagInv /\ EchoInv

CommandInv == CapInv /\ DnsInv /\ CmdInv

\* So is that of the command which runs.
LEMMA ScriptOrdered == cmd \in Commands => Ordered(Script)
  BY ScriptsOrdered, CommandAssumption DEF Script

\* Which step a place is of.
LEMMA IdleAt ==
  ASSUME PlaceInv, NEW step, At(step)
  PROVE  /\ Operations(step) = {} => at = "idle"
         /\ step # "dns" => dnsAt = "off"
         /\ step # "prompt" => stty = "none"
         /\ exit = Running /\ pc \in DOMAIN Script /\ Script[pc] = step
  BY DEF PlaceInv, At

\* The exit codes are told apart.
LEMMA CodesDiffer ==
  /\ Failed \notin {0, NoAuth, BadConfig}
  /\ Cancelled \notin {0, NoAuth, BadConfig}
  /\ NoAuth # 0 /\ BadConfig # 0
  /\ Running \notin {0, Failed, 2, NoAuth, BadConfig, Cancelled}
  BY DEF Failed, NoAuth, BadConfig, Cancelled, Running

\* A step of the script ends: it succeeds, and the next one or a later one
\* follows, or it fails with a code.
LEMMA LeaveSound ==
  ASSUME CommandInv, exit = Running, pc \in DOMAIN Script,
         cmd' = cmd, exit' = Running, CmdTypeOK',
         at' = "idle", dnsAt' = "off", stty' = "none",
         \/ /\ code' = 0 /\ pc < pc' /\ pc' \in Nat
            /\ \A i \in DOMAIN Script : i < pc' => Done(Script[i])'
         \/ /\ code' # 0 /\ pc' = Len(Script) + 1
            /\ code' \in {NoAuth, BadConfig} => effect' = 0 /\ ~stored',
         setting' => agreed',
         effect' # 0 => Past(Written) \/ Script[pc] \in Written,
         stored' => stored \/ Script[pc] = "store",
         echo' \/ balked'
  PROVE  CmdInv'
<1>1. /\ Script' = Script /\ Len(Script) \in Nat
      /\ DOMAIN Script = 1..Len(Script) /\ cmd \in Commands
  BY ScriptOrdered DEF CommandInv, CmdInv, CmdTypeOK, Script, Ordered
<1>2. /\ pc \in Nat /\ pc' \in Nat /\ pc < pc' /\ pc' > 0
  BY <1>1
<1>3. /\ Past(Written) \/ Script[pc] \in Written => Past(Written)'
      /\ Past({"store"}) \/ Script[pc] = "store" => Past({"store"})'
  <2>1. ASSUME NEW i \in DOMAIN Script, i < pc \/ i = pc
        PROVE  i < pc'
    BY <1>1, <1>2, <2>1
  <2> QED
    BY <1>1, <2>1 DEF Past
<1>4. PlaceInv'
  BY <1>1, CodesDiffer DEF PlaceInv
<1>5. StepInv'
  BY <1>1 DEF StepInv
<1>6. EffectInv'
  <2>1. stored' => Past({"store"})'
    BY <1>3 DEF CommandInv, CmdInv, EffectInv
  <2>2. effect' # 0 => Past(Written)'
    BY <1>3
  <2> QED
    BY <2>1, <2>2, CodesDiffer DEF EffectInv
<1>7. FlagInv' /\ EchoInv'
  BY DEF FlagInv, EchoInv
<1> QED
  BY <1>4, <1>5, <1>6, <1>7 DEF CmdInv

\* A step before everything that changes something: nothing has changed.
LEMMA NothingChanged ==
  ASSUME CommandInv, NEW step, At(step), step \notin {"boundary", "print"}
  PROVE  /\ ~Past(Written) /\ ~Past({"store"}) /\ ~stored
         /\ effect # 0 =>
              at = "returned" /\ task \in Writes /\ answer # "unauthorized"
<1>1. Only(Script, Written \union {"store"}, {"boundary", "print"})
  BY ScriptOrdered DEF CommandInv, CmdInv, CmdTypeOK, Ordered
<1>2. pc \in DOMAIN Script /\ Script[pc] = step
  BY DEF At
<1>3. ~Past(Written) /\ ~Past({"store"})
  BY <1>1, <1>2 DEF Past, Only
<1> QED
  BY <1>3 DEF CommandInv, CmdInv, EffectInv

\* What the steps that are past have shown still holds.
LEMMA DoneKept ==
  ASSUME CommandInv, pc \in DOMAIN Script, cmd' = cmd,
         printed => printed', stored => stored', agreed => agreed',
         healthy' => healthy, verified => verified' \/ ~healthy',
         healthy' \/ ~healthy \/ Script[pc] \notin {"store", "print"},
         effect' = effect \/ Script[pc] \notin {"boundary", "print"},
         dnsResult' = dnsResult \/ dnsResult # "report",
         UNCHANGED <<picked, kept, faults>>
           \/ Script[pc] \notin {"cpu", "print", "verdict"}
  PROVE  \A i \in DOMAIN Script : i < pc => Done(Script[i])'
<1> SUFFICES ASSUME NEW i \in DOMAIN Script, i < pc
             PROVE  Done(Script[i])'
  OBVIOUS
<1>1. Script' = Script /\ Ordered(Script)
  BY ScriptOrdered DEF CommandInv, CmdInv, CmdTypeOK, Script
<1>2. /\ Script[i] \in Written \union {"store"} =>
           Script[pc] \in {"boundary", "print"}
      /\ Script[i] = "verdict" => Script[pc] \in {"store", "print"}
      /\ Script[i] \in {"status", "diagnose"} =>
           Script[pc] \in {"cpu", "print", "verdict"}
  BY <1>1 DEF Ordered, Only
<1>3. code = 0
  <2>1. pc # Len(Script) + 1
    BY <1>1 DEF Ordered
  <2> QED
    BY <2>1 DEF CommandInv, CmdInv, PlaceInv
<1>4. Done(Script[i])
  BY <1>3 DEF CommandInv, CmdInv, StepInv
<1> DEFINE step == Script[i]
<1>5. UNCHANGED step
  BY <1>1
<1>6. /\ (step = "print" => printed)'
      /\ (step = "store" => stored)'
      /\ (step = "after" => agreed)'
      /\ (step = "verify" => verified \/ ~healthy)'
      /\ (step = "verdict" => healthy)'
      /\ (step = "dns" => dnsResult = "report")'
  BY <1>2, <1>4, <1>5 DEF Done, CommandInv, CmdInv, CmdTypeOK
<1>7. (step \in Written => effect = 1)'
  BY <1>2, <1>4, <1>5 DEF Done
<1>8. /\ (step = "diagnose" => picked # {} \/ ~healthy)'
      /\ (step = "status" => Primary # {} \/ faults = <<>>)'
  BY <1>2, <1>4, <1>5 DEF Done, Primary
<1> QED
  BY <1>6, <1>7, <1>8 DEF Done

\* A step that makes no call of TR-064 ends.
LEMMA StepEnds ==
  ASSUME CommandInv, NEW step, At(step), at = "idle", dnsAt = "off",
         UNCHANGED <<capVars, dnsVars, cmd, exit>>, CmdTypeOK',
         stty' = "none", echo' \/ balked',
         printed => printed', stored => stored', agreed => agreed',
         healthy' => healthy, verified => verified' \/ ~healthy',
         healthy' \/ ~healthy \/ step \notin {"store", "print"},
         setting' => agreed', stored' => stored \/ step = "store",
         \/ code' = code /\ pc' = pc + 1 /\ Done(step)'
         \/ code' \in {Failed, Cancelled} /\ pc' = Len(Script) + 1
         \/ /\ code' \in {NoAuth, BadConfig} /\ pc' = Len(Script) + 1
            /\ step \notin {"boundary", "print"} /\ stored' = stored
  PROVE  CommandInv'
<1>1. /\ exit = Running /\ pc \in DOMAIN Script /\ Script[pc] = step
      /\ Len(Script) \in Nat /\ DOMAIN Script = 1..Len(Script)
      /\ Script' = Script
  BY ScriptOrdered DEF At, CommandInv, CmdInv, CmdTypeOK, Ordered, Script
<1>2. code = 0
  <2>1. pc # Len(Script) + 1
    BY <1>1
  <2> QED
    BY <2>1 DEF CommandInv, CmdInv, PlaceInv
<1>3. /\ UNCHANGED <<cancelled, at, effect, picked, kept, faults, dnsResult>>
      /\ UNCHANGED <<operation, table, history, missed, changes>>
      /\ dnsAt' = "off"
  BY DEF capVars, operation, progress, router, dnsVars
<1>4. \A i \in DOMAIN Script : i < pc => Done(Script[i])'
  BY <1>1, <1>3, DoneKept
<1>5. effect # 0 => Past(Written)
  BY DEF CommandInv, CmdInv, EffectInv
<1>6. \/ /\ code' = 0 /\ pc < pc' /\ pc' \in Nat
         /\ \A i \in DOMAIN Script : i < pc' => Done(Script[i])'
      \/ /\ code' # 0 /\ pc' = Len(Script) + 1
         /\ code' \in {NoAuth, BadConfig} => effect' = 0 /\ ~stored'
  <2>1. CASE code' = code /\ pc' = pc + 1 /\ Done(step)'
    <3>1. pc < pc' /\ pc' \in Nat
      BY <1>1, <2>1
    <3>2. \A i \in DOMAIN Script : i < pc' => i < pc \/ i = pc
      BY <1>1, <2>1
    <3>3. ASSUME NEW i \in DOMAIN Script, i = pc PROVE Done(Script[i])'
      <4>1. Script'[i] = step
        BY <1>1, <3>3
      <4> QED
        BY <2>1, <4>1 DEF Done
    <3>4. \A i \in DOMAIN Script : i < pc' => Done(Script[i])'
      BY <1>4, <3>2, <3>3
    <3> QED
      BY <1>2, <2>1, <3>1, <3>4
  <2>2. CASE code' \in {Failed, Cancelled} /\ pc' = Len(Script) + 1
    BY <2>2, CodesDiffer
  <2>3. CASE /\ code' \in {NoAuth, BadConfig} /\ pc' = Len(Script) + 1
             /\ step \notin {"boundary", "print"} /\ stored' = stored
    <3>1. effect' = 0 /\ ~stored'
      BY <1>3, <2>3, NothingChanged
    <3> QED
      BY <2>3, <3>1, CodesDiffer
  <2> QED
    BY <2>1, <2>2, <2>3
<1>7. CmdInv'
  BY <1>1, <1>3, <1>5, <1>6, LeaveSound
<1>8. CapInv'
  BY <1>3, CapIdleSound DEF CommandInv, CapInv, CapTypeOK
<1>9. DnsInv'
  BY <1>3, DnsIdleSound DEF CommandInv
<1> QED
  BY <1>7, <1>8, <1>9 DEF CommandInv

\* So does one that touches the tool alone.
LEMMA PlainStep ==
  ASSUME CommandInv, NEW step, At(step), at = "idle" \/ Operations(step) = {},
         step \notin {"dns", "store"}, step = "prompt" => stty = "none",
         UNCHANGED <<capVars, dnsVars, credential, pin, terminal>>,
         UNCHANGED <<cmd, exit>>,
         printed' \in BOOLEAN, printed => printed',
         healthy' \in BOOLEAN, healthy' => healthy,
         healthy' \/ ~healthy \/ step # "print",
         \/ code' = code /\ pc' = pc + 1 /\ Done(step)'
         \/ code' \in {Failed, Cancelled} /\ pc' = Len(Script) + 1
         \/ /\ code' \in {NoAuth, BadConfig} /\ pc' = Len(Script) + 1
            /\ step \notin {"boundary", "print"}
  PROVE  CommandInv'
<1>1. at = "idle" /\ dnsAt = "off" /\ stty = "none"
  BY IdleAt DEF CommandInv, CmdInv
<1>2. UNCHANGED <<verified, stored, setting, agreed, echo, stty, typed,
                  balked>>
  BY DEF credential, pin, terminal
<1>3. CmdTypeOK'
  <2>1. /\ pc \in DOMAIN Script /\ DOMAIN Script = 1..Len(Script)
        /\ Len(Script) \in Nat /\ Script' = Script
    BY ScriptOrdered DEF At, CommandInv, CmdInv, CmdTypeOK, Ordered, Script
  <2>2. pc' \in 0..(Len(Script') + 1)
    BY <2>1
  <2>3. code' \in {0, Failed, 2, NoAuth, BadConfig, Cancelled}
    BY DEF CommandInv, CmdInv, CmdTypeOK
  <2> QED
    BY <1>2, <2>2, <2>3 DEF CommandInv, CmdInv, CmdTypeOK
<1>4. /\ setting => agreed
      /\ echo \/ balked
  BY <1>1 DEF CommandInv, CmdInv, StepInv, EchoInv
<1> QED
  BY <1>1, <1>2, <1>3, <1>4, StepEnds

\* What is done for a step that changes nothing and promises nothing.
LEMMA DoneForFree ==
  ASSUME NEW step,
         step \notin Written \union {"print", "store", "after", "verify",
                                    "verdict", "diagnose", "status", "dns"}
  PROVE  Done(step)'
  BY DEF Done, Written

\* The steps that are no operation of TR-064.
LEMMA NoOperations ==
  ASSUME NEW step \in {"config", "connect", "web", "cpu", "switch", "interval",
                       "init", "reset", "detect", "update", "devices",
                       "checkup", "verify", "verdict", "store", "boundary",
                       "print", "uid", "before", "apply", "after", "prompt",
                       "dns", "actors"}
  PROVE  Operations(step) = {}
  BY DEF Operations, Tasks, Reads, Listings, Writes, Wireless

\* The steps that load, print, look up and ask the web interface.
LEMMA PlainSteps ==
  ASSUME CommandInv,
         \/ LoadConfig \/ LoadConnection \/ Given \/ Web \/ Cpu \/ Local
         \/ Verdict \/ Boundary \/ Output \/ LanDeviceUid \/ HomeautoDevices
  PROVE  CommandInv'
<1> USE DEF Attempt, Advance, Fail
<1>0. healthy \in BOOLEAN /\ printed \in BOOLEAN
  BY DEF CommandInv, CmdInv, CmdTypeOK
<1>1. CASE LoadConfig
  <2>1. Done("config")'
    BY DoneForFree DEF Written
  <2> QED
    BY <1>0, <1>1, <2>1, PlainStep, NoOperations DEF LoadConfig
<1>2. CASE LoadConnection
  <2>1. Done("connect")'
    BY DoneForFree DEF Written
  <2> QED
    BY <1>0, <1>2, <2>1, PlainStep, NoOperations DEF LoadConnection
<1>3. CASE Given
  <2>1. Done("resolve")' /\ Done("guest_index")'
    BY DoneForFree DEF Written
  <2> QED
    BY <1>0, <1>3, <2>1, PlainStep DEF Given
<1>4. CASE Web
  <2>1. Done("web")'
    BY DoneForFree DEF Written
  <2>2. /\ At("web")
        /\ UNCHANGED <<capVars, dnsVars, credential, pin, terminal>>
        /\ UNCHANGED <<cmd, exit, printed, healthy>>
        /\ \/ code' = code /\ pc' = pc + 1
           \/ code' \in {NoAuth, Failed} /\ pc' = Len(Script) + 1
    BY <1>4 DEF Web, FromAha
  <2> QED
    BY <1>0, <2>1, <2>2, PlainStep, NoOperations
<1>5. CASE Cpu
  <2>1. Done("cpu")'
    BY DoneForFree DEF Written
  <2> QED
    BY <1>0, <1>5, <2>1, PlainStep, NoOperations DEF Cpu
<1>6. CASE Local
  <2>1. PICK step \in {"init", "reset", "detect", "update", "devices"} :
          /\ At(step)
          /\ UNCHANGED <<capVars, dnsVars, credential, pin, terminal>>
          /\ UNCHANGED <<cmd, exit, printed, healthy>>
          /\ \/ code' = code /\ pc' = pc + 1
             \/ code' \in {BadConfig, Failed} /\ pc' = Len(Script) + 1
    BY <1>6 DEF Local
  <2>2. Done(step)'
    BY DoneForFree DEF Written
  <2> QED
    BY <1>0, <2>1, <2>2, PlainStep, NoOperations
<1>7. CASE Verdict
  <2>1. /\ At("verdict")
        /\ UNCHANGED <<capVars, dnsVars, credential, pin, terminal>>
        /\ UNCHANGED <<cmd, exit, printed, healthy>>
        /\ \/ code' = code /\ pc' = pc + 1 /\ healthy
           \/ code' \in {NoAuth, Failed} /\ pc' = Len(Script) + 1
    BY <1>7 DEF Verdict
  <2>2. healthy' => Done("verdict")'
    BY DEF Done, Written
  <2> QED
    BY <1>0, <2>1, <2>2, PlainStep, NoOperations
<1>8. CASE Boundary
  <2>1. Done("boundary")'
    BY DoneForFree DEF Written
  <2>2. /\ At("boundary")
        /\ UNCHANGED <<capVars, dnsVars, credential, pin, terminal>>
        /\ UNCHANGED <<cmd, exit, printed, healthy>>
        /\ \/ code' = code /\ pc' = pc + 1
           \/ code' = Cancelled /\ pc' = Len(Script) + 1
    BY <1>8 DEF Boundary
  <2> QED
    BY <1>0, <2>1, <2>2, PlainStep, NoOperations
<1>9. CASE Output
  <2>1. printed' => Done("print")'
    BY DEF Done, Written
  <2>2. /\ At("print")
        /\ UNCHANGED <<capVars, dnsVars, credential, pin, terminal>>
        /\ UNCHANGED <<cmd, exit, healthy>>
        /\ \/ printed' = TRUE /\ code' = code /\ pc' = pc + 1
           \/ printed' = printed /\ code' = Failed /\ pc' = Len(Script) + 1
    BY <1>9 DEF Output
  <2>3. printed' \in BOOLEAN /\ (printed => printed')
    <3>1. printed' = TRUE \/ printed' = printed
      BY <2>2
    <3> QED
      BY <1>0, <3>1, Zenon
  <2>4. \/ code' = code /\ pc' = pc + 1 /\ Done("print")'
        \/ code' \in {Failed, Cancelled} /\ pc' = Len(Script) + 1
    BY <2>1, <2>2
  <2> QED
    BY <1>0, <2>2, <2>3, <2>4, PlainStep, NoOperations
<1>10. CASE LanDeviceUid
  <2>1. Done("uid")'
    BY DoneForFree DEF Written
  <2>2. /\ At("uid")
        /\ UNCHANGED <<capVars, dnsVars, credential, pin, terminal>>
        /\ UNCHANGED <<cmd, exit, printed, healthy>>
        /\ \/ code' = code /\ pc' = pc + 1
           \/ code' = Failed /\ pc' = Len(Script) + 1
    BY <1>10 DEF LanDeviceUid
  <2> QED
    BY <1>0, <2>1, <2>2, PlainStep, NoOperations
<1>11. CASE HomeautoDevices
  <2>1. Done("actors")'
    BY DoneForFree DEF Written
  <2> QED
    BY <1>0, <1>11, <2>1, PlainStep, NoOperations DEF HomeautoDevices
<1> QED
  BY <1>1, <1>2, <1>3, <1>4, <1>5, <1>6, <1>7, <1>8, <1>9, <1>10, <1>11

\* A step that the script has is found in it.
LEMMA PlaceOfStep ==
  ASSUME NEW step, NEW i \in DOMAIN Script, Script[i] = step
  PROVE  Place(step) \in DOMAIN Script /\ Script[Place(step)] = step
  BY DEF Place

\* A step goes on to the output, past the steps that have nothing to do.
LEMMA SkipSound ==
  ASSUME CommandInv, NEW step \in {"before", "checkup"}, At(step),
         UNCHANGED <<capVars, dnsVars, credential, pin, terminal>>,
         UNCHANGED <<cmd, exit, code, printed>>, healthy' \in BOOLEAN,
         pc' = Place("print"), healthy' => healthy,
         step = "before" => setting,
         step = "checkup" => ~healthy'
  PROVE  CommandInv'
<1> DEFINE Skipped == IF step = "before" THEN {"before", "apply", "after"}
                      ELSE {"checkup", "discover", "verify", "devices"}
<1>1. /\ exit = Running /\ pc \in DOMAIN Script /\ Script[pc] = step
      /\ Len(Script) \in Nat /\ DOMAIN Script = 1..Len(Script)
      /\ Script' = Script /\ Skips(Script, step, Skipped)
      /\ \E i \in DOMAIN Script : Script[i] = "print"
  BY ScriptOrdered DEF At, CommandInv, CmdInv, CmdTypeOK, Ordered, Script
<1>2. pc' \in DOMAIN Script /\ Script[pc'] = "print"
  BY <1>1, PlaceOfStep
<1>3. /\ pc < pc'
      /\ \A j \in DOMAIN Script : pc <= j /\ j < pc' => Script[j] \in Skipped
  BY <1>1, <1>2 DEF Skips
<1>4. /\ at = "idle" /\ dnsAt = "off" /\ stty = "none"
  BY NoOperations, IdleAt DEF CommandInv, CmdInv
<1>5. /\ UNCHANGED <<cancelled, at, effect, picked, kept, faults, dnsResult>>
      /\ UNCHANGED <<operation, table, history, missed, changes>>
      /\ UNCHANGED <<verified, stored, setting, agreed, echo, stty, typed,
                     balked>>
      /\ dnsAt' = "off"
  BY <1>4 DEF capVars, operation, progress, router, dnsVars, credential, pin,
     terminal
<1>6. code = 0 /\ (setting => agreed) /\ (echo \/ balked)
  <2>1. pc # Len(Script) + 1
    BY <1>1
  <2> QED
    BY <1>4, <2>1 DEF CommandInv, CmdInv, PlaceInv, StepInv, EchoInv
<1>7. \A i \in DOMAIN Script : i < pc => Done(Script[i])'
  BY <1>1, <1>5, DoneKept
<1>8. ASSUME NEW i \in DOMAIN Script, ~(i < pc), i < pc'
      PROVE  Done(Script[i])'
  <2>1. Script[i] \in Skipped /\ UNCHANGED (Script[i])
    BY <1>1, <1>3, <1>8
  <2>2. \/ step = "before" /\ Script[i] \in {"before", "apply", "after"}
        \/ step = "checkup"
           /\ Script[i] \in {"checkup", "discover", "verify", "devices"}
    BY <2>1
  <2> QED
    BY <1>5, <1>6, <2>1, <2>2 DEF Done, Written
<1>9. \A i \in DOMAIN Script : i < pc' => Done(Script[i])'
  BY <1>7, <1>8
<1>10. CmdTypeOK'
  <2>1. pc' \in 0..(Len(Script') + 1)
    BY <1>1, <1>2
  <2> QED
    BY <1>5, <2>1 DEF CommandInv, CmdInv, CmdTypeOK
<1>11. CmdInv'
  <2>1. effect' # 0 => Past(Written)
    BY <1>4, <1>5 DEF CommandInv, CmdInv, EffectInv
  <2> QED
    BY <1>1, <1>2, <1>3, <1>4, <1>5, <1>6, <1>9, <1>10, <2>1, LeaveSound
<1>12. CapInv'
  BY <1>5, CapIdleSound DEF CommandInv, CapInv, CapTypeOK
<1>13. DnsInv'
  BY <1>5, DnsIdleSound DEF CommandInv
<1> QED
  BY <1>11, <1>12, <1>13 DEF CommandInv

\* The next round of a watch.
LEMMA IntervalSound ==
  ASSUME CommandInv, Interval
  PROVE  CommandInv'
<1>1. /\ At("interval")
      /\ UNCHANGED <<capVars, dnsVars, credential, pin, terminal>>
      /\ UNCHANGED <<cmd, exit, printed, healthy>>
      /\ \/ code' = code /\ pc' = pc + 1
         \/ code' = Failed /\ pc' = Len(Script) + 1
         \/ code' = code /\ pc' = Place("traffic")
  BY DEF Interval, Advance, Fail
<1>2. CASE \/ code' = code /\ pc' = pc + 1
           \/ code' = Failed /\ pc' = Len(Script) + 1
  <2>1. Done("interval")'
    BY DoneForFree DEF Written
  <2>2. healthy \in BOOLEAN /\ printed \in BOOLEAN
    BY DEF CommandInv, CmdInv, CmdTypeOK
  <2> QED
    BY <1>1, <1>2, <2>1, <2>2, PlainStep, NoOperations
<1>3. CASE code' = code /\ pc' = Place("traffic")
  <2>1. /\ exit = Running /\ pc \in DOMAIN Script /\ Script[pc] = "interval"
        /\ Len(Script) \in Nat /\ DOMAIN Script = 1..Len(Script)
        /\ Script' = Script /\ Ordered(Script)
    BY <1>1, ScriptOrdered
    DEF At, CommandInv, CmdInv, CmdTypeOK, Ordered, Script
  <2>2. /\ \E j \in DOMAIN Script : Script[j] = "traffic"
        /\ \A j \in DOMAIN Script :
             /\ Script[j] = "traffic" => j < pc
             /\ Script[j] \notin Written \union {"store"}
    BY <2>1 DEF Ordered
  <2>3. pc' \in DOMAIN Script /\ pc' < pc
    BY <1>3, <2>2, PlaceOfStep
  <2>4. /\ at = "idle" /\ dnsAt = "off" /\ stty = "none"
    BY <1>1, NoOperations, IdleAt DEF CommandInv, CmdInv
  <2>5. /\ UNCHANGED <<cancelled, at, effect, task, answer, picked, kept,
                       faults, dnsResult>>
        /\ UNCHANGED <<operation, table, history, missed, changes>>
        /\ UNCHANGED <<verified, stored, setting, agreed, echo, stty, typed,
                       balked>>
        /\ dnsAt' = "off"
    BY <1>1, <2>4 DEF capVars, operation, progress, router, dnsVars,
       credential, pin, terminal
  <2>6. \A i \in DOMAIN Script : i < pc => Done(Script[i])'
    BY <1>1, <2>1, <2>5, DoneKept
  <2>7. code = 0
    <3>1. pc # Len(Script) + 1
      BY <2>1
    <3> QED
      BY <3>1 DEF CommandInv, CmdInv, PlaceInv
  <2>8. CmdTypeOK'
    <3>1. pc' \in 0..(Len(Script') + 1)
      BY <2>1, <2>3
    <3> QED
      BY <1>1, <1>3, <2>5, <3>1 DEF CommandInv, CmdInv, CmdTypeOK
  <2>9. PlaceInv'
    BY <1>1, <1>3, <2>1, <2>4, <2>5, <2>7 DEF PlaceInv
  <2>10. StepInv'
    <3>1. \A i \in DOMAIN Script : i < pc' => i < pc
      BY <2>1, <2>3
    <3> QED
      BY <2>1, <2>5, <2>6, <3>1 DEF CommandInv, CmdInv, StepInv
  <2>11. EffectInv'
    <3>1. ~Past(Written) /\ ~Past({"store"})
      BY <2>2 DEF Past
    <3>2. effect' = 0 /\ ~stored'
      BY <2>4, <2>5, <3>1 DEF CommandInv, CmdInv, EffectInv
    <3> QED
      BY <2>4, <2>5, <3>2 DEF EffectInv
  <2>12. FlagInv' /\ EchoInv'
    BY <1>1, <2>1, <2>5, CodesDiffer DEF CommandInv, CmdInv, FlagInv, EchoInv
  <2>13. CapInv' /\ DnsInv'
    BY <2>5, <1>1, CapIdleSound, DnsIdleSound DEF CommandInv, CapInv, CapTypeOK
  <2> QED
    BY <2>8, <2>9, <2>10, <2>11, <2>12, <2>13 DEF CommandInv, CmdInv
<1> QED
  BY <1>1, <1>2, <1>3

\* The doctor's own checks, of which some leave nothing to ask the router.
LEMMA CheckupSound ==
  ASSUME CommandInv, Checkup
  PROVE  CommandInv'
<1>1. /\ At("checkup")
      /\ UNCHANGED <<capVars, dnsVars, credential, pin, terminal>>
      /\ UNCHANGED <<cmd, exit, printed>>
      /\ \/ code' = code /\ pc' = pc + 1 /\ healthy' = healthy
         \/ code' = code /\ pc' = pc + 1 /\ healthy' = FALSE
         \/ code' = code /\ pc' = Place("print") /\ healthy' = FALSE
         \/ /\ code' \in {BadConfig, Failed} /\ pc' = Len(Script) + 1
            /\ healthy' = healthy
  BY DEF Checkup, Advance, Fail
<1>2. CASE code' = code /\ pc' = Place("print") /\ healthy' = FALSE
  BY <1>1, <1>2, SkipSound
<1>3. CASE ~(code' = code /\ pc' = Place("print") /\ healthy' = FALSE)
  <2>1. Done("checkup")'
    BY DoneForFree DEF Written
  <2>2. healthy \in BOOLEAN /\ printed \in BOOLEAN
    BY DEF CommandInv, CmdInv, CmdTypeOK
  <2>3. healthy' \in BOOLEAN /\ (healthy' => healthy)
    <3>1. CASE healthy' = healthy
      BY <2>2, <3>1, Zenon
    <3>2. CASE healthy' = FALSE
      BY <3>2, Zenon
    <3> QED
      BY <1>1, <3>1, <3>2
  <2>4. \/ code' = code /\ pc' = pc + 1
        \/ code' \in {BadConfig, Failed} /\ pc' = Len(Script) + 1
    BY <1>1, <1>3
  <2> QED
    BY <1>1, <2>1, <2>2, <2>3, <2>4, PlainStep, NoOperations
<1> QED
  BY <1>2, <1>3

\* The steps of hosts pin: what was read before decides what is written.
LEMMA PinSound ==
  ASSUME CommandInv, ReadBefore \/ ApplyPin \/ ReadAfter
  PROVE  CommandInv'
<1>0. /\ healthy \in BOOLEAN /\ printed \in BOOLEAN /\ setting \in BOOLEAN
      /\ agreed \in BOOLEAN /\ (setting => agreed)
  BY DEF CommandInv, CmdInv, CmdTypeOK, StepInv
<1>1. CASE ReadBefore
  <2>1. /\ At("before")
        /\ UNCHANGED <<capVars, dnsVars, credential, pin, terminal>>
        /\ UNCHANGED <<cmd, exit, printed, healthy>>
        /\ \/ code' = code /\ pc' = pc + 1
           \/ code' = Failed /\ pc' = Len(Script) + 1
           \/ code' = code /\ pc' = Place("print") /\ setting
    BY <1>1 DEF ReadBefore, Fail
  <2>2. Done("before")'
    BY DoneForFree DEF Written
  <2>3. CASE code' = code /\ pc' = Place("print") /\ setting
    BY <1>0, <2>1, <2>3, SkipSound
  <2>4. CASE \/ code' = code /\ pc' = pc + 1
             \/ code' = Failed /\ pc' = Len(Script) + 1
    BY <1>0, <2>1, <2>2, <2>4, PlainStep, NoOperations
  <2> QED
    BY <2>1, <2>3, <2>4
<1>2. CASE ApplyPin
  <2>1. /\ At("apply") /\ UNCHANGED <<capVars, dnsVars, credential, terminal>>
        /\ UNCHANGED <<cmd, exit, printed, healthy>>
        /\ setting' \in {setting, TRUE} /\ agreed' = (agreed \/ setting')
        /\ \/ code' = code /\ pc' = pc + 1
           \/ code' = Failed /\ pc' = Len(Script) + 1
    BY <1>2 DEF ApplyPin, Advance, Fail
  <2>2. at = "idle" /\ dnsAt = "off" /\ stty = "none"
    BY <2>1, NoOperations, IdleAt DEF CommandInv, CmdInv
  <2>3. /\ setting' \in BOOLEAN /\ agreed' \in BOOLEAN
        /\ (agreed => agreed') /\ (setting' => agreed')
    BY <1>0, <2>1
  <2>4. UNCHANGED <<verified, stored, echo, stty, typed, balked>>
    BY <2>1 DEF credential, terminal
  <2>5. CmdTypeOK'
    <3>1. /\ pc \in DOMAIN Script /\ DOMAIN Script = 1..Len(Script)
          /\ Len(Script) \in Nat /\ Script' = Script
      BY <2>1, ScriptOrdered
      DEF At, CommandInv, CmdInv, CmdTypeOK, Ordered, Script
    <3>2. pc' \in 0..(Len(Script') + 1)
      BY <2>1, <3>1
    <3> QED
      BY <2>1, <2>3, <2>4, <3>2 DEF CommandInv, CmdInv, CmdTypeOK
  <2>6. Done("apply")'
    BY DoneForFree DEF Written
  <2>7. echo \/ balked
    BY <2>2 DEF CommandInv, CmdInv, EchoInv
  <2> QED
    BY <2>1, <2>2, <2>3, <2>4, <2>5, <2>6, <2>7, StepEnds
<1>3. CASE ReadAfter
  <2>1. /\ At("after")
        /\ UNCHANGED <<capVars, dnsVars, credential, pin, terminal>>
        /\ UNCHANGED <<cmd, exit, printed, healthy>>
        /\ \/ code' = code /\ pc' = pc + 1 /\ setting
           \/ code' = Failed /\ pc' = Len(Script) + 1
    BY <1>3 DEF ReadAfter, Advance, Fail
  <2>2. setting => Done("after")'
    BY <1>0, <2>1 DEF Done, Written, pin
  <2>3. \/ code' = code /\ pc' = pc + 1 /\ Done("after")'
        \/ code' \in {Failed, Cancelled} /\ pc' = Len(Script) + 1
    BY <2>1, <2>2
  <2> QED
    BY <1>0, <2>1, <2>3, PlainStep, NoOperations
<1> QED
  BY <1>1, <1>2, <1>3

\* The password is tried.
LEMMA VerifySound ==
  ASSUME CommandInv, Verify
  PROVE  CommandInv'
<1>1. /\ At("verify") /\ UNCHANGED <<capVars, dnsVars, stored, pin, terminal>>
      /\ UNCHANGED <<cmd, exit, printed>>
      /\ \/ /\ code' = code /\ pc' = pc + 1
            /\ \E accepted \in BOOLEAN :
                 verified' = accepted /\ healthy' = (healthy /\ accepted)
         \/ /\ code' = Failed /\ pc' = Len(Script) + 1
            /\ UNCHANGED <<verified, healthy>>
  BY DEF Verify, Fail
<1>2. /\ healthy \in BOOLEAN /\ verified \in BOOLEAN
      /\ (setting => agreed)
  BY DEF CommandInv, CmdInv, CmdTypeOK, StepInv
<1>3. at = "idle" /\ dnsAt = "off" /\ stty = "none"
  BY <1>1, NoOperations, IdleAt DEF CommandInv, CmdInv
<1>4. /\ healthy' \in BOOLEAN /\ verified' \in BOOLEAN /\ (healthy' => healthy)
      /\ verified => verified' \/ ~healthy'
      /\ \/ code' = code /\ pc' = pc + 1 /\ (verified' \/ ~healthy')
         \/ code' = Failed /\ pc' = Len(Script) + 1
  <2>1. CASE code' = code /\ pc' = pc + 1
             /\ \E accepted \in BOOLEAN :
                  verified' = accepted /\ healthy' = (healthy /\ accepted)
    <3>1. PICK accepted \in BOOLEAN :
            verified' = accepted /\ healthy' = (healthy /\ accepted)
      BY <2>1
    <3> QED
      BY <1>2, <2>1, <3>1
  <2>2. CASE /\ code' = Failed /\ pc' = Len(Script) + 1
             /\ UNCHANGED <<verified, healthy>>
    BY <1>2, <2>2
  <2> QED
    BY <1>1, <2>1, <2>2
<1>5. UNCHANGED <<stored, setting, agreed, echo, stty, typed, balked>>
  BY <1>1 DEF pin, terminal
<1>6. CmdTypeOK'
  <2>1. /\ pc \in DOMAIN Script /\ DOMAIN Script = 1..Len(Script)
        /\ Len(Script) \in Nat /\ Script' = Script
    BY <1>1, ScriptOrdered
    DEF At, CommandInv, CmdInv, CmdTypeOK, Ordered, Script
  <2>2. pc' \in 0..(Len(Script') + 1)
    BY <1>1, <2>1
  <2> QED
    BY <1>1, <1>4, <1>5, <2>2 DEF CommandInv, CmdInv, CmdTypeOK
<1>7. \/ code' = code /\ pc' = pc + 1 /\ Done("verify")'
      \/ code' \in {Failed, Cancelled} /\ pc' = Len(Script) + 1
  BY <1>1, <1>4 DEF Done, Written
<1>8. echo \/ balked
  BY <1>3 DEF CommandInv, CmdInv, EchoInv
<1> QED
  BY <1>1, <1>2, <1>3, <1>4, <1>5, <1>6, <1>7, <1>8, StepEnds

\* The password is kept.
LEMMA StoreSound ==
  ASSUME CommandInv, StoreCredential
  PROVE  CommandInv'
<1>0. healthy \in BOOLEAN /\ stored \in BOOLEAN /\ (setting => agreed)
  BY DEF CommandInv, CmdInv, CmdTypeOK, StepInv
<1>1. /\ At("store") /\ UNCHANGED <<capVars, dnsVars, verified, pin, terminal>>
      /\ UNCHANGED <<cmd, exit, printed, healthy>>
      /\ \/ code' = code /\ pc' = pc + 1
         \/ code' \in {Failed, Cancelled} /\ pc' = Len(Script) + 1
      /\ stored' \in BOOLEAN
      /\ \/ code' = code /\ pc' = pc + 1 /\ stored'
         \/ code' \in {Failed, Cancelled} /\ pc' = Len(Script) + 1
  BY <1>0 DEF StoreCredential, Advance, Fail
<1>2. ~stored
  BY <1>1, NothingChanged
<1>3. at = "idle" /\ dnsAt = "off" /\ stty = "none"
  BY <1>1, NoOperations, IdleAt DEF CommandInv, CmdInv
<1>4. UNCHANGED <<verified, setting, agreed, echo, stty, typed, balked>>
  BY <1>1 DEF pin, terminal
<1>5. \/ code' = code /\ pc' = pc + 1
      \/ code' \in {Failed, Cancelled} /\ pc' = Len(Script) + 1
  BY <1>1
<1>6. CmdTypeOK'
  <2>1. /\ pc \in DOMAIN Script /\ DOMAIN Script = 1..Len(Script)
        /\ Len(Script) \in Nat /\ Script' = Script
    BY <1>1, ScriptOrdered
    DEF At, CommandInv, CmdInv, CmdTypeOK, Ordered, Script
  <2>2. pc' \in 0..(Len(Script') + 1)
    BY <1>5, <2>1
  <2>3. /\ code' \in {0, Failed, 2, NoAuth, BadConfig, Cancelled}
        /\ UNCHANGED <<cmd, exit, printed, healthy>> /\ stored' \in BOOLEAN
    BY <1>1, <1>5 DEF CommandInv, CmdInv, CmdTypeOK
  <2> QED
    BY <1>4, <2>2, <2>3 DEF CommandInv, CmdInv, CmdTypeOK
<1>7. \/ code' = code /\ pc' = pc + 1 /\ Done("store")'
      \/ code' \in {Failed, Cancelled} /\ pc' = Len(Script) + 1
  BY <1>1 DEF Done, Written
<1>8. echo \/ balked
  BY <1>3 DEF CommandInv, CmdInv, EchoInv
<1> QED
  BY <1>0, <1>1, <1>2, <1>3, <1>4, <1>6, <1>7, <1>8, StepEnds

\* A prompt ends: the terminal echoes, or a program that switches it failed.
LEMMA PromptEnds ==
  ASSUME CommandInv, At("prompt"),
         UNCHANGED <<capVars, dnsVars, credential, pin, typed>>,
         UNCHANGED <<cmd, exit, printed, healthy>>,
         stty' = "none", echo' \in BOOLEAN, balked' \in BOOLEAN,
         echo' \/ balked',
         \/ code' = code /\ pc' = pc + 1
         \/ code' \in {Failed, BadConfig, Cancelled} /\ pc' = Len(Script) + 1
  PROVE  CommandInv'
<1>1. at = "idle" /\ dnsAt = "off"
  BY NoOperations, IdleAt DEF CommandInv, CmdInv
<1>2. UNCHANGED <<verified, stored, setting, agreed>>
  BY DEF credential, pin
<1>3. CmdTypeOK'
  <2>1. /\ pc \in DOMAIN Script /\ DOMAIN Script = 1..Len(Script)
        /\ Len(Script) \in Nat /\ Script' = Script
    BY ScriptOrdered DEF At, CommandInv, CmdInv, CmdTypeOK, Ordered, Script
  <2>2. pc' \in 0..(Len(Script') + 1)
    BY <2>1
  <2> QED
    BY <1>2, <2>2 DEF CommandInv, CmdInv, CmdTypeOK
<1>4. Done("prompt")' /\ (setting => agreed)
  BY DoneForFree DEF Written, CommandInv, CmdInv, StepInv
<1> QED
  BY <1>1, <1>2, <1>3, <1>4, StepEnds

\* A switch is switched: at once, or perhaps when no reply says so.
LEMMA SwitchSound ==
  ASSUME CommandInv, Switch
  PROVE  CommandInv'
<1>1. /\ At("switch")
      /\ UNCHANGED <<cancelled, operation, router, history, missed, dnsVars,
                     credential, pin, terminal>>
      /\ UNCHANGED <<cmd, exit, printed, healthy>>
      /\ \/ code' = code /\ pc' = pc + 1 /\ effect' = effect + 1
         \/ /\ code' = Failed /\ pc' = Len(Script) + 1
            /\ effect' \in {effect, effect + 1}
         \/ /\ code' = NoAuth /\ pc' = Len(Script) + 1 /\ effect' = effect
  <2>1. PICK reply \in WebReplies :
          /\ effect' \in
               CASE reply = "ok" -> {effect + 1}
                 [] reply = "fail" /\ ~cancelled -> {effect, effect + 1}
                 [] OTHER -> {effect}
          /\ IF reply = "ok" THEN Advance ELSE Fail(FromAha(reply))
    BY DEF Switch
  <2>2. reply \in {"ok", "auth", "fail"}
    BY DEF WebReplies
  <2> QED
    BY <2>1, <2>2 DEF Switch, Advance, Fail, FromAha
<1>2. /\ exit = Running /\ pc \in DOMAIN Script /\ Script[pc] = "switch"
      /\ Len(Script) \in Nat /\ DOMAIN Script = 1..Len(Script)
      /\ Script' = Script
  BY <1>1, ScriptOrdered
  DEF At, CommandInv, CmdInv, CmdTypeOK, Ordered, Script
<1>3. at = "idle" /\ dnsAt = "off" /\ stty = "none"
  BY <1>1, NoOperations, IdleAt DEF CommandInv, CmdInv
<1>4. effect = 0 /\ ~stored
  BY <1>1, <1>3, NothingChanged
<1>5. /\ UNCHANGED <<at, dnsAt, dnsResult, picked, kept, faults>>
      /\ UNCHANGED <<verified, stored, setting, agreed, echo, stty, typed,
                     balked>>
      /\ UNCHANGED <<table, changes, operation>>
  BY <1>1 DEF operation, progress, router, dnsVars, credential, pin, terminal
<1>6. \A i \in DOMAIN Script : i < pc => Done(Script[i])'
  BY <1>1, <1>2, <1>5, DoneKept
<1>7. code = 0 /\ (setting => agreed) /\ (echo \/ balked)
  <2>1. pc # Len(Script) + 1
    BY <1>2
  <2> QED
    BY <1>3, <2>1 DEF CommandInv, CmdInv, PlaceInv, StepInv, EchoInv
<1>8. effect' \in 0..1
  BY <1>1, <1>4
<1>9. \/ /\ code' = 0 /\ pc < pc' /\ pc' \in Nat
         /\ \A i \in DOMAIN Script : i < pc' => Done(Script[i])'
      \/ /\ code' # 0 /\ pc' = Len(Script) + 1
         /\ code' \in {NoAuth, BadConfig} => effect' = 0 /\ ~stored'
  <2>1. CASE code' = code /\ pc' = pc + 1 /\ effect' = effect + 1
    <3>1. pc < pc' /\ pc' \in Nat /\ effect' = 1
      BY <1>2, <1>4, <2>1
    <3>2. ASSUME NEW i \in DOMAIN Script, i = pc PROVE Done(Script[i])'
      <4>1. Script'[i] = "switch"
        BY <1>2, <3>2
      <4> QED
        BY <3>1, <4>1 DEF Done
    <3>3. \A i \in DOMAIN Script : i < pc' => i < pc \/ i = pc
      BY <1>2, <2>1
    <3> QED
      BY <1>6, <1>7, <2>1, <3>1, <3>2, <3>3
  <2>2. CASE code' = Failed /\ pc' = Len(Script) + 1
    BY <2>2, CodesDiffer
  <2>3. CASE code' = NoAuth /\ pc' = Len(Script) + 1 /\ effect' = effect
    BY <1>4, <1>5, <2>3, CodesDiffer
  <2> QED
    BY <1>1, <2>1, <2>2, <2>3
<1>10. CmdTypeOK'
  <2>1. pc' \in 0..(Len(Script') + 1)
    BY <1>1, <1>2
  <2>2. code' \in {0, Failed, 2, NoAuth, BadConfig, Cancelled}
    BY <1>1, <1>7
  <2> QED
    BY <1>1, <1>5, <2>1, <2>2 DEF CommandInv, CmdInv, CmdTypeOK
<1>11. CmdInv'
  <2>1. Script[pc] \in Written
    BY <1>2 DEF Written
  <2> QED
    BY <1>1, <1>2, <1>3, <1>4, <1>5, <1>7, <1>9, <1>10, <2>1, LeaveSound
<1>12. CapInv'
  BY <1>1, <1>5, <1>8, CapIdleSound DEF CommandInv, CapInv, CapTypeOK
<1>13. DnsInv'
  BY <1>1, DnsIdleSound DEF CommandInv
<1> QED
  BY <1>11, <1>12, <1>13 DEF CommandInv

\* The commands whose operations are looked at closer.
LEMMA FewOperations ==
  ASSUME cmd \in Commands, pc \in DOMAIN Script,
         NEW t \in Operations(Script[pc])
  PROVE  /\ cmd = "doctor" => t = "discover"
         /\ cmd = "call" => t = "call"
<1>1. CASE cmd = "doctor"
  <2>1. Script = DoctorScript
    BY <1>1 DEF Script, Scripts
  <2>2. Script[pc] \in {"checkup", "discover", "verify", "devices", "print",
                        "verdict"}
    BY <2>1 DEF DoctorScript
  <2> QED
    BY <1>1, <2>2, NoOperations DEF Operations
<1>2. CASE cmd = "call"
  <2>1. Script = CallScript
    BY <1>2 DEF Script, Scripts
  <2>2. Script[pc] \in {"connect", "call", "print"}
    BY <2>1 DEF CallScript
  <2> QED
    BY <1>2, <2>2, NoOperations DEF Operations
<1> QED
  BY <1>1, <1>2

\* An operation that writes is a step that does.
LEMMA WriteStep ==
  ASSUME NEW step, NEW t \in Operations(step)
  PROVE  /\ t \in Writes => step = t /\ step \in Written
         /\ step \in Written => t \in Writes
         /\ step \in {"status", "diagnose"} => t = step
         /\ t \in {"status", "diagnose"} => t = step
         /\ step \notin {"print", "store", "after", "verify", "verdict", "dns",
                         "cpu", "boundary"}
  BY DEF Operations, Tasks, Reads, Listings, Writes, Wireless, Written

\* The answer of an operation ends its step.
LEMMA ConsumeSound ==
  ASSUME CommandInv, Consume
  PROVE  CommandInv'
<1>1. /\ at = "returned" /\ at' = "idle" /\ End
      /\ UNCHANGED <<progress, answer, cancelled, router, effect, history,
                     missed, dnsVars, credential, pin, terminal>>
      /\ UNCHANGED <<cmd, exit, printed>>
      /\ \/ answer = "ok" /\ code' = code /\ pc' = pc + 1 /\ healthy' = healthy
         \/ /\ answer = "checks" \/ cmd = "doctor"
            /\ code' = code /\ pc' = pc + 1 /\ healthy' = FALSE
         \/ /\ answer \notin {"ok", "checks"} /\ cmd # "doctor"
            /\ code' \in Codes /\ pc' = Len(Script) + 1 /\ healthy' = healthy
  BY DEF Consume, End, Advance, Fail
<1>2. /\ exit = Running /\ pc \in DOMAIN Script
      /\ task \in Operations(Script[pc])
      /\ Len(Script) \in Nat /\ DOMAIN Script = 1..Len(Script)
      /\ Script' = Script /\ cmd \in Commands
  BY <1>1, ScriptOrdered
  DEF CommandInv, CmdInv, CmdTypeOK, PlaceInv, Ordered, Script
<1> DEFINE step == Script[pc]
<1>3. /\ task \in Writes => step = task /\ step \in Written
      /\ step \in Written => task \in Writes
      /\ step \in {"status", "diagnose"} => task = step
      /\ task \in {"status", "diagnose"} => task = step
      /\ step \notin {"print", "store", "after", "verify", "verdict", "dns",
                      "cpu", "boundary"}
      /\ cmd = "doctor" => task = "discover"
      /\ cmd = "call" => task = "call"
  BY <1>2, WriteStep, FewOperations
<1>4. At(step)
  BY <1>2 DEF At
<1>5. /\ ~Past(Written) /\ ~Past({"store"}) /\ ~stored
      /\ effect # 0 => task \in Writes /\ answer # "unauthorized"
  BY <1>3, <1>4, NothingChanged
<1>6. dnsAt = "off" /\ stty = "none"
  <2>1. step # "prompt"
    BY <1>2, NoOperations
  <2> QED
    BY <1>3, <1>4, <2>1, IdleAt DEF CommandInv, CmdInv
<1>7. /\ UNCHANGED <<picked, kept, faults, dnsAt, dnsResult, verified, stored,
                     setting, agreed, echo, stty, typed, balked>>
  BY <1>1 DEF progress, dnsVars, credential, pin, terminal
<1>8. /\ code = 0 /\ (setting => agreed) /\ (echo \/ balked)
      /\ healthy \in BOOLEAN
  <2>1. pc # Len(Script) + 1
    BY <1>2
  <2> QED
    BY <1>6, <2>1
    DEF CommandInv, CmdInv, CmdTypeOK, PlaceInv, StepInv, EchoInv
<1>9. healthy' \in BOOLEAN /\ (healthy' => healthy)
  <2>1. CASE healthy' = healthy
    BY <1>8, <2>1, Zenon
  <2>2. CASE healthy' = FALSE
    BY <2>2, Zenon
  <2> QED
    BY <1>1, <2>1, <2>2
<1>10. \A i \in DOMAIN Script : i < pc => Done(Script[i])'
  BY <1>1, <1>2, <1>3, <1>7, <1>9, DoneKept
<1>11. ASSUME \/ answer = "ok"
              \/ (answer = "checks" \/ cmd = "doctor") /\ healthy' = FALSE,
              NEW i \in DOMAIN Script, i = pc
       PROVE  Done(Script[i])'
  <2>1. Script'[i] = Script[i] /\ Script[i] = step
    BY <1>2, <1>11
  <2> HIDE DEF step
  <2>2. /\ answer = "checks" => task = "diagnose"
        /\ AnswerInv
    BY <1>1 DEF CommandInv, CapInv, TaskInv, ListInv
  <2>3. task \in Writes /\ answer = "ok" => effect = 1
    BY <1>1 DEF CommandInv, CmdInv, EffectInv
  <2>4. step \in Written => answer = "ok"
    BY <1>3, <1>11, <2>2 DEF Writes
  <2>5. step \in Written => effect' = 1
    BY <1>1, <1>3, <2>3, <2>4
  <2>6. step = "diagnose" => picked' # {} \/ ~healthy'
    BY <1>1, <1>3, <1>7, <1>11, <2>2 DEF AnswerInv
  <2>7. step = "status" => answer = "ok"
    BY <1>3, <1>11, <2>2
  <2>8. step = "status" => Primary' # {} \/ faults' = <<>>
    BY <1>1, <1>3, <1>7, <2>2, <2>7 DEF AnswerInv, Primary
  <2> QED
    BY <1>3, <2>1, <2>5, <2>6, <2>8 DEF Done
<1>12. ASSUME answer \notin {"ok", "checks"}, NEW c \in Codes
       PROVE  /\ c \in {Failed, NoAuth, BadConfig}
              /\ c \in {NoAuth, BadConfig} => effect = 0
  <2>1. CASE cmd = "call" /\ index = 1 /\ c = BadConfig
    <3>1. task \notin Writes
      BY <1>3, <2>1 DEF Writes
    <3> QED
      BY <1>5, <2>1, <3>1
  <2>2. CASE c = FromClient(answer)
    BY <1>5, <2>2, CodesDiffer DEF FromClient
  <2>3. CASE c = Failed
    BY <2>3, CodesDiffer
  <2> QED
    BY <1>12, <2>1, <2>2, <2>3 DEF Codes
<1>13. \/ /\ code' = 0 /\ pc < pc' /\ pc' \in Nat
          /\ \A i \in DOMAIN Script : i < pc' => Done(Script[i])'
       \/ /\ code' # 0 /\ pc' = Len(Script) + 1
          /\ code' \in {NoAuth, BadConfig} => effect' = 0 /\ ~stored'
  <2>1. CASE \/ answer = "ok" /\ code' = code /\ pc' = pc + 1
             \/ /\ answer = "checks" \/ cmd = "doctor"
                /\ code' = code /\ pc' = pc + 1 /\ healthy' = FALSE
    <3>1. pc < pc' /\ pc' \in Nat
      BY <1>2, <2>1
    <3>2. \A i \in DOMAIN Script : i < pc' => i < pc \/ i = pc
      BY <1>2, <2>1
    <3>3. \A i \in DOMAIN Script : i < pc' => Done(Script[i])'
      BY <1>10, <1>11, <2>1, <3>2
    <3> QED
      BY <1>8, <2>1, <3>1, <3>3
  <2>2. CASE /\ answer \notin {"ok", "checks"}
             /\ code' \in Codes /\ pc' = Len(Script) + 1
    BY <1>1, <1>5, <1>7, <1>12, <2>2, CodesDiffer
  <2> QED
    BY <1>1, <2>1, <2>2
<1>14. CmdTypeOK'
  <2>1. pc' \in 0..(Len(Script') + 1)
    BY <1>1, <1>2
  <2>2. code' \in {0, Failed, 2, NoAuth, BadConfig, Cancelled}
    BY <1>1, <1>8, <1>12
  <2> QED
    BY <1>1, <1>7, <1>9, <2>1, <2>2 DEF CommandInv, CmdInv, CmdTypeOK
<1>15. CmdInv'
  BY <1>1, <1>2, <1>3, <1>5, <1>6, <1>7, <1>8, <1>13, <1>14, LeaveSound
<1>16. CapInv'
  BY <1>1, EndSound DEF CommandInv
<1>17. DnsInv'
  BY <1>1, DnsIdleSound DEF CommandInv
<1> QED
  BY <1>15, <1>16, <1>17 DEF CommandInv

\* The process stays at its step.
LEMMA StaySound ==
  ASSUME CommandInv,
         UNCHANGED <<operation, effect, tool, credential>>,
         setting' \in BOOLEAN, agreed' \in BOOLEAN, echo' \in BOOLEAN,
         balked' \in BOOLEAN,
         stty' \in {"none", "save", "off", "read", "restore"},
         typed' \in {"none", "line", "blank", "error", "cancelled"},
         agreed => agreed', setting' => agreed',
         dnsAt' # "off" => At("dns"), stty' # "none" => At("prompt"),
         dnsResult' = dnsResult \/ dnsResult # "report",
         cancelled' = cancelled \/ exit = Running,
         EchoInv'
  PROVE  CmdInv'
<1>1. UNCHANGED <<at, task, answer, picked, kept, faults, cmd, pc, code, exit,
                  printed, healthy, verified, stored>>
  BY DEF operation, progress, tool, credential
<1>2. Script' = Script
  BY <1>1 DEF Script
<1>3. CmdTypeOK'
  BY <1>1, <1>2 DEF CommandInv, CmdInv, CmdTypeOK
<1>4. PlaceInv'
  BY <1>1, <1>2 DEF CommandInv, CmdInv, PlaceInv, At
<1>5. StepInv'
  <2>1. ASSUME NEW i \in DOMAIN Script, Done(Script[i])
        PROVE  Done(Script[i])'
    <3>1. UNCHANGED Script[i]
      BY <1>2
    <3> QED
      BY <1>1, <2>1, <3>1 DEF Done, Primary
  <2> QED
    BY <1>1, <1>2, <2>1 DEF CommandInv, CmdInv, StepInv
<1>6. EffectInv'
  <2>1. Past(Written)' = Past(Written) /\ Past({"store"})' = Past({"store"})
    BY <1>1, <1>2 DEF Past
  <2> QED
    BY <1>1, <2>1 DEF CommandInv, CmdInv, EffectInv
<1>7. FlagInv'
  BY <1>1 DEF CommandInv, CmdInv, FlagInv
<1> QED
  BY <1>3, <1>4, <1>5, <1>6, <1>7 DEF CmdInv

\* The operation of a step is begun, or goes on.
LEMMA OperationSound ==
  ASSUME CommandInv, CapInv',
         UNCHANGED <<cancelled, dnsVars, cmdVars>>,
         exit = Running, pc \in DOMAIN Script,
         task' \in Operations(Script[pc]),
         \/ effect' = effect /\ at # "returned"
         \/ /\ task' \in Writes /\ effect' = effect + 1 /\ at = "write"
            /\ at' = "returned" /\ answer' # "unauthorized",
         at' = "returned" /\ task' \in Writes /\ answer' = "ok" => effect' = 1
  PROVE  CommandInv'
<1>1. UNCHANGED <<cmd, pc, code, exit, printed, healthy, verified, stored,
                  setting, agreed, echo, stty, typed, balked, dnsAt,
                  dnsResult>>
  BY DEF cmdVars, tool, credential, pin, terminal, dnsVars
<1>2. Script' = Script
  BY <1>1 DEF Script
<1>3. CmdTypeOK' /\ PlaceInv' /\ FlagInv' /\ EchoInv'
  BY <1>1, <1>2 DEF CommandInv, CmdInv, CmdTypeOK, PlaceInv, FlagInv, EchoInv,
     At
<1>4. /\ Script[pc] \notin {"print", "store", "after", "verify", "verdict",
                            "dns", "cpu", "boundary"}
      /\ task' \in Writes => Script[pc] \in Written
  BY WriteStep
<1>5. \A i \in DOMAIN Script : i < pc => Done(Script[i])'
  BY <1>1, <1>4, DoneKept
<1>6. StepInv'
  BY <1>1, <1>2, <1>5 DEF CommandInv, CmdInv, StepInv
<1>7. EffectInv'
  <2>1. Past(Written)' = Past(Written) /\ Past({"store"})' = Past({"store"})
    BY <1>1, <1>2 DEF Past
  <2>2. At(Script[pc])
    BY DEF At
  <2>3. code = 0
    BY ScriptOrdered
    DEF CommandInv, CmdInv, CmdTypeOK, PlaceInv, Ordered
  <2>4. ~stored' /\ code' \notin {NoAuth, BadConfig}
    BY <1>1, <1>4, <2>2, <2>3, NothingChanged, CodesDiffer
  <2>5. effect' # 0 =>
          at' = "returned" /\ task' \in Writes /\ answer' # "unauthorized"
    BY <1>4, <2>2, NothingChanged
  <2> QED
    BY <2>4, <2>5 DEF EffectInv
<1>8. DnsInv'
  BY DnsIdleSound DEF CommandInv
<1> QED
  BY <1>3, <1>6, <1>7, <1>8 DEF CommandInv, CmdInv

\* A step begins its operation.
LEMMA AskSound ==
  ASSUME CommandInv, Ask
  PROVE  CommandInv'
<1>1. PICK t \in Operations(Script[pc]) : Begin(t)
  BY DEF Ask
<1>2. /\ exit = Running /\ pc \in DOMAIN Script
      /\ at = "idle" /\ task' = t /\ at' \in First(t)
      /\ UNCHANGED <<cancelled, effect, dnsVars, cmdVars>>
  BY <1>1 DEF Ask, Begin
<1>3. t \in Tasks
  BY DEF Operations, Tasks, Reads, Listings
<1>4. at' # "returned"
  BY <1>2, <1>3 DEF First, Tasks, Reads, Listings, Writes, Wireless
<1>5. CapInv'
  BY <1>1, <1>3, BeginSound DEF CommandInv
<1> QED
  BY <1>2, <1>4, <1>5, OperationSound

\* An operation makes its next call: a call that changes something is made
\* once, by a step that is there to make it.
LEMMA CapSound ==
  ASSUME CommandInv, CapStep, UNCHANGED <<dnsVars, cmdVars>>
  PROVE  CommandInv'
<1>1. /\ TaskInv' /\ task' = task /\ at \notin {"idle", "returned"}
  BY PlaceStep DEF CommandInv, CapInv
<1>2. exit = Running /\ pc \in DOMAIN Script /\ task \in Operations(Script[pc])
  BY <1>1 DEF CommandInv, CmdInv, PlaceInv
<1>3. /\ UNCHANGED cancelled
      /\ \/ effect' = effect
         \/ /\ at = "write" /\ task \in Writes /\ at' = "returned"
            /\ effect' = effect + 1 /\ answer' # "unauthorized"
      /\ at = "write" /\ at' = "returned" /\ answer' = "ok" =>
           effect' = effect + 1
  BY CapFrame
<1>4. task \in Writes => effect = 0 /\ at = "write"
  <2>1. At(Script[pc])
    BY <1>2 DEF At
  <2>2. Script[pc] \notin {"boundary", "print"}
    BY <1>2, WriteStep
  <2>3. effect = 0
    BY <1>1, <2>1, <2>2, NothingChanged
  <2>4. task \in Writes => at = "write"
    BY <1>1 DEF CommandInv, CapInv, TaskInv, TasksAt, CapTypeOK, Writes, Reads,
       Listings, Wireless
  <2> QED
    BY <2>3, <2>4
<1>5. effect \in 0..1 /\ effect' \in 0..1
  <2>1. effect \in 0..1
    BY DEF CommandInv, CapInv, CapTypeOK
  <2> QED
    BY <1>3, <1>4, <2>1
<1>6. CapInv'
  BY <1>5, CapStepSound DEF CommandInv
<1>7. at' = "returned" /\ task' \in Writes /\ answer' = "ok" => effect' = 1
  BY <1>1, <1>3, <1>4
<1> QED
  BY <1>1, <1>2, <1>3, <1>6, <1>7, OperationSound

\* The check before the command, and refused arguments.
LEMMA StartSound ==
  ASSUME CommandInv, Start
  PROVE  CommandInv'
<1>1. /\ exit = Running /\ pc = 0
      /\ UNCHANGED <<capVars, dnsVars, credential, pin, terminal>>
      /\ UNCHANGED <<cmd, printed, healthy>>
      /\ \/ pc' = pc + 1 /\ UNCHANGED <<code, exit>>
         \/ code' = Cancelled /\ pc' = Len(Script) + 1 /\ UNCHANGED exit
         \/ exit' \in {Failed, 2, BadConfig} /\ UNCHANGED <<pc, code>>
  BY DEF Start, Fail, Advance
<1>2. /\ Script' = Script /\ Len(Script) \in Nat
      /\ DOMAIN Script = 1..Len(Script) /\ cmd \in Commands
  BY <1>1, ScriptOrdered DEF CommandInv, CmdInv, CmdTypeOK, Script, Ordered
<1>3. /\ pc \notin DOMAIN Script /\ code = 0
      /\ ~Past(Written) /\ ~Past({"store"})
  BY <1>1, <1>2 DEF CommandInv, CmdInv, PlaceInv, Past
<1>4. at = "idle" /\ dnsAt = "off" /\ stty = "none" /\ effect = 0 /\ ~stored
  BY <1>3 DEF CommandInv, CmdInv, PlaceInv, EffectInv, At
<1>5. /\ UNCHANGED <<at, dnsAt, effect, cancelled, verified, stored, setting,
                     agreed, echo, stty, typed, balked>>
      /\ UNCHANGED <<operation, table, history, missed, changes>>
  BY <1>1 DEF capVars, operation, progress, router, dnsVars, credential, pin,
     terminal
<1>6. pc' \in 0..(Len(Script') + 1)
  BY <1>1, <1>2
<1>7. CmdTypeOK'
  BY <1>1, <1>5, <1>6 DEF CommandInv, CmdInv, CmdTypeOK
<1>8. PlaceInv'
  BY <1>1, <1>2, <1>3, <1>4, <1>5 DEF PlaceInv
<1>9. StepInv'
  <2>1. code' = 0 => \A i \in DOMAIN Script : ~(i < pc')
    BY <1>1, <1>2, CodesDiffer
  <2> QED
    BY <1>2, <1>5, <2>1 DEF CommandInv, CmdInv, StepInv
<1>10. EffectInv' /\ EchoInv'
  BY <1>4, <1>5 DEF EffectInv, CommandInv, CmdInv, EchoInv
<1>11. FlagInv'
  BY <1>1, CodesDiffer DEF FlagInv
<1>12. CapInv' /\ DnsInv'
  BY <1>1, <1>5, CapIdleSound, DnsIdleSound DEF CommandInv, CapInv, CapTypeOK
<1> QED
  BY <1>7, <1>8, <1>9, <1>10, <1>11, <1>12 DEF CommandInv, CmdInv

\* The process exits, with 130 when it was cancelled.
LEMMA ExitSound ==
  ASSUME CommandInv, Exit
  PROVE  CommandInv'
<1>1. /\ exit = Running /\ pc = Len(Script) + 1
      /\ exit' = IF cancelled THEN Cancelled ELSE code
      /\ UNCHANGED <<capVars, dnsVars, cmd, pc, code, printed, healthy,
                     credential, pin, terminal>>
  BY DEF Exit
<1>2. /\ Script' = Script /\ Len(Script) \in Nat
      /\ DOMAIN Script = 1..Len(Script) /\ cmd \in Commands
  BY <1>1, ScriptOrdered DEF CommandInv, CmdInv, CmdTypeOK, Script, Ordered
<1>3. at = "idle" /\ dnsAt = "off" /\ stty = "none"
  BY <1>1, <1>2 DEF CommandInv, CmdInv, PlaceInv, At
<1>4. /\ UNCHANGED <<at, task, answer, dnsAt, dnsResult, effect, cancelled,
                     picked, kept, faults, verified, stored, setting, agreed,
                     echo, stty, typed, balked>>
      /\ UNCHANGED <<operation, table, history, missed, changes>>
  BY <1>1 DEF capVars, operation, progress, router, dnsVars, credential, pin,
     terminal
<1>5. CmdTypeOK'
  BY <1>1, <1>2, <1>4 DEF CommandInv, CmdInv, CmdTypeOK
<1>6. PlaceInv'
  BY <1>1, <1>2, <1>3, <1>4 DEF CommandInv, CmdInv, PlaceInv
<1>7. StepInv'
  <2>1. ASSUME NEW i \in DOMAIN Script, Done(Script[i])
        PROVE  Done(Script[i])'
    <3>1. UNCHANGED Script[i]
      BY <1>2
    <3> QED
      BY <1>1, <1>4, <2>1, <3>1 DEF Done, Primary
  <2> QED
    BY <1>1, <1>2, <1>4, <2>1 DEF CommandInv, CmdInv, StepInv
<1>8. EffectInv' /\ EchoInv'
  <2>1. Past(Written)' = Past(Written) /\ Past({"store"})' = Past({"store"})
    BY <1>1, <1>2 DEF Past
  <2> QED
    BY <1>1, <1>4, <2>1 DEF CommandInv, CmdInv, EffectInv, EchoInv
<1>9. FlagInv'
  BY <1>1, <1>4, CodesDiffer DEF FlagInv
<1>10. CapInv' /\ DnsInv'
  BY <1>1, <1>4, CapIdleSound, DnsIdleSound DEF CommandInv, CapInv, CapTypeOK
<1> QED
  BY <1>5, <1>6, <1>7, <1>8, <1>9, <1>10 DEF CommandInv, CmdInv

\* The dns command begins its diagnosis, or takes the result.
LEMMA DnsSound ==
  ASSUME CommandInv, Dns
  PROVE  CommandInv'
<1>1. At("dns") /\ UNCHANGED <<credential, pin, terminal>>
  BY DEF Dns
<1>2. at = "idle" /\ stty = "none" /\ exit = Running
  BY <1>1, NoOperations, IdleAt DEF CommandInv, CmdInv
<1>3. CASE dnsResult = "none" /\ DnsBegin /\ UNCHANGED tool
  <2>1. DnsInv' /\ UNCHANGED capVars
    BY <1>3, DnsBeginSound DEF CommandInv
  <2>2. UNCHANGED <<dnsResult, operation, effect, cancelled, table, history,
                    missed, changes, setting, agreed, echo, stty, typed,
                    balked>>
    BY <1>1, <1>3, <2>1 DEF DnsBegin, capVars, router, pin, terminal
  <2>3. EchoInv'
    BY <2>2 DEF CommandInv, CmdInv, EchoInv
  <2>4. CmdInv'
    BY <1>1, <1>2, <1>3, <2>2, <2>3, StaySound
    DEF CommandInv, CmdInv, CmdTypeOK, StepInv
  <2>5. CapInv'
    BY <2>2, CapIdleSound DEF CommandInv, CapInv, CapTypeOK
  <2> QED
    BY <2>1, <2>4, <2>5 DEF CommandInv
<1>4. CASE /\ UNCHANGED <<capVars, dnsVars>>
           /\ \/ dnsResult = "report" /\ Advance
              \/ dnsResult = "cancelled" /\ Fail(Cancelled)
              \/ dnsResult = "error" /\ Fail(Failed)
  <2>1. /\ dnsAt = "off" /\ UNCHANGED dnsResult
    BY <1>4 DEF CommandInv, DnsInv, PhaseInv, dnsVars
  <2>2. /\ UNCHANGED <<cmd, exit, printed, healthy>>
        /\ \/ code' = code /\ pc' = pc + 1 /\ dnsResult = "report"
           \/ code' \in {Failed, Cancelled} /\ pc' = Len(Script) + 1
    BY <1>4 DEF Advance, Fail
  <2>3. dnsResult = "report" => Done("dns")'
    BY <2>1 DEF Done, Written
  <2>4. UNCHANGED <<verified, stored, setting, agreed, echo, stty, typed,
                    balked>>
    BY <1>1 DEF credential, pin, terminal
  <2>5. CmdTypeOK'
    <3>1. /\ pc \in DOMAIN Script /\ DOMAIN Script = 1..Len(Script)
          /\ Len(Script) \in Nat /\ Script' = Script
      BY <1>1, <2>2, ScriptOrdered
      DEF At, CommandInv, CmdInv, CmdTypeOK, Ordered, Script
    <3>2. pc' \in 0..(Len(Script') + 1)
      BY <2>2, <3>1
    <3> QED
      BY <2>2, <2>4, <3>2 DEF CommandInv, CmdInv, CmdTypeOK
  <2>6. (setting => agreed) /\ (echo \/ balked)
    BY <1>2 DEF CommandInv, CmdInv, StepInv, EchoInv
  <2> QED
    BY <1>1, <1>2, <1>4, <2>1, <2>2, <2>3, <2>4, <2>5, <2>6, StepEnds
<1> QED
  BY <1>3, <1>4 DEF Dns

\* What the prompt does to the terminal before it ends.
LEMMA TerminalStays ==
  ASSUME CommandInv, At("prompt"),
         UNCHANGED <<capVars, dnsVars, tool, credential, pin, balked>>,
         echo' \in BOOLEAN,
         stty' \in {"save", "off", "read", "restore"},
         typed' \in {"none", "line", "blank", "error", "cancelled"},
         EchoInv'
  PROVE  CommandInv'
<1>1. UNCHANGED <<operation, effect, cancelled, table, history, missed,
                  changes, dnsAt, dnsResult, setting, agreed, balked>>
  BY DEF capVars, router, dnsVars, pin
<1>2. dnsAt = "off"
  BY IdleAt DEF CommandInv, CmdInv
<1>3. CmdInv'
  BY <1>1, <1>2, StaySound DEF CommandInv, CmdInv, CmdTypeOK, StepInv
<1>4. CapInv' /\ DnsInv'
  BY <1>1, CapIdleSound, DnsIdleSound DEF CommandInv, CapInv, CapTypeOK
<1> QED
  BY <1>3, <1>4 DEF CommandInv

\* The prompt begins, switches the echo off, waits, and restores it.
LEMMA PromptSound ==
  ASSUME CommandInv,
         \/ Prompt \/ SaveMode \/ DisableEcho \/ Typed \/ PollFlag
         \/ RestoreEcho
  PROVE  CommandInv'
<1>0. /\ stty # "none" => At("prompt")
      /\ stty \in {"none", "save", "off"} => echo \/ balked
      /\ echo \in BOOLEAN /\ balked \in BOOLEAN
      /\ typed \in {"none", "line", "blank", "error", "cancelled"}
  BY DEF CommandInv, CmdInv, CmdTypeOK, PlaceInv, EchoInv
<1> USE DEF Fail, Advance
<1>1. CASE Prompt
  <2>1. At("prompt") /\ stty = "none"
        /\ UNCHANGED <<capVars, dnsVars, credential, pin, echo, typed, balked>>
    BY <1>1 DEF Prompt
  <2>2. CASE Attempt({Failed, BadConfig}) /\ UNCHANGED stty
    BY <1>0, <2>1, <2>2, PromptEnds DEF Attempt
  <2>3. CASE stty' = "save" /\ UNCHANGED tool
    BY <1>0, <2>1, <2>3, TerminalStays DEF EchoInv
  <2> QED
    BY <1>1, <2>2, <2>3 DEF Prompt
<1>2. CASE SaveMode
  <2>1. At("prompt") /\ stty = "save"
        /\ UNCHANGED <<capVars, dnsVars, credential, pin, echo, typed, balked>>
    BY <1>0, <1>2 DEF SaveMode
  <2>2. CASE stty' = "none" /\ Fail(Failed)
    BY <1>0, <2>1, <2>2, PromptEnds
  <2>3. CASE stty' = "off" /\ UNCHANGED tool
    BY <1>0, <2>1, <2>3, TerminalStays DEF EchoInv
  <2> QED
    BY <1>2, <2>2, <2>3 DEF SaveMode
<1>3. CASE DisableEcho
  <2>1. At("prompt") /\ stty = "off"
        /\ UNCHANGED <<capVars, dnsVars, credential, pin, typed>>
    BY <1>0, <1>3 DEF DisableEcho
  <2>2. CASE /\ stty' = "none" /\ Fail(Failed)
             /\ echo' \in {echo, FALSE} /\ balked' = TRUE
    BY <1>0, <2>1, <2>2, PromptEnds
  <2>3. CASE stty' = "read" /\ echo' = FALSE /\ UNCHANGED <<tool, balked>>
    BY <1>0, <2>1, <2>3, TerminalStays DEF EchoInv
  <2> QED
    BY <1>3, <2>2, <2>3 DEF DisableEcho
<1>4. CASE Typed
  BY <1>0, <1>4, TerminalStays DEF Typed, EchoInv
<1>5. CASE PollFlag
  BY <1>0, <1>5, TerminalStays DEF PollFlag, EchoInv
<1>6. CASE RestoreEcho
  <2>1. At("prompt") /\ stty' = "none"
        /\ UNCHANGED <<capVars, dnsVars, credential, pin, typed>>
    BY <1>0, <1>6 DEF RestoreEcho
  <2>2. echo' \in BOOLEAN /\ balked' \in BOOLEAN /\ (echo' \/ balked')
    BY <1>0, <1>6 DEF RestoreEcho
  <2>3. /\ UNCHANGED <<cmd, exit, printed, healthy>>
        /\ \/ code' = code /\ pc' = pc + 1
           \/ code' \in {Failed, BadConfig, Cancelled} /\ pc' = Len(Script) + 1
    <3>1. Prompted
      BY <1>6 DEF RestoreEcho
    <3>2. typed # "none"
      BY <1>6 DEF RestoreEcho, CommandInv, CmdInv, EchoInv
    <3> QED
      BY <1>0, <3>1, <3>2 DEF Prompted
  <2> QED
    BY <2>1, <2>2, <2>3, PromptEnds
<1> QED
  BY <1>1, <1>2, <1>3, <1>4, <1>5, <1>6

\* A signal, the user at another administration, the router's table.
LEMMA EnvironmentSound ==
  ASSUME CommandInv,
         \/ Signal \/ OtherAdmin
         \/ TableChanges /\ UNCHANGED <<dnsVars, cmdVars>>
  PROVE  CommandInv'
<1>0. /\ setting \in BOOLEAN /\ agreed \in BOOLEAN /\ echo \in BOOLEAN
      /\ balked \in BOOLEAN /\ (setting => agreed)
      /\ stty \in {"none", "save", "off", "read", "restore"}
      /\ typed \in {"none", "line", "blank", "error", "cancelled"}
      /\ dnsAt # "off" => At("dns")
      /\ stty # "none" => At("prompt")
      /\ EchoInv
  BY DEF CommandInv, CmdInv, CmdTypeOK, PlaceInv, StepInv
<1>1. CASE Signal
  <2>1. /\ exit = Running /\ cancelled' = TRUE
        /\ UNCHANGED <<operation, router, effect, history, missed, dnsVars,
                       tool, credential, pin, terminal>>
    BY <1>1 DEF Signal, cmdVars
  <2>2. UNCHANGED <<table, changes, dnsAt, dnsResult, setting, agreed>>
    BY <2>1 DEF router, dnsVars, pin
  <2>3. UNCHANGED <<echo, stty, typed, balked>>
    BY <2>1 DEF terminal
  <2>4. EchoInv'
    BY <1>0, <2>3 DEF EchoInv
  <2>5. CmdInv'
    BY <1>0, <2>1, <2>2, <2>3, <2>4, StaySound
  <2>6. CapInv'
    BY <2>1, <2>2, CapIdleSound DEF CommandInv, CapInv, CapTypeOK
  <2>7. DnsInv'
    BY <2>1, DnsIdleSound DEF CommandInv
  <2> QED
    BY <2>5, <2>6, <2>7 DEF CommandInv
<1>2. CASE OtherAdmin
  <2>1. /\ changes < MaxChanges /\ changes' = changes + 1
        /\ setting' = ~setting /\ agreed' = (agreed \/ setting')
        /\ UNCHANGED <<cancelled, operation, table, effect, history, missed,
                       dnsVars, tool, credential, terminal>>
    BY <1>2 DEF OtherAdmin
  <2>2. UNCHANGED <<dnsAt, dnsResult, echo, stty, typed, balked>>
    BY <2>1 DEF dnsVars, terminal
  <2>3. /\ setting' \in BOOLEAN /\ agreed' \in BOOLEAN
        /\ (agreed => agreed') /\ (setting' => agreed')
    BY <1>0, <2>1
  <2>4. EchoInv'
    BY <1>0, <2>2 DEF EchoInv
  <2>5. CmdInv'
    BY <1>0, <2>1, <2>2, <2>3, <2>4, StaySound
  <2>6. changes' \in 0..MaxChanges
    BY <2>1, CapabilitiesAssumption DEF CommandInv, CapInv, CapTypeOK
  <2>7. CapInv'
    BY <2>1, <2>6, CapIdleSound DEF CommandInv, CapInv, CapTypeOK
  <2>8. DnsInv'
    BY <2>1, DnsIdleSound DEF CommandInv
  <2> QED
    BY <2>5, <2>7, <2>8 DEF CommandInv
<1>3. CASE TableChanges /\ UNCHANGED <<dnsVars, cmdVars>>
  <2>1. CapInv' /\ UNCHANGED <<cancelled, operation, effect, missed>>
    BY <1>3, TableChangesSound DEF CommandInv
  <2>2. UNCHANGED <<dnsAt, dnsResult, tool, credential, setting, agreed, echo,
                    stty, typed, balked>>
    BY <1>3 DEF dnsVars, cmdVars, pin, terminal
  <2>3. EchoInv'
    BY <1>0, <2>2 DEF EchoInv
  <2>4. CmdInv'
    BY <1>0, <2>1, <2>2, <2>3, StaySound
  <2>5. DnsInv'
    BY <1>3, <2>1, DnsIdleSound DEF CommandInv
  <2> QED
    BY <2>1, <2>4, <2>5 DEF CommandInv
<1> QED
  BY <1>1, <1>2, <1>3

\* A step of the diagnosis is one of the process.
LEMMA DiagnosisSound ==
  ASSUME CommandInv, DnsStep, UNCHANGED cmdVars
  PROVE  CommandInv'
<1>1. DnsInv' /\ UNCHANGED capVars
  BY DnsStepSound DEF CommandInv, CapInv, CapTypeOK
<1>2. dnsAt # "off"
  BY DEF DnsStep, Collect, ValidateEvidence, DhcpService, ApplyDhcp,
     HostEvidence, SelectResolvers, NextLookup, Receive, Wait, DnsEnd
<1>3. At("dns") /\ dnsResult # "report"
  BY <1>2 DEF CommandInv, CmdInv, PlaceInv, DnsInv, PhaseInv
<1>4. /\ UNCHANGED <<operation, effect, cancelled, table, history, missed,
                     changes>>
      /\ UNCHANGED <<tool, credential, setting, agreed, echo, stty, typed,
                     balked>>
  BY <1>1 DEF capVars, router, cmdVars, pin, terminal
<1>5. EchoInv'
  BY <1>4 DEF CommandInv, CmdInv, EchoInv
<1>6. CmdInv'
  BY <1>3, <1>4, <1>5, StaySound
  DEF CommandInv, CmdInv, CmdTypeOK, PlaceInv, StepInv
<1>7. CapInv'
  BY <1>4, CapIdleSound DEF CommandInv, CapInv, CapTypeOK
<1> QED
  BY <1>1, <1>6, <1>7 DEF CommandInv

\* The invariant holds when the process starts.
LEMMA CommandInvInit == Init => CommandInv
<1> SUFFICES ASSUME Init PROVE CommandInv
  OBVIOUS
<1>1. CapInv /\ DnsInv
  BY CapInvInit, DnsInvInit DEF Init
<1>2. /\ Len(Script) \in Nat /\ DOMAIN Script = 1..Len(Script)
  BY ScriptOrdered DEF Init, Ordered
<1>3. setting \in BOOLEAN
  BY DEF Init
<1>4. CmdTypeOK
  <2>1. pc \in 0..(Len(Script) + 1)
    BY <1>2 DEF Init
  <2>2. setting \in BOOLEAN /\ agreed \in BOOLEAN
    BY <1>3 DEF Init
  <2> QED
    BY <2>1, <2>2 DEF Init, CmdTypeOK
<1>5. /\ PlaceInv /\ FlagInv /\ EchoInv
  BY CodesDiffer DEF Init, PlaceInv, FlagInv, EchoInv, CapInit, DnsInit
<1>6. StepInv
  BY <1>2 DEF Init, StepInv
<1>7. EffectInv
  BY CodesDiffer DEF Init, EffectInv, CapInit
<1> QED
  BY <1>1, <1>4, <1>5, <1>6, <1>7 DEF CommandInv, CmdInv

\* Every step keeps it.
LEMMA CommandInvStep == CommandInv /\ [Next]_vars => CommandInv'
<1> SUFFICES ASSUME CommandInv, [Next]_vars PROVE CommandInv'
  OBVIOUS
<1>1. CASE CapStep /\ UNCHANGED <<dnsVars, cmdVars>>
  BY <1>1, CapSound
<1>2. CASE DnsStep /\ UNCHANGED cmdVars
  BY <1>2, DiagnosisSound
<1>3. CASE ToolStep
  BY <1>3, PlainSteps, PinSound, VerifySound, StoreSound, SwitchSound,
     ConsumeSound, AskSound, DnsSound, PromptSound, StartSound, ExitSound,
     IntervalSound, CheckupSound DEF ToolStep
<1>4. CASE Environment
  BY <1>4, EnvironmentSound, PromptSound DEF Environment
<1>5. CASE UNCHANGED vars
  <2>1. UNCHANGED <<capVars, dnsVars, tool, credential, setting, agreed, echo,
                    stty, typed, balked>>
    BY <1>5 DEF vars, cmdVars, pin, terminal
  <2>2. UNCHANGED <<operation, effect, cancelled, table, history, missed,
                    changes, dnsAt, dnsResult>>
    BY <2>1 DEF capVars, router, dnsVars
  <2>3. EchoInv'
    BY <2>1 DEF CommandInv, CmdInv, EchoInv
  <2>4. CmdInv'
    BY <2>1, <2>2, <2>3, StaySound
    DEF CommandInv, CmdInv, CmdTypeOK, PlaceInv, StepInv
  <2>5. CapInv' /\ DnsInv'
    BY <2>1, <2>2, CapIdleSound, DnsIdleSound DEF CommandInv, CapInv, CapTypeOK
  <2> QED
    BY <2>4, <2>5 DEF CommandInv
<1> QED
  BY <1>1, <1>2, <1>3, <1>4, <1>5 DEF Next, Program

\* The inductive invariant of a run of the process: the one of its operations,
\* the one of the diagnosis, and how both relate to the script.
THEOREM CommandInvariance == Spec => []CommandInv
<1>1. Init => CommandInv
  BY CommandInvInit
<1>2. CommandInv /\ [Next]_vars => CommandInv'
  BY CommandInvStep
<1> QED
  BY <1>1, <1>2, PTL DEF Spec

-----------------------------------------------------------------------------
(* The properties                                                          *)

\* Every variable of the process, its operations and the diagnosis has its
\* type; a writing call is in particular never executed twice.
THEOREM CommandTypeCorrect == Spec => []TypeOK
<1>1. CommandInv => TypeOK
  BY DEF CommandInv, CapInv, DnsInv, CmdInv, CmdTypeOK, TypeOK
<1> QED
  BY <1>1, CommandInvariance, PTL

\* A listing that succeeds invents nothing and leaves nothing out that was
\* there all along, for every table, name and set of radios: listing and
\* resolving hosts, and the clients of all radios.
THEOREM ListingsComplete == Spec => []ListedOrFailed
<1>1. CommandInv => ListedOrFailed
  BY DEF CommandInv, CapInv, ListInv
<1> QED
  BY <1>1, CommandInvariance, PTL

\* Each address in the DNS report is one that this resolver gave for this name
\* and type, each lookup is made once, and none is missing from a report.
THEOREM LookupsAreSound == Spec => []LookupsSound
<1>1. CommandInv => LookupsSound
  BY DnsInvSound DEF CommandInv
<1> QED
  BY <1>1, CommandInvariance, PTL

\* The exit code tells what has happened, for each of the commands (as far as
\* `home list --tr064` learns it).
THEOREM ExitCodesTellTruth == Spec => []ExitTellsTruth
<1>1. ASSUME CommandInv PROVE ExitTellsTruth
  <2>1. /\ Ordered(Script) /\ Len(Script) \in Nat
        /\ DOMAIN Script = 1..Len(Script) /\ cmd \in Commands
    BY <1>1, ScriptOrdered DEF CommandInv, CmdInv, CmdTypeOK, Ordered
  <2>2. exit \notin {Running, Cancelled} /\ pc > 0 => ~cancelled
    BY <1>1 DEF CommandInv, CmdInv, FlagInv
  <2>3. exit \in {NoAuth, BadConfig} => effect = 0 /\ ~stored
    <3> SUFFICES ASSUME exit \in {NoAuth, BadConfig}
                 PROVE  effect = 0 /\ ~stored
      OBVIOUS
    <3>1. exit \notin {Running, Cancelled, Failed, 2}
      BY DEF Running, Cancelled, Failed, NoAuth, BadConfig
    <3>2. CASE exit = code
      BY <1>1, <3>2 DEF CommandInv, CmdInv, EffectInv
    <3>3. CASE pc = 0
      <4>1. ~Past(Written) /\ ~Past({"store"}) /\ at = "idle"
        BY <1>1, <2>1, <3>3 DEF Past, CommandInv, CmdInv, PlaceInv
      <4> QED
        BY <1>1, <4>1 DEF CommandInv, CmdInv, EffectInv
    <3> QED
      BY <1>1, <3>1, <3>2, <3>3 DEF CommandInv, CmdInv, PlaceInv
  <2>4. ASSUME exit = 0
        PROVE  /\ ~cancelled /\ pc = Len(Script) + 1
               /\ \A i \in DOMAIN Script : Done(Script[i])
    <3>1. pc = Len(Script) + 1 /\ code = 0
      BY <1>1, <2>4
      DEF CommandInv, CmdInv, PlaceInv, Running, Cancelled, Failed, BadConfig
    <3>2. \A i \in DOMAIN Script : i < pc
      BY <2>1, <3>1
    <3>3. ~cancelled
      BY <2>1, <2>2, <2>4, <3>1 DEF Running, Cancelled
    <3> QED
      BY <1>1, <3>1, <3>2, <3>3 DEF CommandInv, CmdInv, StepInv
  <2>5. ASSUME exit = 0
        PROVE  printed
    BY <2>1, <2>4, <2>5 DEF Ordered, Done
  <2>6. ASSUME exit = 0,
               cmd \in {"dial", "hangup", "reboot", "wol", "guest_set",
                        "home_switch", "home_temp"}
        PROVE  effect = 1
    <3>1. \E i \in DOMAIN Script : Script[i] \in Written
      BY <2>6 DEF Script, Scripts, DialScript, HangupScript, RebootScript,
         WolScript, GuestSetScript, HomeSwitchScript, HomeTempScript, Written
    <3> QED
      BY <2>4, <2>6, <3>1 DEF Done
  <2>7. ASSUME exit = 0, cmd = "host_pin"
        PROVE  agreed
    <3>1. \E i \in DOMAIN Script : Script[i] = "after"
      BY <2>7 DEF Script, Scripts, HostPinScript
    <3> QED
      BY <2>4, <2>7, <3>1 DEF Done
  <2>8. ASSUME exit = 0, cmd \in {"auth_login", "auth_store"}
        PROVE  stored
    <3>1. \E i \in DOMAIN Script : Script[i] = "store"
      BY <2>8 DEF Script, Scripts, AuthLoginScript, AuthStoreScript
    <3> QED
      BY <2>4, <2>8, <3>1 DEF Done
  <2>9. ASSUME exit = 0, cmd \in {"auth_login", "auth_test", "doctor"}
        PROVE  verified
    <3>1. /\ \E i \in DOMAIN Script : Script[i] = "verify"
          /\ \E i \in DOMAIN Script : Script[i] = "verdict"
      BY <2>9 DEF Script, Scripts, AuthLoginScript, AuthTestScript,
         DoctorScript
    <3> QED
      BY <2>4, <2>9, <3>1 DEF Done
  <2>10. ASSUME exit = 0, cmd \in {"diagnose", "router"}
         PROVE  picked # {}
    <3>1. /\ \E i \in DOMAIN Script : Script[i] = "diagnose"
          /\ \E i \in DOMAIN Script : Script[i] = "verdict"
      BY <2>10 DEF Script, Scripts, DiagnoseScript, RouterScript
    <3> QED
      BY <2>4, <2>10, <3>1 DEF Done
  <2>11. ASSUME exit = 0, cmd = "status"
         PROVE  Primary # {} \/ faults = <<>>
    <3>1. \E i \in DOMAIN Script : Script[i] = "status"
      BY <2>11 DEF Script, Scripts, StatusScript
    <3> QED
      BY <2>4, <2>11, <3>1 DEF Done
  <2>12. ASSUME exit = 0, cmd = "dns"
         PROVE  todo = {}
    <3>1. \E i \in DOMAIN Script : Script[i] = "dns"
      BY <2>12 DEF Script, Scripts, DnsScript
    <3>2. dnsResult = "report"
      BY <2>4, <2>12, <3>1 DEF Done
    <3> QED
      BY <1>1, <3>2 DEF CommandInv, DnsInv, PhaseInv
  <2> QED
    BY <2>2, <2>3, <2>4, <2>5, <2>6, <2>7, <2>8, <2>9, <2>10, <2>11, <2>12
    DEF ExitTellsTruth
<1>2. CommandInv => ExitTellsTruth
  BY <1>1
<1> QED
  BY <1>2, CommandInvariance, PTL

\* The terminal echoes when the prompt is over and when the process has ended,
\* unless a program that switches the echo has failed.
THEOREM EchoIsRestored == Spec => []EchoRestored
<1>1. CommandInv => EchoRestored
  BY DEF CommandInv, CmdInv, PlaceInv, EchoInv, At, EchoRestored
<1> QED
  BY <1>1, CommandInvariance, PTL
=============================================================================
