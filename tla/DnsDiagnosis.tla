--------------------------- MODULE DnsDiagnosis ---------------------------
(***************************************************************************)
(* The `dns` command: crates/symfritz-tr064/src/dns.rs with dns_cli.rs and *)
(* dns_evidence.rs of the command line.  A few TR-064 calls collect what   *)
(* is known, then each resolver is asked over UDP, within one budget.      *)
(* Datagrams are lost, duplicated and late.                                *)
(***************************************************************************)
EXTENDS Capabilities

CONSTANTS Router,        \* the literal IP of the configured router
          Resolvers,     \* addresses that the evidence may name
          Scoped,        \* those that cannot be asked: link-local, multicast
          MaxResolvers,  \* MAX_RESOLVERS
          Budget,        \* DNS_BUDGET
          QueryTime,     \* query_timeout
          Ids, Ports     \* of the requests; both may come up again

ASSUME DnsAssumption ==
  /\ Router \in Resolvers /\ Scoped \subseteq Resolvers
  /\ MaxResolvers \in Nat /\ Budget \in Nat /\ QueryTime \in Nat \ {0}
  /\ Ids # {} /\ Ports # {}

Types == {"A", "AAAA"}

\* Names in one reply: the one asked for, an alias and another one.
Query == "query"
Owners == {Query, "alias", "other"}

VARIABLES
  dnsAt,     \* the place in diagnose_dns
  name,      \* the kind of the name: "odd", "mdns" or "plain"
  search,    \* the system's search domains are names
  system,    \* resolvers of the system, as far as they are known
  dhcp,      \* resolvers of the DHCP server, as far as they are known
  todo,      \* the lookups that are still to be made
  socket,    \* the request that is waited for
  spent,     \* of the budget
  left,      \* of the query's timeout
  asked,     \* requests that were sent, and may be answered at any time
  lookups,   \* the report's lookups, each with the request it took a reply of
  dnsResult  \* "none", "report", "cancelled" or "error"

evidence == <<name, search, system, dhcp>>
probing == <<todo, socket, spent, left, asked, lookups>>
dnsVars == <<dnsAt, evidence, probing, dnsResult>>

NoRequest == [ip |-> Router, type |-> "A", id |-> 0, port |-> 0]

DnsTypeOK ==
  /\ dnsAt \in {"off", "collect", "validate", "service", "info", "host",
                "resolvers", "next", "wait", "end"}
  /\ name \in {"odd", "mdns", "plain"} /\ search \in BOOLEAN
  /\ system \in Seq(Resolvers) /\ Len(system) <= MaxResolvers
  /\ dhcp \in Seq(Resolvers) /\ Len(dhcp) <= MaxResolvers
  /\ todo \subseteq Resolvers \X Types
  /\ spent \in 0..Budget /\ left \in 0..QueryTime
  /\ lookups \in Seq([ip : Resolvers, type : Types,
                      outcome : {"answer", "none", "unsent"},
                      reply : {<<>>} \union (Resolvers \X Types)])
  /\ dnsResult \in {"none", "report", "cancelled", "error"}

DnsInit ==
  /\ dnsAt = "off" /\ name = "plain" /\ search = TRUE
  /\ system = <<>> /\ dhcp = <<>> /\ todo = {} /\ socket = NoRequest
  /\ spent = 0 /\ left = 0 /\ asked = {} /\ lookups = <<>>
  /\ dnsResult = "none"

-----------------------------------------------------------------------------
(* Evidence                                                                *)

DnsBegin ==
  /\ dnsAt = "off"
  /\ dnsAt' = "collect"
  /\ name' \in {"odd", "mdns", "plain"}
  /\ UNCHANGED <<capVars, search, system, dhcp, probing, dnsResult>>

\* Lists of addresses as a resolver configuration may hold them.
Lists == {<<a, b>> : a, b \in Resolvers} \union {<<a>> : a \in Resolvers}
           \union {<<>>}

\* Duplicates are dropped; a list that is invalid, empty or too long is not
\* known at all.
Snapshot(list) ==
  LET unique == IF Len(list) = 2 /\ list[1] = list[2] THEN <<list[1]>> ELSE list
  IN IF Len(unique) <= MaxResolvers THEN unique ELSE <<>>

Collect ==
  /\ dnsAt = "collect"
  /\ dnsAt' = "validate"
  /\ IF cancelled THEN UNCHANGED <<system, search>>
     ELSE \E list \in Lists : system' = Snapshot(list) /\ search' \in BOOLEAN
  /\ UNCHANGED <<capVars, name, dhcp, probing, dnsResult>>

\* One odd search domain, which the system may well have, fails it all.
ValidateEvidence ==
  /\ dnsAt = "validate"
  /\ IF name = "odd" \/ ~search
     THEN dnsAt' = "off" /\ dnsResult' = "error"
     ELSE dnsAt' = "service" /\ UNCHANGED dnsResult
  /\ UNCHANGED <<capVars, evidence, probing>>

\* service_by_name, then GetInfo, with a look at the flag in between.
DhcpService ==
  /\ dnsAt = "service"
  /\ \E reply \in Replies :
       dnsAt' = IF reply = "ok" /\ ~cancelled THEN "info" ELSE "host"
  /\ UNCHANGED <<capVars, evidence, probing, dnsResult>>

\* DHCP resolvers are taken as they are listed, twice as well.
ApplyDhcp ==
  /\ dnsAt = "info"
  /\ dnsAt' = "host"
  /\ \E reply \in Replies, list \in Lists :
       dhcp' = IF reply = "ok" /\ Len(list) <= MaxResolvers THEN list ELSE dhcp
  /\ UNCHANGED <<capVars, name, search, system, probing, dnsResult>>

\* host_by_ip of an expected address; no reply to it decides anything.
HostEvidence ==
  /\ dnsAt = "host"
  /\ dnsAt' = "resolvers"
  /\ UNCHANGED <<capVars, evidence, probing, dnsResult>>

\* A resolver that several sources name is asked once, at its first place.
Sources == <<Router>> \o dhcp \o system

SelectResolvers ==
  /\ dnsAt = "resolvers"
  /\ dnsAt' = "next"
  /\ todo' = ToSet(Sources) \X Types
  /\ UNCHANGED <<capVars, evidence, socket, spent, left, asked, lookups,
                 dnsResult>>

-----------------------------------------------------------------------------
(* Lookups                                                                 *)

Earlier(ip, other) ==
  \E i \in DOMAIN Sources :
    Sources[i] = ip /\ \A j \in 1..i : Sources[j] # other

\* The lookups are made resolver by resolver, A before AAAA.
IsNext(lookup) ==
  \A other \in todo \ {lookup} :
    \/ Earlier(lookup[1], other[1])
    \/ lookup[1] = other[1] /\ lookup[2] = "A"

Report(lookup, outcome, reply) ==
  /\ lookups' = Append(lookups, [ip |-> lookup[1], type |-> lookup[2],
                                 outcome |-> outcome, reply |-> reply])
  /\ todo' = todo \ {lookup}

\* .local is never sent to a resolver, nor is anything after the budget.
Skip(lookup) ==
  /\ name = "mdns" \/ spent = Budget \/ lookup[1] \in Scoped
  /\ Report(lookup, "unsent", <<>>)
  /\ UNCHANGED <<dnsAt, socket, left, asked>>

SendUnlimited(lookup) ==
  /\ name # "mdns" /\ lookup[1] \notin Scoped
  /\ \E id \in Ids, port \in Ports :
       socket' = [ip |-> lookup[1], type |-> lookup[2],
                  id |-> id, port |-> port]
  /\ asked' = asked \union {socket'}
  /\ left' = QueryTime
  /\ dnsAt' = "wait"
  /\ UNCHANGED <<todo, lookups>>

\* A socket of its own for each request, connected to the resolver.
Send(lookup) ==
  /\ name # "mdns" /\ spent < Budget /\ lookup[1] \notin Scoped
  /\ \E id \in Ids, port \in Ports :
       socket' = [ip |-> lookup[1], type |-> lookup[2],
                  id |-> id, port |-> port]
  /\ asked' = asked \union {socket'}
  /\ left' = Min({QueryTime, Budget - spent})
  /\ dnsAt' = "wait"
  /\ UNCHANGED <<todo, lookups>>

NextLookup ==
  /\ dnsAt = "next"
  /\ IF todo = {} \/ cancelled
     THEN dnsAt' = "end" /\ UNCHANGED <<todo, lookups, socket, left, asked>>
     ELSE \E lookup \in todo :
            IsNext(lookup) /\ (Skip(lookup) \/ Send(lookup))
  /\ UNCHANGED <<capVars, evidence, spent, dnsResult>>

\* The name that the chain of aliases leads to, if it does within the 16
\* names that are looked at: the one asked for, and 8 + 4 + 2 + 1 others.
Owner(aliases, owners) ==
  LET hop == [owner \in Owners \union {"none"} |->
                IF owner \in owners \/ owner \notin DOMAIN aliases
                THEN owner ELSE aliases[owner]]
      hops2 == [owner \in DOMAIN hop |-> hop[hop[owner]]]
      hops4 == [owner \in DOMAIN hop |-> hops2[hops2[owner]]]
      hops8 == [owner \in DOMAIN hop |-> hops4[hops4[owner]]]
      last == hops8[hops4[hops2[hop[Query]]]]
  IN IF last \in owners THEN last ELSE "none"

\* Aliases of the names in a packet, and the names it has addresses for.
Aliases == [{Query, "alias"} -> Owners \union {"none"}]

Asked == <<socket.ip, socket.type>>

\* The packet is an error or nothing that can be read, or it has records.
Packet(reply, matches) ==
  \/ Report(Asked, "none", <<>>)
  \/ /\ matches
     /\ \E aliases \in Aliases, owners \in SUBSET Owners :
          Owner(aliases, owners) # "none"
     /\ Report(Asked, "answer", <<reply.ip, reply.type>>)

ParsePacketLoose(reply) == Packet(reply, reply.id = socket.id)

\* A datagram that is not the reply to this request spends the request.
ParsePacket(reply) ==
  Packet(reply, reply.id = socket.id /\ reply.type = socket.type)

\* The first datagram to the connected socket is the answer: to this request
\* or an earlier one from the same port, a copy or not.
Receive ==
  /\ dnsAt = "wait"
  /\ \E reply \in asked :
       /\ reply.ip = socket.ip /\ reply.port = socket.port
       /\ ParsePacket(reply)
  /\ dnsAt' = "next"
  /\ UNCHANGED <<capVars, evidence, socket, spent, left, asked, dnsResult>>

\* Time passes in a query; at its end, or when the socket fails, so does it.
Wait ==
  /\ dnsAt = "wait"
  /\ \/ left > 0 /\ spent' = spent + 1 /\ left' = left - 1
        /\ UNCHANGED <<dnsAt, todo, lookups>>
     \/ /\ dnsAt' = "next" /\ Report(Asked, "none", <<>>)
        /\ UNCHANGED <<spent, left>>
  /\ UNCHANGED <<capVars, evidence, socket, asked, dnsResult>>

\* A report that was cancelled anywhere is an error of the command.
DnsEnd ==
  /\ dnsAt = "end"
  /\ dnsAt' = "off"
  /\ dnsResult' = IF cancelled THEN "cancelled" ELSE "report"
  /\ UNCHANGED <<capVars, evidence, probing>>

DnsStep ==
  \/ Collect \/ ValidateEvidence \/ DhcpService \/ ApplyDhcp \/ HostEvidence
  \/ SelectResolvers \/ NextLookup \/ Receive \/ Wait \/ DnsEnd

-----------------------------------------------------------------------------
(* Properties                                                              *)

\* The names that a chain of aliases leads to from the one asked for.
Reached(aliases) ==
  CHOOSE names \in SUBSET (Owners \union {"none"}) :
    LET closed(set) == Query \in set /\ \A n \in set \intersect DOMAIN aliases :
                                         aliases[n] \in set
    IN closed(names) /\ \A fewer \in SUBSET names :
                           closed(fewer) => fewer = names

\* An alias chain of a packet is followed to the records it leads to.
ChainsFollowed ==
  \A aliases \in Aliases, owners \in SUBSET Owners :
    LET found == Reached(aliases) \intersect owners
        owner == Owner(aliases, owners)
    IN IF found = {} THEN owner = "none" ELSE owner \in found

\* An address in the report is one that this resolver gave for this name and
\* this type, however late, duplicated or looped the datagrams are; each
\* resolver is asked each type once, nothing is sent for .local, and a report
\* that was not cancelled has every lookup.
LookupsSound ==
  /\ \A i \in DOMAIN lookups :
       lookups[i].outcome = "answer" =>
         lookups[i].reply = <<lookups[i].ip, lookups[i].type>>
  /\ ChainsFollowed
  /\ \A i, j \in DOMAIN lookups :
       <<lookups[i].ip, lookups[i].type>> = <<lookups[j].ip, lookups[j].type>>
         => i = j
  /\ name = "mdns" => asked = {}
  /\ dnsResult = "report" =>
       {<<lookups[i].ip, lookups[i].type>> : i \in DOMAIN lookups}
         = ({Router} \union ToSet(dhcp) \union ToSet(system)) \X Types
=============================================================================
