---------------------------- MODULE ConnectionProofs ----------------------------
(***************************************************************************)
(* Proofs about what is said of an agent's tool servers, for any servers, candidates,    *)
(* disks and edits: the inventory of connections and its readers, and the survey of the    *)
(* host's files with the route coverage made of it.                                      *)
(***************************************************************************)
EXTENDS ConnectionInventory, FiniteSetTheorems, SequenceTheorems, WellFoundedInduction, TLAPS

-----------------------------------------------------------------------------
(* The connections of agents: the entries of the inventory and their summaries. *)

(* Where an entry comes from: the inspection of a candidate on some server, or a coherent      *)
(* file of the connectors directory.                                                         *)
EntryStands ==
    entry # NoValue =>
       \/ /\ candidate \in Candidates
          /\ \E server \in Servers : entry = inventoryEntry(candidate, adapter, server)
       \/ candidate = NoValue /\ normalizes(entry)

(* The summary is that of the entry, and what was registered and opened is its descriptor's. *)
LaterStands ==
    /\ summary # NoValue => summary = summarizeConnection(entry)
    /\ accepted # "none" => accepted = IF validateArtifact(summarizeConnection(entry)) THEN "yes" ELSE "no"
    /\ registered # "none" =>
          /\ candidate # NoValue /\ entry.descriptor # NoValue
          /\ registered = IF Registrable(adapter, entry.descriptor) THEN "yes" ELSE "no"
    /\ opened # NoValue => registered = "yes" /\ Resolvable(opened, entry.descriptor)
    /\ entry = NoValue => /\ candidate = NoValue
                          /\ summary = NoValue /\ accepted = "none" /\ registered = "none" /\ opened = NoValue

InventoryKept == EntryStands /\ LaterStands

EntryFields == {"kind", "routeStatus", "status", "account", "schema", "descriptor"}

LEMMA EntriesAreNoNothing ==
    ASSUME NEW c, NEW a, NEW server
    PROVE  inventoryEntry(c, a, server) # NoValue
<1> DEFINE e == inventoryEntry(c, a, server)
<1>1. \A status, account, schema : DOMAIN EntryOf(c, status, account, schema) = EntryFields
    BY DEF EntryOf, EntryFields
<1>2. DOMAIN inspectCallable(c, a, server) = EntryFields
    <2> DEFINE d == Descriptor(c, a, server)
    <2>1. DOMAIN [EntryOf(c, "usable", "verified", "verified") EXCEPT !.descriptor = d] = EntryFields
        <3> HIDE DEF d
        <3> QED BY DEF EntryOf, EntryFields
    <2> QED BY <1>1, <2>1, Zenon DEF inspectCallable
<1>3. DOMAIN e = EntryFields
    BY <1>1, <1>2, Zenon DEF inventoryEntry
<1>4. DOMAIN NoValue = {"none"} /\ EntryFields # {"none"}
    BY DEF NoValue, EntryFields
<1> QED
    BY <1>3, <1>4

(* An entry with a descriptor was inspected on a server that was up, whose tools are pinned,   *)
(* and whose account answered.                                                              *)
UsableOn(e, c, a, server) ==
    /\ e.kind = c.kind /\ e.routeStatus = c.routeStatus /\ e.status = "usable"
    /\ e.account = "verified" /\ e.schema = "verified" /\ e.descriptor = Descriptor(c, a, server)
    /\ c.routeStatus \notin {"host-private", "unsupported"}
    /\ server.up /\ a.pins # {} /\ a.pins = digestNormalizedMcpToolSchemas(server)
    /\ Endpoints(a) \subseteq server.tools /\ server.name # ""
    /\ verifyConnectionAccount(server, a, c.expected) \notin {"probe absent", "failed", "mismatch"}

LEMMA InspectedOrNot ==
    ASSUME NEW c, NEW a, NEW server, NEW e, e = inventoryEntry(c, a, server)
    PROVE  UsableOn(e, c, a, server) \/ (e.status # "usable" /\ e.descriptor = NoValue)
<1>1. ASSUME NEW status, NEW account, NEW schema, e = EntryOf(c, status, account, schema)
      PROVE  e.status = status /\ e.descriptor = NoValue
    BY <1>1 DEF EntryOf
<1>2. CASE c.routeStatus = "host-private"
    <2>1. e = EntryOf(c, "shadow-only", "unverified", "unverified")
        BY <1>2 DEF inventoryEntry
    <2> QED BY <1>1, <2>1
<1>3. CASE c.routeStatus # "host-private" /\ (c.routeStatus = "unsupported" \/ ~a.present)
    <2>1. e = EntryOf(c, "unsupported", "unsupported", "unsupported")
        BY <1>3 DEF inventoryEntry
    <2> QED BY <1>1, <2>1
<1>4. CASE c.routeStatus # "host-private" /\ ~(c.routeStatus = "unsupported" \/ ~a.present)
    <2> DEFINE observed == digestNormalizedMcpToolSchemas(server)
               answer == verifyConnectionAccount(server, a, c.expected)
    <2>1. e = inspectCallable(c, a, server)
        BY <1>4 DEF inventoryEntry
    <2>2. CASE ~server.up \/ a.pins = {}
        <3>1. e = EntryOf(c, "discovered-unverified", "unverified", "unverified")
            BY <2>1, <2>2 DEF inspectCallable
        <3> QED BY <1>1, <3>1
    <2>3. CASE ~(~server.up \/ a.pins = {}) /\ (a.pins # observed \/ ~(Endpoints(a) \subseteq server.tools))
        <3>1. e = EntryOf(c, "schema-drifted", "unverified", "drifted")
            BY <2>1, <2>3 DEF inspectCallable
        <3> QED BY <1>1, <3>1
    <2>4. CASE /\ ~(~server.up \/ a.pins = {}) /\ ~(a.pins # observed \/ ~(Endpoints(a) \subseteq server.tools))
               /\ (server.name = "" \/ answer \in {"probe absent", "failed"})
        <3>1. e = EntryOf(c, "discovered-unverified", "unverified", "verified")
            BY <2>1, <2>4 DEF inspectCallable
        <3> QED BY <1>1, <3>1
    <2>5. CASE /\ ~(~server.up \/ a.pins = {}) /\ ~(a.pins # observed \/ ~(Endpoints(a) \subseteq server.tools))
               /\ ~(server.name = "" \/ answer \in {"probe absent", "failed"}) /\ answer = "mismatch"
        <3>1. e = EntryOf(c, "account-mismatched", "mismatched", "verified")
            BY <2>1, <2>5 DEF inspectCallable
        <3> QED BY <1>1, <3>1
    <2>6. CASE /\ ~(~server.up \/ a.pins = {}) /\ ~(a.pins # observed \/ ~(Endpoints(a) \subseteq server.tools))
               /\ ~(server.name = "" \/ answer \in {"probe absent", "failed"}) /\ answer # "mismatch"
        <3>1. e = [EntryOf(c, "usable", "verified", "verified") EXCEPT !.descriptor = Descriptor(c, a, server)]
            BY <2>1, <2>6 DEF inspectCallable
        <3>2. /\ e.kind = c.kind /\ e.routeStatus = c.routeStatus /\ e.status = "usable"
              /\ e.account = "verified" /\ e.schema = "verified" /\ e.descriptor = Descriptor(c, a, server)
            <4> DEFINE d == Descriptor(c, a, server)
            <4> HIDE DEF d
            <4>1. e = [EntryOf(c, "usable", "verified", "verified") EXCEPT !.descriptor = d]
                BY <3>1 DEF d
            <4>2. /\ e.kind = c.kind /\ e.routeStatus = c.routeStatus /\ e.status = "usable"
                  /\ e.account = "verified" /\ e.schema = "verified" /\ e.descriptor = d
                BY <4>1 DEF EntryOf
            <4> QED BY <4>2 DEF d
        <3> QED BY <1>4, <2>6, <3>2 DEF UsableOn
    <2> QED BY <2>2, <2>3, <2>4, <2>5, <2>6
<1> QED
    BY <1>2, <1>3, <1>4

LEMMA DescriptorFields ==
    ASSUME NEW c, NEW a, NEW server
    PROVE  LET d == Descriptor(c, a, server) IN
           /\ d # NoValue /\ d.endpoints = Endpoints(a) /\ d.name = server.name
           /\ d.account = server.answer /\ d.schemas = digestNormalizedMcpToolSchemas(server)
<1>1. "kind" \in DOMAIN Descriptor(c, a, server) /\ "kind" \notin DOMAIN NoValue
    BY DEF Descriptor, NoValue
<1> QED
    BY <1>1 DEF Descriptor

(* A server that a registered route resolves to is inspected to the adopted descriptor. *)
LEMMA ResolvedIsAdopted ==
    ASSUME NEW c, NEW a, NEW server, NEW e, UsableOn(e, c, a, server), a = adapter,
           NEW found, Resolvable(found, e.descriptor)
    PROVE  inspectCallable(c, a, found).descriptor = e.descriptor
<1> DEFINE d == e.descriptor
<1>1. /\ d = Descriptor(c, a, server) /\ a.pins # {} /\ a.pins = digestNormalizedMcpToolSchemas(server)
      /\ server.name # ""
      /\ verifyConnectionAccount(server, a, c.expected) \notin {"probe absent", "failed", "mismatch"}
    BY DEF UsableOn
<1>2. /\ d.endpoints = Endpoints(a) /\ d.name = server.name /\ d.account = server.answer
      /\ d.schemas = digestNormalizedMcpToolSchemas(server)
    <2>1. \A x : x = Descriptor(c, a, server) =>
                 /\ x.endpoints = Endpoints(a) /\ x.name = server.name /\ x.account = server.answer
                 /\ x.schemas = digestNormalizedMcpToolSchemas(server)
        BY DEF Descriptor
    <2> QED BY <1>1, <2>1
<1>3. c.expected \in {"any", server.answer} /\ server.answer \notin {"probe absent", "failed", "mismatch", "error"}
    BY <1>1 DEF verifyConnectionAccount
<1>4. /\ found.up /\ found.name = d.name /\ digestNormalizedMcpToolSchemas(found) = d.schemas
      /\ d.endpoints \subseteq found.tools /\ verifyConnectionAccount(found, a, d.account) = d.account
    BY DEF Resolvable, SameSchemas
<1>5. /\ a.probe = "reviewed" /\ "whoami" \in found.tools /\ found.answer # "error" /\ found.answer = server.answer
    <2>1. verifyConnectionAccount(found, a, d.account) \notin {"probe absent", "failed", "mismatch"}
        BY <1>2, <1>3, <1>4
    <2> QED BY <1>2, <1>4, <2>1 DEF verifyConnectionAccount
<1>6. verifyConnectionAccount(found, a, c.expected) = server.answer
    BY <1>3, <1>5 DEF verifyConnectionAccount
<1>7. Descriptor(c, a, found) = d
    BY <1>1, <1>2, <1>4, <1>5 DEF Descriptor
<1> HIDE DEF d
<1>8. inspectCallable(c, a, found) =
         [EntryOf(c, "usable", "verified", "verified") EXCEPT !.descriptor = Descriptor(c, a, found)]
    BY <1>1, <1>2, <1>3, <1>4, <1>6 DEF inspectCallable
<1>9. inspectCallable(c, a, found) = [EntryOf(c, "usable", "verified", "verified") EXCEPT !.descriptor = d]
    BY <1>7, <1>8
<1> QED
    BY <1>9 DEF EntryOf, d

-----------------------------------------------------------------------------
LEMMA InventoryStarts == InventoryInit => InventoryKept
BY DEF InventoryInit, InventoryKept, EntryStands, LaterStands

LEMMA InventoryStep ==
    ASSUME InventoryKept, [InventoryNext]_inventoryVars
    PROVE  InventoryKept'
<1>1. CASE InspectConnection
    <2>1. PICK c \in Candidates, a \in Adapters, server \in Servers :
             candidate' = c /\ adapter' = a /\ entry' = inventoryEntry(c, a, server)
        BY <1>1 DEF InspectConnection
    <2>2. entry' # NoValue
        BY <2>1, EntriesAreNoNothing
    <2>3. EntryStands'
        BY <2>1 DEF EntryStands
    <2>4. /\ summary' = NoValue /\ accepted' = "none" /\ registered' = "none" /\ opened' = NoValue
        BY <1>1 DEF InspectConnection, InventoryKept, LaterStands
    <2> QED BY <2>2, <2>3, <2>4 DEF InventoryKept, LaterStands
<1>2. CASE LoadConnection
    <2>1. entry' # NoValue /\ normalizes(entry') /\ candidate' = candidate /\ entry = NoValue
        BY <1>2, InventoryAssumption DEF LoadConnection
    <2>2. /\ candidate' = NoValue
          /\ summary' = NoValue /\ accepted' = "none" /\ registered' = "none" /\ opened' = NoValue
        BY <1>2, <2>1 DEF LoadConnection, InventoryKept, LaterStands
    <2>3. EntryStands'
        BY <2>1, <2>2 DEF EntryStands
    <2> QED BY <2>1, <2>2, <2>3 DEF InventoryKept, LaterStands
<1>3. CASE SummarizeConnection
    <2>1. /\ UNCHANGED <<candidate, adapter, entry, registered, opened>> /\ entry # NoValue
          /\ summary' = summarizeConnection(entry)
          /\ accepted' = IF validateArtifact(summarizeConnection(entry)) THEN "yes" ELSE "no"
        BY <1>3 DEF SummarizeConnection
    <2>2. EntryStands'
        BY <2>1 DEF InventoryKept, EntryStands
    <2>3. LaterStands'
        <3>1. Resolvable(opened, entry.descriptor)' = Resolvable(opened, entry.descriptor)
            BY <2>1, Zenon DEF Resolvable
        <3> QED BY <2>1, <3>1 DEF InventoryKept, LaterStands
    <2> QED BY <2>2, <2>3 DEF InventoryKept
<1>4. CASE RegisterRoute
    <2>1. /\ UNCHANGED <<candidate, adapter, entry, summary, accepted, opened>>
          /\ candidate # NoValue /\ entry.descriptor # NoValue /\ registered = "none"
          /\ registered' = IF Registrable(adapter, entry.descriptor) THEN "yes" ELSE "no"
        BY <1>4 DEF RegisterRoute
    <2>2. EntryStands'
        BY <2>1 DEF InventoryKept, EntryStands
    <2>3. LaterStands'
        BY <2>1 DEF InventoryKept, LaterStands
    <2> QED BY <2>2, <2>3 DEF InventoryKept
<1>5. CASE ResolveRoute
    <2>1. /\ UNCHANGED <<candidate, adapter, entry, summary, accepted, registered>>
          /\ registered = "yes" /\ Resolvable(opened', entry.descriptor)
        BY <1>5 DEF ResolveRoute
    <2>2. EntryStands'
        BY <2>1 DEF InventoryKept, EntryStands
    <2>3. LaterStands'
        <3>1. Resolvable(opened, entry.descriptor)' = Resolvable(opened', entry.descriptor)
            BY <2>1, Zenon DEF Resolvable
        <3> QED BY <2>1, <3>1 DEF InventoryKept, LaterStands
    <2> QED BY <2>2, <2>3 DEF InventoryKept
<1>6. CASE UNCHANGED inventoryVars
    <2>1. UNCHANGED <<candidate, adapter, entry, summary, accepted, registered, opened>>
        BY <1>6 DEF inventoryVars
    <2>2. EntryStands'
        BY <2>1 DEF InventoryKept, EntryStands
    <2>3. LaterStands'
        <3>1. Resolvable(opened, entry.descriptor)' = Resolvable(opened, entry.descriptor)
            BY <2>1, Zenon DEF Resolvable
        <3> QED BY <2>1, <3>1 DEF InventoryKept, LaterStands
    <2> QED BY <2>2, <2>3 DEF InventoryKept
<1> QED
    BY <1>1, <1>2, <1>3, <1>4, <1>5, <1>6 DEF InventoryNext

(* What the summary calls an entry, and what its validation expects. *)
LEMMA ClassOfUsable ==
    ASSUME NEW e, e.descriptor # NoValue, e.status = "usable", e.routeStatus # "host-private"
    PROVE  /\ connectionClassification(e) = "outcome-capable" => e.descriptor.coverage.outcome = "supported"
           /\ validateArtifact(summarizeConnection(e)) \/ e.kind = "host-private"
<1> DEFINE outcome == e.descriptor.coverage.outcome
           line == summarizeConnection(e)
<1>1. connectionClassification(e) = IF outcome = "supported" THEN "outcome-capable" ELSE "shadow-only"
    BY DEF connectionClassification
<1>2. line.classification = connectionClassification(e) /\ line.status = "usable" /\ line.kind = e.kind
    BY DEF summarizeConnection
<1>3. line.outcome = outcome
    BY DEF summarizeConnection, Covered
<1> HIDE DEF line, outcome
<1>4. expectedConnectionClass(line) =
          IF line.kind # "host-private" /\ outcome = "supported" THEN "outcome-capable" ELSE "shadow-only"
    BY <1>2, <1>3 DEF expectedConnectionClass
<1>5. validateArtifact(line) \/ e.kind = "host-private"
    BY <1>1, <1>2, <1>4 DEF validateArtifact
<1> QED
    BY <1>1, <1>5 DEF line, outcome

LEMMA ClassOfOthers ==
    ASSUME NEW e, e.status # "usable"
    PROVE  /\ connectionClassification(e) # "outcome-capable"
           /\ validateArtifact(summarizeConnection(e))
<1> DEFINE line == summarizeConnection(e)
<1>1. connectionClassification(e) = IF e.status = "unsupported" THEN "unsupported" ELSE "shadow-only"
    BY DEF connectionClassification
<1>2. line.classification = connectionClassification(e) /\ line.status = e.status
    BY DEF summarizeConnection
<1> HIDE DEF line
<1>3. expectedConnectionClass(line) = IF e.status = "unsupported" THEN "unsupported" ELSE "shadow-only"
    BY <1>2 DEF expectedConnectionClass
<1> QED
    BY <1>1, <1>2, <1>3 DEF validateArtifact, line

(* A usable entry has a descriptor of a callable, verified route. *)
LEMMA EntryIsUsable ==
    ASSUME InventoryKept, entry # NoValue
    PROVE  \/ entry.status # "usable" /\ entry.descriptor = NoValue
           \/ /\ entry.status = "usable" /\ entry.descriptor # NoValue
              /\ entry.routeStatus = "callable" /\ entry.account = "verified" /\ entry.schema = "verified"
<1>1. CASE candidate = NoValue /\ normalizes(entry)
    BY <1>1 DEF normalizes
<1>2. ASSUME candidate \in Candidates, NEW server \in Servers, entry = inventoryEntry(candidate, adapter, server)
      PROVE  \/ entry.status # "usable" /\ entry.descriptor = NoValue
             \/ /\ entry.status = "usable" /\ entry.descriptor # NoValue
                /\ entry.routeStatus = "callable" /\ entry.account = "verified" /\ entry.schema = "verified"
    <2>1. UsableOn(entry, candidate, adapter, server) \/ (entry.status # "usable" /\ entry.descriptor = NoValue)
        BY <1>2, InspectedOrNot
    <2>2. Descriptor(candidate, adapter, server) # NoValue
        BY DescriptorFields
    <2> QED BY <1>2, <2>1, <2>2, InventoryAssumption DEF UsableOn, RouteStatus
<1> QED
    BY <1>1, <1>2 DEF InventoryKept, EntryStands

LEMMA KeptAgrees ==
    ASSUME InventoryKept
    PROVE  ConnectionsAgree
<1>1. ASSUME accepted = "no"
      PROVE  entry.kind = "host-private" /\ entry.status = "usable"
    <2>1. entry # NoValue /\ ~validateArtifact(summarizeConnection(entry))
        BY <1>1 DEF InventoryKept, LaterStands
    <2>2. entry.status = "usable" /\ entry.descriptor # NoValue /\ entry.routeStatus # "host-private"
        BY <2>1, EntryIsUsable, ClassOfOthers
    <2> QED BY <2>1, <2>2, ClassOfUsable
<1>2. ASSUME summary # NoValue, summary.classification = "outcome-capable"
      PROVE  entry.routeStatus = "callable" /\ entry.account = "verified" /\ entry.schema = "verified"
    <2>1. entry # NoValue /\ summary = summarizeConnection(entry)
        BY <1>2 DEF InventoryKept, LaterStands
    <2>2. connectionClassification(entry) = "outcome-capable"
        BY <1>2, <2>1 DEF summarizeConnection
    <2> QED BY <2>1, <2>2, EntryIsUsable, ClassOfOthers
<1>3. ASSUME registered # "none"
      PROVE  \E server \in Servers : UsableOn(entry, candidate, adapter, server)
    <2>1. entry # NoValue /\ candidate # NoValue /\ entry.descriptor # NoValue
        BY <1>3 DEF InventoryKept, LaterStands
    <2>2. PICK server \in Servers : entry = inventoryEntry(candidate, adapter, server)
        BY <2>1 DEF InventoryKept, EntryStands
    <2> QED BY <2>1, <2>2, InspectedOrNot
<1>4. ASSUME registered = "no"
      PROVE  adapter.source \cap adapter.write # {}
    <2>1. PICK server \in Servers : UsableOn(entry, candidate, adapter, server)
        BY <1>3, <1>4
    <2>2. ~Registrable(adapter, entry.descriptor)
        BY <1>4 DEF InventoryKept, LaterStands
    <2>3. /\ entry.descriptor = Descriptor(candidate, adapter, server)
          /\ adapter.pins = digestNormalizedMcpToolSchemas(server)
        BY <2>1 DEF UsableOn
    <2>4. \A x : x = Descriptor(candidate, adapter, server) =>
                 x.endpoints = Endpoints(adapter) /\ x.schemas = digestNormalizedMcpToolSchemas(server)
        BY DEF Descriptor
    <2> QED BY <2>2, <2>3, <2>4 DEF Registrable
<1>5. ASSUME opened # NoValue
      PROVE  inspectCallable(candidate, adapter, opened).descriptor = entry.descriptor
    <2>1. registered # "none" /\ Resolvable(opened, entry.descriptor)
        BY <1>5 DEF InventoryKept, LaterStands
    <2> QED BY <1>3, <2>1, ResolvedIsAdopted
<1> QED
    BY <1>1, <1>2, <1>4, <1>5 DEF ConnectionsAgree

(* What the inventory says of a connection is what its inspection found, and a route that is     *)
(* resolved leads to a server that would be inspected to the adopted descriptor                 *)
(* (inspectCallable, summarizeConnection, OpaqueRouteRegistry).                                *)
THEOREM ConnectionsAgreeTheorem == InventorySpec => []ConnectionsAgree
BY InventoryStarts, InventoryStep, KeptAgrees, PTL DEF InventorySpec

-----------------------------------------------------------------------------
(* The survey: the texts that are read, the reports and the rows made of them. *)

(* A set of numbers has a least one. *)
LEMMA LeastNumber ==
    ASSUME NEW N \in SUBSET Nat, N # {}
    PROVE  \E n \in N : \A m \in N : n <= m
<1>1. PICK n \in N : \A m \in N : ~(<<m, n>> \in OpToRel(<, Nat))
    <2>1. IsWellFoundedOn(OpToRel(<, Nat), Nat)
        BY NatLessThanWellFounded
    <2> QED BY <2>1, WFMin, ZenonT(60)
<1>2. \A m \in N : ~(m < n)
    BY <1>1 DEF OpToRel
<1> QED
    BY <1>2

(* A recursion over 1..n that steps within a set has a solution. *)
Run(f, S, first, n, step) ==
    f \in [0..n -> S] /\ f[0] = first /\ \A k \in 1..n : f[k] = step[k][f[k - 1]]

LEMMA StepsThrough ==
    ASSUME NEW S, NEW first \in S, NEW n \in Nat, NEW step, \A k \in 1..n : step[k] \in [S -> S]
    PROVE  \E f : Run(f, S, first, n, step)
<1> DEFINE Has(m) == \E f : Run(f, S, first, m, step)
           Z == {m \in 0..n : ~Has(m)}
<1>1. SUFFICES ASSUME Z # {} PROVE FALSE
    <2>1. n \in 0..n
        BY SMT
    <2>2. Z = {} => Has(n)
        BY <2>1
    <2> QED BY <2>2, Zenon
<1>2. PICK m \in Z : \A j \in Z : m <= j
    <2>1. Z \in SUBSET Nat
        BY SMT
    <2> HIDE DEF Z
    <2> QED BY <1>1, <2>1, LeastNumber
<1>3. m # 0
    <2> DEFINE f0 == [k \in 0..0 |-> first]
    <2>1. f0 \in [0..0 -> S]
        OBVIOUS
    <2>2. f0[0] = first /\ \A k \in 1..0 : FALSE
        BY SMT
    <2> HIDE DEF f0
    <2>3. Run(f0, S, first, 0, step)
        BY <2>1, <2>2 DEF Run
    <2> QED BY <2>3
<1>4. m - 1 \in 0..n /\ m \in 1..n
    BY <1>3, SMT
<1>5. Has(m - 1)
    BY <1>2, <1>4, SMT
<1>6. PICK f : Run(f, S, first, m - 1, step)
    BY <1>5
<1>6a. f \in [0..m - 1 -> S] /\ f[0] = first /\ \A k \in 1..m - 1 : f[k] = step[k][f[k - 1]]
    BY <1>6 DEF Run
<1> DEFINE g == [k \in 0..m |-> IF k = m THEN step[m][f[m - 1]] ELSE f[k]]
<1>7. f[m - 1] \in S
    BY <1>4, <1>6a, SMT
<1>8. step[m][f[m - 1]] \in S
    BY <1>4, <1>7
<1>9. g \in [0..m -> S]
    BY <1>4, <1>6a, <1>8, SMT
<1>10. g[0] = first /\ g[m] = step[m][f[m - 1]] /\ \A k \in 0..m - 1 : g[k] = f[k]
    BY <1>4, <1>6a, SMT
<1>11. ASSUME NEW k \in 1..m PROVE g[k] = step[k][g[k - 1]]
    <2>1. k - 1 \in 0..m - 1 /\ (k = m \/ k \in 1..m - 1)
        BY <1>4, SMT
    <2> HIDE DEF g
    <2> QED BY <1>4, <1>6a, <1>10, <2>1, SMT
<1>12. Has(m)
    <2> HIDE DEF g
    <2>1. Run(g, S, first, m, step)
        BY <1>9, <1>10, <1>11 DEF Run
    <2> QED BY <2>1
<1> QED
    BY <1>12

(* The elements of a list that are in a set keep their order. *)
Picks(list, chosen, k, picked) ==
    \E at \in [DOMAIN picked -> 1..k] :
       /\ \A i \in DOMAIN picked : picked[i] = list[at[i]] /\ list[at[i]] \in chosen
       /\ \A i, j \in DOMAIN picked : i < j => at[i] < at[j]
       /\ \A h \in 1..k : list[h] \in chosen => \E i \in DOMAIN picked : at[i] = h

LEMMA PicksNext ==
    ASSUME NEW S, NEW list \in Seq(S), NEW chosen, NEW k \in 1..Len(list),
           NEW picked \in Seq(S), Picks(list, chosen, k - 1, picked)
    PROVE  Picks(list, chosen, k, IF list[k] \in chosen THEN Append(picked, list[k]) ELSE picked)
<1>1. PICK at \in [DOMAIN picked -> 1..k - 1] :
         /\ \A i \in DOMAIN picked : picked[i] = list[at[i]] /\ list[at[i]] \in chosen
         /\ \A i, j \in DOMAIN picked : i < j => at[i] < at[j]
         /\ \A h \in 1..k - 1 : list[h] \in chosen => \E i \in DOMAIN picked : at[i] = h
    BY DEF Picks
<1>2. \A h \in 1..k : h \in 1..k - 1 \/ h = k
    BY SMT
<1>3. CASE list[k] \notin chosen
    <2>1. at \in [DOMAIN picked -> 1..k]
        <3>1. 1..k - 1 \subseteq 1..k
            BY SMT
        <3> QED BY <3>1
    <2>2. \A h \in 1..k : list[h] \in chosen => \E i \in DOMAIN picked : at[i] = h
        BY <1>1, <1>2, <1>3
    <2> QED BY <1>1, <1>3, <2>1, <2>2 DEF Picks
<1>4. CASE list[k] \in chosen
    <2> DEFINE longer == Append(picked, list[k])
               n == Len(picked)
               to == [i \in 1..n + 1 |-> IF i = n + 1 THEN k ELSE at[i]]
    <2>1. DOMAIN picked = 1..n /\ n \in Nat
        BY LenProperties
    <2>2. list[k] \in S
        OBVIOUS
    <2>3. DOMAIN longer = 1..n + 1 /\ longer[n + 1] = list[k] /\ \A i \in 1..n : longer[i] = picked[i]
        BY <2>1, <2>2, AppendProperties
    <2>4. to[n + 1] = k /\ \A i \in 1..n : to[i] = at[i] /\ at[i] \in 1..k - 1
        BY <2>1, SMT
    <2>5. \A i \in 1..n + 1 : i = n + 1 \/ i \in 1..n
        BY <2>1, SMT
    <2>6. to \in [DOMAIN longer -> 1..k]
        <3>1. \A i \in 1..n + 1 : to[i] \in 1..k
            BY <2>4, <2>5, SMT
        <3> QED BY <2>3, <3>1
    <2> HIDE DEF to, longer
    <2>7. \A i \in DOMAIN longer : longer[i] = list[to[i]] /\ list[to[i]] \in chosen
        BY <1>1, <1>4, <2>1, <2>3, <2>4, <2>5
    <2>8. \A i, j \in DOMAIN longer : i < j => to[i] < to[j]
        BY <1>1, <2>1, <2>3, <2>4, <2>5, SMT
    <2>9. \A h \in 1..k : list[h] \in chosen => \E i \in DOMAIN longer : to[i] = h
        <3>1. n + 1 \in DOMAIN longer /\ 1..n \subseteq DOMAIN longer
            BY <2>1, <2>3, SMT
        <3> QED BY <1>1, <1>2, <2>1, <2>4, <3>1
    <2> QED BY <1>4, <2>6, <2>7, <2>8, <2>9 DEF Picks, longer
<1> QED
    BY <1>3, <1>4

IsKept(kept, list, chosen) ==
    kept = [k \in 0..Len(list) |->
              IF k = 0 THEN <<>>
              ELSE IF list[k] \in chosen THEN Append(kept[k - 1], list[k]) ELSE kept[k - 1]]

LEMMA AmongIsChosen ==
    ASSUME NEW list, NEW chosen
    PROVE  Among(list, chosen) = (CHOOSE kept : IsKept(kept, list, chosen))[Len(list)]
BY DEF Among, IsKept

LEMMA AmongPicks ==
    ASSUME NEW S, NEW list \in Seq(S), NEW chosen
    PROVE  Among(list, chosen) \in Seq(S) /\ Picks(list, chosen, Len(list), Among(list, chosen))
<1> DEFINE n == Len(list)
           step == [k \in 1..n |-> [q \in Seq(S) |->
                      IF list[k] \in chosen THEN Append(q, list[k]) ELSE q]]
<1>1. n \in Nat /\ <<>> \in Seq(S)
    BY SMT
<1>2. \A k \in 1..n : step[k] \in [Seq(S) -> Seq(S)]
    <2>1. ASSUME NEW k \in 1..n, NEW q \in Seq(S)
          PROVE  (IF list[k] \in chosen THEN Append(q, list[k]) ELSE q) \in Seq(S)
        <3>1. list[k] \in S
            OBVIOUS
        <3>2. Append(q, list[k]) \in Seq(S)
            BY <3>1, AppendProperties
        <3> QED BY <3>2
    <2> QED BY <2>1
<1>3. \A q \in Seq(S), k \in 1..n :
         step[k][q] = IF list[k] \in chosen THEN Append(q, list[k]) ELSE q
    OBVIOUS
<1> HIDE DEF step
<1>4. PICK f \in [0..n -> Seq(S)] : f[0] = <<>> /\ \A k \in 1..n : f[k] = step[k][f[k - 1]]
    <2> DEFINE Q == Seq(S)
               none == <<>>
    <2>1. none \in Q /\ n \in Nat /\ \A k \in 1..n : step[k] \in [Q -> Q]
        BY <1>1, <1>2
    <2> HIDE DEF n, Q, none
    <2>2. \E f : Run(f, Q, none, n, step)
        BY <2>1, StepsThrough
    <2> QED BY <2>2 DEF Q, none, Run
<1>5. IsKept(f, list, chosen)
    <2>1. ASSUME NEW k \in 0..n
          PROVE  f[k] = IF k = 0 THEN <<>>
                        ELSE IF list[k] \in chosen THEN Append(f[k - 1], list[k]) ELSE f[k - 1]
        <3>1. CASE k = 0
            BY <1>4, <3>1
        <3>2. CASE k # 0
            <4>1. k \in 1..n /\ k - 1 \in 0..n
                BY <1>1, <3>2, SMT
            <4>2. f[k - 1] \in Seq(S)
                BY <4>1
            <4> QED BY <1>3, <1>4, <3>2, <4>1, <4>2
        <3> QED BY <3>1, <3>2
    <2>2. f = [k \in 0..n |-> f[k]]
        OBVIOUS
    <2> QED BY <2>1, <2>2 DEF IsKept
<1> DEFINE kept == CHOOSE g : IsKept(g, list, chosen)
<1>6. IsKept(kept, list, chosen) /\ Among(list, chosen) = kept[n]
    BY <1>5, AmongIsChosen
<1> HIDE DEF kept
<1>7. kept[0] = <<>> /\ \A k \in 1..n : kept[k] = IF list[k] \in chosen THEN Append(kept[k - 1], list[k])
                                                  ELSE kept[k - 1]
    <2>1. \A k \in 0..n : kept[k] = IF k = 0 THEN <<>>
                        ELSE IF list[k] \in chosen THEN Append(kept[k - 1], list[k]) ELSE kept[k - 1]
        BY <1>6, Zenon DEF IsKept
    <2>2. 0 \in 0..n /\ \A k \in 1..n : k \in 0..n /\ k # 0
        BY <1>1, SMT
    <2> QED BY <2>1, <2>2
<1> DEFINE Good(k) == kept[k] \in Seq(S) /\ Picks(list, chosen, k, kept[k])
           Z == {k \in 0..n : ~Good(k)}
<1>8. Z = {}
    <2>1. SUFFICES ASSUME Z # {} PROVE FALSE
        OBVIOUS
    <2>2. PICK k \in Z : \A j \in Z : k <= j
        <3>1. Z \in SUBSET Nat
            BY SMT
        <3> HIDE DEF Z
        <3> QED BY <2>1, <3>1, LeastNumber
    <2>3. Good(0)
        <3>1. <<>> \in [{} -> 1..0] /\ DOMAIN <<>> = {}
            BY SMT
        <3>2. \A h \in 1..0 : FALSE
            BY SMT
        <3> QED BY <1>1, <1>7, <3>1, <3>2 DEF Picks
    <2>4. k \in 1..n /\ k - 1 \in 0..n /\ k - 1 < k
        BY <2>3, SMT
    <2>5. Good(k - 1)
        BY <2>2, <2>4, SMT
    <2>6. Picks(list, chosen, k, kept[k])
        BY <1>7, <2>4, <2>5, PicksNext
    <2>7. kept[k] \in Seq(S)
        <3>1. list[k] \in S
            BY <2>4
        <3>2. Append(kept[k - 1], list[k]) \in Seq(S)
            BY <2>5, <3>1, AppendProperties
        <3> QED BY <1>7, <2>4, <2>5, <3>2
    <2> QED BY <2>6, <2>7
<1>9. n \in 0..n
    BY <1>1, SMT
<1> QED
    BY <1>6, <1>8, <1>9

(* What is left of a list, as a set. *)
LEMMA AmongHolds ==
    ASSUME NEW S, NEW list \in Seq(S), NEW chosen
    PROVE  /\ Among(list, chosen) \in Seq(S)
           /\ Among(list, chosen) # <<>> => Among(list, chosen)[1] \in chosen \cap Listed(list)
           /\ \A i \in DOMAIN Among(list, chosen) : Among(list, chosen)[i] \in chosen \cap Listed(list)
           /\ \A x \in chosen \cap Listed(list) : x \in Listed(Among(list, chosen))
<1> DEFINE a == Among(list, chosen)
<1>1. a \in Seq(S) /\ Picks(list, chosen, Len(list), a)
    BY AmongPicks
<1>2. DOMAIN list = 1..Len(list) /\ DOMAIN a = 1..Len(a)
    BY <1>1, LenProperties
<1> HIDE DEF a
<1>3. PICK at \in [DOMAIN a -> 1..Len(list)] :
         /\ \A i \in DOMAIN a : a[i] = list[at[i]] /\ list[at[i]] \in chosen
         /\ \A h \in 1..Len(list) : list[h] \in chosen => \E i \in DOMAIN a : at[i] = h
    BY <1>1 DEF Picks
<1>4. \A i \in DOMAIN a : a[i] \in chosen \cap Listed(list)
    BY <1>2, <1>3 DEF Listed
<1>5. a # <<>> => 1 \in DOMAIN a
    BY <1>1, <1>2, EmptySeq, SMT
<1>6. \A x \in chosen \cap Listed(list) : x \in Listed(a)
    BY <1>2, <1>3 DEF Listed
<1> QED
    BY <1>1, <1>4, <1>5, <1>6 DEF a

(* The lines below the one at a, up to line k, that no header parts from it. *)
Stretch(lines, a, k) == {j \in a + 1 .. k : \A h \in a + 1 .. j : lines[h].kind # "header"}

SectionRecords == [root : STRING, name : STRING, entries : SUBSET STRING, odd : BOOLEAN]
SectionFrom(lines, section, a, k) ==
    /\ lines[a].kind = "header" /\ lines[a].root = section.root /\ lines[a].name = section.name
    /\ section.root # "other"
    /\ \A e \in section.entries :
          \E j \in Stretch(lines, a, k) : lines[j].kind = "entry" /\ lines[j].entry = e
    /\ section.odd => \E j \in Stretch(lines, a, k) : lines[j].kind = "odd"

(* Sections come from the headers of the lines up to k, each from its own and in their order. *)
SectionsAt(lines, list, k, at) ==
    /\ at \in [DOMAIN list -> 1..k]
    /\ \A i \in DOMAIN list : SectionFrom(lines, list[i], at[i], k)
    /\ \A i, j \in DOMAIN list : i < j => at[i] < at[j]
    /\ \A h \in 1..k : lines[h].kind = "header" /\ lines[h].root # "other" => \E i \in DOMAIN list : at[i] = h

SectionStates == {s \in [open : BOOLEAN, list : Seq(SectionRecords)] : s.open => s.list # <<>>}
ReadTo(lines, state, k) ==
    \E at : /\ SectionsAt(lines, state.list, k, at)
            /\ state.open => \A h \in at[Len(state.list)] + 1 .. k : lines[h].kind # "header"

LEMMA StretchGrows ==
    ASSUME NEW lines, NEW k \in Nat, NEW a \in 1..k - 1
    PROVE  Stretch(lines, a, k - 1) \subseteq Stretch(lines, a, k)
BY SMT DEF Stretch

LEMMA SectionGrows ==
    ASSUME NEW lines, NEW k \in Nat, NEW a \in 1..k - 1, NEW section, SectionFrom(lines, section, a, k - 1)
    PROVE  SectionFrom(lines, section, a, k)
BY StretchGrows, Zenon DEF SectionFrom

LEMMA SectionsGrow ==
    ASSUME NEW lines, NEW k \in Nat \ {0}, NEW list, NEW at, SectionsAt(lines, list, k - 1, at),
           ~(lines[k].kind = "header" /\ lines[k].root # "other")
    PROVE  SectionsAt(lines, list, k, at)
<1>1. at \in [DOMAIN list -> 1..k]
    <2>1. 1..k - 1 \subseteq 1..k
        BY SMT
    <2> QED BY <2>1 DEF SectionsAt
<1>2. \A i \in DOMAIN list : SectionFrom(lines, list[i], at[i], k)
    <2>1. \A i \in DOMAIN list : at[i] \in 1..k - 1
        BY DEF SectionsAt
    <2> QED BY <2>1, SectionGrows DEF SectionsAt
<1>3. \A h \in 1..k : h = k \/ h \in 1..k - 1
    BY SMT
<1> QED
    BY <1>1, <1>2, <1>3 DEF SectionsAt

LEMMA ListChanged ==
    ASSUME NEW state \in SectionStates, NEW list
    PROVE  [state EXCEPT !.list = list] = [open |-> state.open, list |-> list]
BY DEF SectionStates

(* What a line makes of the sections. *)
LEMMA SectionStepCases ==
    ASSUME NEW state \in SectionStates, NEW line \in LineRecords
    PROVE  \/ /\ line.kind = "header" /\ line.root = "other"
              /\ SectionStep(state, line) = [open |-> FALSE, list |-> state.list]
           \/ /\ line.kind = "header" /\ line.root # "other"
              /\ SectionStep(state, line) =
                    [open |-> TRUE, list |-> Append(state.list,
                        [root |-> line.root, name |-> line.name, entries |-> {}, odd |-> FALSE])]
           \/ line.kind # "header" /\ SectionStep(state, line) = state
           \/ /\ line.kind \in {"odd", "entry"} /\ state.open
              /\ \E section \in SectionRecords :
                    /\ section.root = state.list[Len(state.list)].root
                    /\ section.name = state.list[Len(state.list)].name
                    /\ section.entries \subseteq state.list[Len(state.list)].entries
                          \cup (IF line.kind = "entry" THEN {line.entry} ELSE {})
                    /\ section.odd = (state.list[Len(state.list)].odd \/ line.kind = "odd")
                    /\ SectionStep(state, line) =
                          [open |-> TRUE, list |-> [state.list EXCEPT ![Len(state.list)] = section]]
<1> DEFINE n == Len(state.list)
           last == state.list[n]
<1>1. /\ state = [open |-> state.open, list |-> state.list]
      /\ state.open \in BOOLEAN /\ state.list \in Seq(SectionRecords)
    BY DEF SectionStates
<1>2. /\ line.kind \in {"header", "entry", "odd"}
      /\ line.kind = "entry" => line.entry \in STRING
    BY SMT DEF LineRecords
<1>3. CASE line.kind = "header"
    BY <1>1, <1>3, Zenon DEF SectionStep
<1>4. CASE line.kind # "header" /\ ~state.open
    BY <1>4, Zenon DEF SectionStep
<1>5. CASE line.kind = "odd" /\ state.open
    <2>1. n \in DOMAIN state.list /\ last \in SectionRecords
        BY <1>1, <1>5, EmptySeq, LenProperties, SMT DEF SectionStates
    <2> DEFINE section == [last EXCEPT !.odd = TRUE]
    <2>2. /\ section \in SectionRecords /\ section.root = last.root /\ section.name = last.name
          /\ section.entries = last.entries /\ section.odd = TRUE
        BY <2>1 DEF SectionRecords
    <2>3. SectionStep(state, line) = [state EXCEPT !.list[n].odd = TRUE]
        BY <1>5, Zenon DEF SectionStep
    <2>4. [state EXCEPT !.list[n].odd = TRUE] = [open |-> TRUE, list |-> [state.list EXCEPT ![n] = section]]
        <3>1. [state EXCEPT !.list[n].odd = TRUE] = [state EXCEPT !.list = [state.list EXCEPT ![n] = section]]
            OBVIOUS
        <3>2. state.open = TRUE
            BY <1>1, <1>5
        <3>3. [state EXCEPT !.list = [state.list EXCEPT ![n] = section]]
                = [open |-> state.open, list |-> [state.list EXCEPT ![n] = section]]
            BY ListChanged
        <3> QED BY <3>1, <3>2, <3>3, Zenon
    <2> HIDE DEF section
    <2> QED BY <1>5, <2>2, <2>3, <2>4
<1>6. CASE line.kind = "entry" /\ state.open
    <2>1. n \in DOMAIN state.list /\ last \in SectionRecords
        BY <1>1, <1>6, EmptySeq, LenProperties, SMT DEF SectionStates
    <2>2. CASE last.odd
        BY <1>6, <2>2, Zenon DEF SectionStep
    <2>3. CASE ~last.odd
        <3> DEFINE section == [last EXCEPT !.entries = @ \cup {line.entry}]
        <3>1. /\ section \in SectionRecords /\ section.root = last.root /\ section.name = last.name
              /\ section.entries = last.entries \cup {line.entry} /\ section.odd = last.odd
            BY <1>2, <1>6, <2>1 DEF SectionRecords
        <3>2. SectionStep(state, line) = [state EXCEPT !.list[n].entries = @ \cup {line.entry}]
            BY <1>6, <2>3, Zenon DEF SectionStep
        <3>3. [state EXCEPT !.list[n].entries = @ \cup {line.entry}]
                = [open |-> TRUE, list |-> [state.list EXCEPT ![n] = section]]
            <4>1. [state EXCEPT !.list[n].entries = @ \cup {line.entry}]
                     = [state EXCEPT !.list = [state.list EXCEPT ![n] = section]]
                OBVIOUS
            <4>2. state.open = TRUE
                BY <1>1, <1>6
            <4>3. [state EXCEPT !.list = [state.list EXCEPT ![n] = section]]
                    = [open |-> state.open, list |-> [state.list EXCEPT ![n] = section]]
                BY ListChanged
            <4> QED BY <4>1, <4>2, <4>3, Zenon
        <3>4. section.odd = (last.odd \/ line.kind = "odd")
            BY <1>6, <2>1, <2>3, <3>1 DEF SectionRecords
        <3> HIDE DEF section
        <3> QED BY <1>6, <3>1, <3>2, <3>3, <3>4
    <2> QED BY <2>2, <2>3
<1> QED
    BY <1>2, <1>3, <1>4, <1>5, <1>6

LEMMA SectionStepStays ==
    ASSUME NEW state \in SectionStates, NEW line \in LineRecords
    PROVE  SectionStep(state, line) \in SectionStates
<1>1. state.open \in BOOLEAN /\ state.list \in Seq(SectionRecords) /\ (state.open => state.list # <<>>)
    BY DEF SectionStates
<1>2. CASE line.kind = "header" /\ SectionStep(state, line) = [open |-> FALSE, list |-> state.list]
    BY <1>1, <1>2 DEF SectionStates
<1>3. ASSUME line.kind = "header", SectionStep(state, line) =
                 [open |-> TRUE, list |-> Append(state.list,
                    [root |-> line.root, name |-> line.name, entries |-> {}, odd |-> FALSE])]
      PROVE  SectionStep(state, line) \in SectionStates
    <2> DEFINE section == [root |-> line.root, name |-> line.name, entries |-> {}, odd |-> FALSE]
    <2>1. line.root \in STRING /\ line.name \in STRING
        BY <1>3, SMT DEF LineRecords
    <2>2. section \in SectionRecords
        BY <2>1 DEF SectionRecords
    <2> HIDE DEF section
    <2>3. Append(state.list, section) \in Seq(SectionRecords) /\ Append(state.list, section) # <<>>
        BY <1>1, <2>2, AppendProperties
    <2>4. SectionStep(state, line) = [open |-> TRUE, list |-> Append(state.list, section)]
        BY <1>3 DEF section
    <2> QED BY <2>3, <2>4 DEF SectionStates
<1>4. ASSUME state.open, NEW section \in SectionRecords, SectionStep(state, line) =
                 [open |-> TRUE, list |-> [state.list EXCEPT ![Len(state.list)] = section]]
      PROVE  SectionStep(state, line) \in SectionStates
    <2> DEFINE list == [state.list EXCEPT ![Len(state.list)] = section]
    <2>1. list \in Seq(SectionRecords) /\ Len(list) = Len(state.list) /\ Len(state.list) # 0
        BY <1>1, <1>4, ExceptSeq, EmptySeq, LenProperties, SMT
    <2>2. list # <<>>
        BY <2>1, EmptySeq
    <2>3. SectionStep(state, line) = [open |-> TRUE, list |-> list]
        BY <1>4
    <2> HIDE DEF list
    <2> QED BY <2>1, <2>2, <2>3 DEF SectionStates
<1> QED
    BY <1>2, <1>3, <1>4, SectionStepCases

LEMMA SectionStepReads ==
    ASSUME NEW lines, NEW k \in Nat \ {0}, lines[k] \in LineRecords,
           NEW state \in SectionStates, ReadTo(lines, state, k - 1)
    PROVE  ReadTo(lines, SectionStep(state, lines[k]), k)
<1> DEFINE line == lines[k]
           n == Len(state.list)
<1>1. state.open \in BOOLEAN /\ state.list \in Seq(SectionRecords) /\ (state.open => state.list # <<>>)
    BY DEF SectionStates
<1>1a. DOMAIN state.list = 1..n /\ n \in Nat /\ (state.open => n \in 1..n)
    BY <1>1, EmptySeq, LenProperties, SMT
<1>2. PICK at : /\ SectionsAt(lines, state.list, k - 1, at)
                /\ state.open => \A h \in at[n] + 1 .. k - 1 : lines[h].kind # "header"
    BY DEF ReadTo
<1>3. \A i \in 1..n : at[i] \in 1..k - 1
    BY <1>1a, <1>2 DEF SectionsAt
<1>4. CASE line.kind = "header" /\ line.root = "other"
           /\ SectionStep(state, line) = [open |-> FALSE, list |-> state.list]
    <2>1. SectionsAt(lines, state.list, k, at)
        BY <1>2, <1>4, SectionsGrow
    <2> QED BY <1>4, <2>1 DEF ReadTo
<1>5. CASE line.kind # "header" /\ SectionStep(state, line) = state
    <2>1. SectionsAt(lines, state.list, k, at)
        BY <1>2, <1>5, SectionsGrow
    <2>2. state.open => \A h \in at[n] + 1 .. k : lines[h].kind # "header"
        BY <1>1a, <1>2, <1>3, <1>5, SMT
    <2> QED BY <1>5, <2>1, <2>2 DEF ReadTo
<1>6. ASSUME line.kind = "header", line.root # "other", SectionStep(state, line) =
                 [open |-> TRUE, list |-> Append(state.list,
                    [root |-> line.root, name |-> line.name, entries |-> {}, odd |-> FALSE])]
      PROVE  ReadTo(lines, SectionStep(state, lines[k]), k)
    <2> DEFINE section == [root |-> line.root, name |-> line.name, entries |-> {}, odd |-> FALSE]
               list == Append(state.list, section)
               to == [i \in 1..n + 1 |-> IF i = n + 1 THEN k ELSE at[i]]
    <2>1. section \in SectionRecords /\ section.root = line.root /\ section.name = line.name
          /\ section.entries = {} /\ section.odd = FALSE
        <3>1. line.root \in STRING /\ line.name \in STRING
            BY <1>6, SMT DEF LineRecords
        <3> QED BY <3>1 DEF SectionRecords
    <2> HIDE DEF section
    <2>2. DOMAIN list = 1..n + 1 /\ Len(list) = n + 1 /\ list[n + 1] = section
          /\ \A i \in 1..n : list[i] = state.list[i]
        BY <1>1, <1>1a, <2>1, AppendProperties
    <2>3. to[n + 1] = k /\ \A i \in 1..n : to[i] = at[i]
        BY <1>1a, SMT
    <2>4. \A i \in 1..n + 1 : i = n + 1 \/ i \in 1..n
        BY <1>1a, SMT
    <2>5. \A i \in 1..n + 1 : to[i] \in 1..k
        BY <1>3, <2>3, <2>4, SMT
    <2>6. to \in [DOMAIN list -> 1..k]
        BY <2>2, <2>5
    <2> HIDE DEF to, list
    <2>7. SectionFrom(lines, section, k, k)
        BY <1>6, <2>1 DEF SectionFrom
    <2>8. \A i \in 1..n : SectionFrom(lines, state.list[i], at[i], k)
        BY <1>1a, <1>2, <1>3, SectionGrows DEF SectionsAt
    <2>9. \A i \in DOMAIN list : SectionFrom(lines, list[i], to[i], k)
        BY <2>2, <2>3, <2>4, <2>7, <2>8
    <2>10. \A i, j \in DOMAIN list : i < j => to[i] < to[j]
        <3>1. \A i, j \in 1..n : i < j => at[i] < at[j]
            BY <1>1a, <1>2 DEF SectionsAt
        <3>2. \A i \in 1..n, j \in 1..n + 1 : i < j => j \in 1..n \/ j = n + 1
            BY <2>4
        <3> QED BY <1>1a, <1>3, <2>2, <2>3, <2>4, <3>1, SMT
    <2>11. \A h \in 1..k : lines[h].kind = "header" /\ lines[h].root # "other"
                              => \E i \in DOMAIN list : to[i] = h
        <3>1. \A h \in 1..k - 1 : lines[h].kind = "header" /\ lines[h].root # "other"
                              => \E i \in 1..n : to[i] = h
            BY <1>1a, <1>2, <2>3 DEF SectionsAt
        <3>2. \A h \in 1..k : h = k \/ h \in 1..k - 1
            BY SMT
        <3>3. n + 1 \in DOMAIN list /\ 1..n \subseteq DOMAIN list
            BY <1>1a, <2>2, SMT
        <3> QED BY <2>3, <3>1, <3>2, <3>3
    <2>12. SectionsAt(lines, list, k, to)
        BY <2>6, <2>9, <2>10, <2>11 DEF SectionsAt
    <2>13. \A h \in to[Len(list)] + 1 .. k : lines[h].kind # "header"
        BY <2>2, <2>3, SMT
    <2>14. SectionStep(state, lines[k]) = [open |-> TRUE, list |-> list]
        BY <1>6 DEF list, section
    <2> QED BY <2>12, <2>13, <2>14 DEF ReadTo
<1>7. ASSUME line.kind \in {"odd", "entry"}, state.open, NEW section \in SectionRecords,
             section.root = state.list[n].root, section.name = state.list[n].name,
             section.entries \subseteq state.list[n].entries
                          \cup (IF line.kind = "entry" THEN {line.entry} ELSE {}),
             section.odd = (state.list[n].odd \/ line.kind = "odd"),
             SectionStep(state, line) = [open |-> TRUE, list |-> [state.list EXCEPT ![n] = section]]
      PROVE  ReadTo(lines, SectionStep(state, lines[k]), k)
    <2> DEFINE list == [state.list EXCEPT ![n] = section]
               a == at[n]
    <2>1. DOMAIN list = 1..n /\ Len(list) = n /\ list[n] = section
          /\ \A i \in 1..n : i # n => list[i] = state.list[i]
        BY <1>1, <1>1a, <1>7, ExceptSeq
    <2>2. SectionsAt(lines, state.list, k, at)
        BY <1>2, <1>7, SectionsGrow
    <2>3. n \in 1..n /\ a \in 1..k - 1 /\ \A h \in a + 1 .. k : lines[h].kind # "header"
        BY <1>1a, <1>2, <1>3, <1>7, SMT
    <2>4. k \in Stretch(lines, a, k)
        BY <2>3, SMT DEF Stretch
    <2>5. SectionFrom(lines, state.list[n], a, k)
        BY <1>1a, <2>2, <2>3 DEF SectionsAt
    <2>6. SectionFrom(lines, section, a, k)
        BY <1>7, <2>4, <2>5 DEF SectionFrom
    <2> HIDE DEF list
    <2>7. \A i \in DOMAIN list : SectionFrom(lines, list[i], at[i], k)
        BY <1>1a, <2>1, <2>2, <2>6 DEF SectionsAt
    <2>8. SectionsAt(lines, list, k, at)
        BY <1>1a, <2>1, <2>2, <2>7, Zenon DEF SectionsAt
    <2>9. SectionStep(state, lines[k]) = [open |-> TRUE, list |-> list]
        BY <1>7 DEF list
    <2> QED BY <2>1, <2>3, <2>8, <2>9 DEF ReadTo
<1> QED
    BY <1>4, <1>5, <1>6, <1>7, SectionStepCases

IsRead(after, lines) ==
    after = [k \in 0..Len(lines) |-> IF k = 0 THEN [open |-> FALSE, list |-> <<>>]
                                     ELSE SectionStep(after[k - 1], lines[k])]

(* The lines make sections, each from a header of its own. *)
LEMMA SectionsStand ==
    ASSUME hostDisk.lines \in Seq(LineRecords)
    PROVE  /\ Sections \in Seq(SectionRecords)
           /\ \E at : SectionsAt(hostDisk.lines, Sections, Len(hostDisk.lines), at)
<1> DEFINE lines == hostDisk.lines
           n == Len(lines)
           first == [open |-> FALSE, list |-> <<>>]
           step == [k \in 1..n |-> [s \in SectionStates |-> SectionStep(s, lines[k])]]
<1>1. n \in Nat /\ \A k \in 1..n : lines[k] \in LineRecords
    BY LenProperties
<1>2. first \in SectionStates
    BY EmptySeq DEF SectionStates
<1>3. \A k \in 1..n : step[k] \in [SectionStates -> SectionStates]
    BY <1>1, SectionStepStays
<1>4. \A k \in 1..n, s \in SectionStates : step[k][s] = SectionStep(s, lines[k])
    OBVIOUS
<1>5. Sections = (CHOOSE after : IsRead(after, lines))[n].list
    BY DEF Sections, IsRead
<1> HIDE DEF step, first, n
<1>6. PICK f : Run(f, SectionStates, first, n, step)
    BY <1>1, <1>2, <1>3, StepsThrough
<1>7. f \in [0..n -> SectionStates] /\ f[0] = first /\ \A k \in 1..n : f[k] = step[k][f[k - 1]]
    BY <1>6 DEF Run
<1>8. \A k \in 1..n : k \in 0..n /\ k - 1 \in 0..n /\ k # 0 /\ k - 1 < k
    BY <1>1, SMT
<1>9. IsRead(f, lines)
    <2>1. ASSUME NEW k \in 0..n
          PROVE  f[k] = IF k = 0 THEN first ELSE SectionStep(f[k - 1], lines[k])
        <3>1. CASE k = 0
            BY <1>7, <3>1
        <3>2. CASE k # 0
            <4>1. k \in 1..n
                BY <1>1, <3>2, SMT
            <4>2. f[k - 1] \in SectionStates
                BY <1>7, <1>8, <4>1
            <4> QED BY <1>4, <1>7, <3>2, <4>1, <4>2
        <3> QED BY <3>1, <3>2
    <2>2. f = [k \in 0..n |-> f[k]]
        BY <1>7
    <2> QED BY <2>1, <2>2 DEF IsRead, first, n
<1> DEFINE after == CHOOSE g : IsRead(g, lines)
<1>10. IsRead(after, lines) /\ Sections = after[n].list
    BY <1>5, <1>9
<1> HIDE DEF after
<1>11. after[0] = first /\ \A k \in 1..n : after[k] = SectionStep(after[k - 1], lines[k])
    <2>1. \A k \in 0..n : after[k] = IF k = 0 THEN first ELSE SectionStep(after[k - 1], lines[k])
        BY <1>10, Zenon DEF IsRead, first, n
    <2>2. 0 \in 0..n
        BY <1>1, SMT
    <2> QED BY <1>8, <2>1, <2>2
<1> DEFINE Good(k) == after[k] \in SectionStates /\ ReadTo(lines, after[k], k)
           Z == {k \in 0..n : ~Good(k)}
<1>12. Z = {}
    <2>1. SUFFICES ASSUME Z # {} PROVE FALSE
        OBVIOUS
    <2>2. PICK k \in Z : \A j \in Z : k <= j
        <3>1. Z \in SUBSET Nat
            BY SMT
        <3> HIDE DEF Z
        <3> QED BY <2>1, <3>1, LeastNumber
    <2>3. Good(0)
        <3> DEFINE none == [i \in {} |-> 1]
        <3>1. DOMAIN <<>> = {} /\ none \in [{} -> 1..0] /\ \A h \in 1..0 : FALSE
            BY SMT
        <3>2. SectionsAt(lines, <<>>, 0, none)
            BY <3>1 DEF SectionsAt
        <3>3. first.open = FALSE /\ first.list = <<>>
            BY DEF first
        <3>4. ReadTo(lines, first, 0)
            BY <3>2, <3>3, Zenon DEF ReadTo
        <3> QED BY <1>2, <1>11, <3>4
    <2>4. k \in 1..n /\ k - 1 \in 0..n /\ k - 1 < k /\ k \in Nat \ {0}
        BY <1>1, <2>3, SMT
    <2>5. Good(k - 1)
        BY <2>2, <2>4, SMT
    <2>6. ReadTo(lines, after[k], k)
        BY <1>1, <1>11, <2>4, <2>5, SectionStepReads
    <2>7. after[k] \in SectionStates
        BY <1>1, <1>11, <2>4, <2>5, SectionStepStays
    <2> QED BY <2>6, <2>7
<1>13. Good(n)
    <2>1. n \in 0..n
        BY <1>1, SMT
    <2> QED BY <1>12, <2>1
<1> HIDE DEF lines
<1>14. after[n].list \in Seq(SectionRecords) /\ \E at : SectionsAt(lines, after[n].list, n, at)
    BY <1>13 DEF ReadTo, SectionStates
<1> QED
    BY <1>10, <1>14 DEF lines, n

(* No plugin lies in the directory of something else. *)
Reserved == {"host", "registry", "settings", "name", "finding"}

SourceFits(source) ==
    \/ /\ source.kind = "host-config" /\ source.file = Config
       /\ \A f \in source.servers : f.origin = Config
    \/ source.kind = "plugin-manifest" /\ source.file[1] = "registry" /\ source.servers = {}
SourcesFit(list, host) ==
    /\ list \in Seq(Listed(list))
    /\ \A i \in DOMAIN list : SourceFits(list[i])
    /\ host # "codex" => \A i, j \in DOMAIN list : i # j => list[i].kind # list[j].kind

(* A report is about no file, about a manifest, or about a plugin.json and what it points to. *)
ManifestReport(p) ==
    \E dir, file : /\ dir \notin Reserved /\ file \in ManifestFiles /\ p.where = <<dir, file>>
                   /\ \A f \in p.servers : f.origin = p.where
PluginJsonReport(p) ==
    \E dir : /\ dir \notin Reserved /\ p.where = PluginJson(dir)
             /\ \A f \in p.servers : f.origin = p.where \/
                   \E file : file \notin ManifestFiles \cup {"plugin.json"} /\ f.origin = <<dir, file>>
ReportFits(p, host) ==
    \/ p.where = BareName(p.name) /\ p.servers = {}
    \/ ManifestReport(p)
    \/ host # "codex" /\ PluginJsonReport(p)
ReportsFit(list, host) ==
    list \in Seq(Listed(list)) /\ \A i \in DOMAIN list : ReportFits(list[i], host)
PendingFits(list, d) ==
    /\ list \in Seq(Listed(list))
    /\ \A i \in DOMAIN list : IF d.host = "codex" THEN list[i].dirs \in Seq({"source", "cache"})
                              ELSE list[i].dir \in DOMAIN d.plugin

(* A server said to be behind the proxy is so on the disk. *)
ServerShown(d, f) == f.server.wrapped => Proxied(d, <<f.origin, "", f.server.name, "">>)

(* Two sections that make one route come from two equal lines. *)
SourcesApart(list, d) ==
    d.host = "codex" =>
        \A i, j \in DOMAIN list : i # j =>
            /\ list[i].location = "parsed"
            /\ \A f \in list[i].servers, g \in list[j].servers : f.server.name = g.server.name =>
                  \E a, b \in DOMAIN d.lines : a # b /\ d.lines[a] = d.lines[b]

(* An enabled plugin is awaited, or was heard of. *)
NamesNone(d, plugin) ==
    \E dir \in plugin.dirs : d.present[dir] /\
        \/ \E file \in DOMAIN d.map :
              /\ file[1] = dir /\ d.map[file].form \in {"named", "bare"} /\ d.map[file].servers = {}
        \/ d.plugin[dir].servers = {} /\ d.plugin[dir].declares = "map"
Heard(d, plugin, p) ==
    \/ p.location # "parsed" /\ p.state = "enabled"
         /\ (p.where[1] \in plugin.dirs \/ p.where = BareName(plugin.name))
    \/ p.location = "parsed" /\ \E f \in p.servers : f.origin[1] \in plugin.dirs
    \/ NamesNone(d, plugin)
Awaited(d, plugin, next) ==
    /\ next.name = plugin.name
    /\ IF d.host = "codex" THEN next.enabled /\ plugin.dirs = {"source", "cache"}
       ELSE /\ plugin.dirs = {next.dir} /\ next.name \in PluginNames
            /\ resolveEnablement(next.name, next.dir) = "enabled"

(* What the survey has read is on the disk. *)
ServersShown(s, d) ==
    /\ \A i \in DOMAIN s.sources : \A f \in s.sources[i].servers : ServerShown(d, f)
    /\ \A i \in DOMAIN s.plugins : \A f \in s.plugins[i].servers : ServerShown(d, f)

ReadingKept ==
    /\ SourcesFit(survey.sources, hostDisk.host) /\ ReportsFit(survey.plugins, hostDisk.host)
    /\ PendingFits(survey.pending, hostDisk)
    /\ ~survey.straddled =>
          /\ ServersShown(survey, hostDisk) /\ SourcesApart(survey.sources, hostDisk)
          /\ hostDisk.host = "codex" => \A i \in DOMAIN survey.plugins :
                survey.plugins[i].where[1] = "name" \/
                (survey.plugins[i].where \in survey.inspected /\ Exists(survey.plugins[i].where))
          /\ \A plugin \in EnabledIn(hostDisk) :
                \/ \E i \in DOMAIN survey.pending : Awaited(hostDisk, plugin, survey.pending[i])
                \/ \E i \in DOMAIN survey.plugins : Heard(hostDisk, plugin, survey.plugins[i])

EvidenceFits(evidence, seen) == \A e \in evidence : e[2] = seen.stamp[e[1]]

EvidenceKept ==
    /\ SourcesFit(survey.sources, hostDisk.host) /\ ReportsFit(survey.plugins, hostDisk.host)
    /\ EvidenceFits(survey.evidence, survey.seen) /\ survey.seen.host = hostDisk.host
    /\ ~survey.straddled =>
          /\ ServersShown(survey, survey.seen) /\ SourcesApart(survey.sources, survey.seen)
          /\ hostDisk.host = "codex" => \A i \in DOMAIN survey.plugins :
                survey.plugins[i].where[1] = "name" \/ survey.plugins[i].where \in WithEvidence
          /\ \A plugin \in EnabledIn(survey.seen) :
                \E i \in DOMAIN survey.plugins : Heard(survey.seen, plugin, survey.plugins[i])

IsRow(row) == row = [id |-> row.id, observation |-> row.observation, genuine |-> row.genuine]
RowsKept == /\ \A row \in coverage.rows : IsRow(row)
            /\ EvidenceFits(coverage.evidence, coverage.seen)

SurveyFields == {"at", "sources", "pending", "plugins", "inspected", "evidence", "seen", "straddled",
                 "refreshed", "previous"}
DiskKept ==
    /\ DiskFits(hostDisk)
    /\ \E d \in Surveyed : /\ d.host = hostDisk.host /\ DOMAIN d.plugin = DOMAIN hostDisk.plugin
                            /\ DOMAIN d.map = DOMAIN hostDisk.map
SurveyKept ==
    /\ DiskKept /\ RowsKept /\ DOMAIN survey = SurveyFields /\ survey.straddled \in BOOLEAN
    /\ survey.at \in {"idle", "plugins", "discover", "done", "refused"}
    /\ survey.at = "plugins" => ReadingKept
    /\ survey.at = "discover" => EvidenceKept
    /\ CoverageIsHonest
-----------------------------------------------------------------------------
(* The rows of a discovery. *)

LEMMA EachIsList ==
    ASSUME NEW list, list \in Seq(Listed(list)), NEW to, to = [i \in DOMAIN list |-> to[i]]
    PROVE  to \in Seq(Listed(to)) /\ Len(to) = Len(list) /\ DOMAIN to = 1..Len(list)
<1>1. DOMAIN list = 1..Len(list) /\ Len(list) \in Nat
    BY LenProperties
<1>2. DOMAIN to = 1..Len(list)
    BY <1>1
<1>3. \A i \in DOMAIN to : to[i] \in Listed(to)
    BY DEF Listed
<1>4. to \in Seq(Listed(to))
    BY <1>1, <1>2, <1>3, IsASeq
<1> QED
    BY <1>1, <1>2, <1>4, LenProperties

LEMMA WiderSeq ==
    ASSUME NEW S, NEW T, S \subseteq T, NEW list \in Seq(S)
    PROVE  list \in Seq(T)
OBVIOUS

LEMMA UnitsAre ==
    ASSUME survey.sources \in Seq(Listed(survey.sources)), survey.plugins \in Seq(Listed(survey.plugins))
    PROVE  /\ \A i \in DOMAIN Units :
                 \/ i \in DOMAIN survey.sources /\ Units[i] = SourceRows(survey.sources[i])
                 \/ \E j \in DOMAIN survey.plugins :
                       i = Len(survey.sources) + j /\ Units[i] = PluginRows(survey.plugins[j])
                 \/ /\ i = Len(survey.sources) + Len(survey.plugins) + 1
                    /\ Units[i] = FindingRows(hostDisk.host)
           /\ \A j \in DOMAIN survey.plugins : PluginRows(survey.plugins[j]) \subseteq AllRows
           /\ \A i \in DOMAIN Units : i \in Nat
<1> DEFINE a == Each(survey.sources, SourceRows)
           b == Each(survey.plugins, PluginRows)
           c == <<FindingRows(hostDisk.host)>>
           m == Len(survey.sources)
           n == Len(survey.plugins)
           S == Listed(a) \cup Listed(b) \cup {FindingRows(hostDisk.host)}
<1>1. /\ a = [i \in DOMAIN survey.sources |-> SourceRows(survey.sources[i])]
      /\ b = [i \in DOMAIN survey.plugins |-> PluginRows(survey.plugins[i])]
    BY DEF Each
<1>2. m \in Nat /\ n \in Nat /\ DOMAIN survey.sources = 1..m /\ DOMAIN survey.plugins = 1..n
    BY LenProperties
<1>3. (\A i \in 1..m : a[i] = SourceRows(survey.sources[i])) /\ (\A i \in 1..n : b[i] = PluginRows(survey.plugins[i]))
    BY <1>1, <1>2
<1>4. a = [i \in DOMAIN survey.sources |-> a[i]] /\ b = [i \in DOMAIN survey.plugins |-> b[i]]
    BY <1>1
<1>5. Units = a \o b \o c
    BY DEF Units
<1> HIDE DEF a, b
<1>6. /\ a \in Seq(Listed(a)) /\ Len(a) = m /\ DOMAIN a = 1..m
      /\ b \in Seq(Listed(b)) /\ Len(b) = n /\ DOMAIN b = 1..n
    BY <1>4, EachIsList
<1>7. a \in Seq(S) /\ b \in Seq(S)
    BY <1>6, WiderSeq
<1>8. c \in Seq(S) /\ Len(c) = 1 /\ c[1] = FindingRows(hostDisk.host)
    OBVIOUS
<1> HIDE DEF S, c, m, n
<1>9. /\ a \o b \in Seq(S) /\ Len(a \o b) = m + n
      /\ \A i \in 1..m + n : (a \o b)[i] = IF i <= m THEN a[i] ELSE b[i - m]
    BY <1>6, <1>7, ConcatProperties
<1> DEFINE ab == a \o b
<1> HIDE DEF ab
<1>10. ab \in Seq(S) /\ Len(ab) = m + n /\ \A i \in 1..m + n : ab[i] = IF i <= m THEN a[i] ELSE b[i - m]
    BY <1>9 DEF ab
<1>11. /\ ab \o c \in Seq(S) /\ Len(ab \o c) = m + n + 1
       /\ \A i \in 1..m + n + 1 : (ab \o c)[i] = IF i <= m + n THEN ab[i] ELSE c[i - (m + n)]
    <2>1. /\ ab \o c \in Seq(S) /\ Len(ab \o c) = Len(ab) + Len(c)
          /\ \A i \in 1..Len(ab) + Len(c) : (ab \o c)[i] = IF i <= Len(ab) THEN ab[i] ELSE c[i - Len(ab)]
        BY <1>8, <1>10, ConcatProperties
    <2>2. Len(ab) = m + n /\ Len(c) = 1
        BY <1>8, <1>10
    <2> QED BY <2>1, <2>2
<1>12. /\ Units \in Seq(S) /\ DOMAIN Units = 1..m + n + 1
       /\ \A i \in 1..m + n + 1 : Units[i] = IF i <= m + n THEN ab[i] ELSE c[i - (m + n)]
    BY <1>5, <1>11, LenProperties DEF ab
<1>13. ASSUME NEW i \in 1..m + n + 1
       PROVE  \/ i \in 1..m /\ Units[i] = a[i]
              \/ \E j \in 1..n : i = m + j /\ Units[i] = b[j]
              \/ i = m + n + 1 /\ Units[i] = c[1]
    <2>1. CASE i <= m
        BY <1>2, <1>10, <1>12, <2>1, SMT
    <2>2. CASE m < i /\ i <= m + n
        <3>1. i - m \in 1..n /\ i = m + (i - m) /\ i \in 1..m + n /\ ~(i <= m)
            BY <1>2, <2>2, SMT
        <3>2. Units[i] = b[i - m]
            BY <1>10, <1>12, <2>2, <3>1
        <3> QED BY <3>1, <3>2
    <2>3. CASE i = m + n + 1
        <3>1. ~(i <= m + n) /\ i - (m + n) = 1
            BY <1>2, <2>3, SMT
        <3> QED BY <1>12, <2>3, <3>1
    <2>4. i <= m \/ (m < i /\ i <= m + n) \/ i = m + n + 1
        BY <1>2, SMT
    <2> QED BY <2>1, <2>2, <2>3, <2>4
<1>14. \A j \in DOMAIN survey.plugins : PluginRows(survey.plugins[j]) \subseteq AllRows
    <2> SUFFICES ASSUME NEW j \in 1..n PROVE b[j] \subseteq AllRows
        BY <1>2, <1>3
    <2>1. m + j \in 1..m + n + 1 /\ m + j \in 1..m + n /\ ~(m + j <= m) /\ m + j <= m + n /\ (m + j) - m = j
        BY <1>2, SMT
    <2>2. Units[m + j] = b[j]
        BY <1>10, <1>12, <2>1
    <2> QED BY <1>12, <2>1, <2>2 DEF AllRows
<1>15. \A i \in 1..m + n + 1 : i \in Nat
    BY <1>2, SMT
<1>16. \A i \in DOMAIN Units :
                 \/ i \in DOMAIN survey.sources /\ Units[i] = SourceRows(survey.sources[i])
                 \/ \E j \in DOMAIN survey.plugins :
                       i = m + j /\ Units[i] = PluginRows(survey.plugins[j])
                 \/ /\ i = m + n + 1
                    /\ Units[i] = FindingRows(hostDisk.host)
    BY <1>2, <1>3, <1>8, <1>12, <1>13
<1> QED
    BY <1>12, <1>14, <1>15, <1>16 DEF m, n

LEMMA RowParts ==
    ASSUME NEW file, NEW kind, NEW key, NEW transport, NEW observation
    PROVE  LET row == Row(file, kind, key, transport, observation)
           IN /\ row.id[1] = file /\ row.id[2] = kind /\ row.id[3] = key /\ row.id[4] = transport
              /\ row.observation = observation /\ IsRow(row)
BY DEF Row, IsRow

LEMMA ServerRowParts ==
    ASSUME NEW kind, NEW f
    PROVE  LET row == serverRow(kind, f)
           IN /\ row.id[1] = f.origin /\ row.id[2] = kind /\ row.id[3] = f.server.name
              /\ row.observation = "observed" => f.server.wrapped /\ f.origin \in WithEvidence
              /\ row.observation \in {"unknown", "observed", "uncovered"} /\ IsRow(row)
<1> DEFINE said == IF f.server.location = "unreadable" \/ f.origin \notin WithEvidence THEN "unknown"
                   ELSE IF f.server.wrapped THEN "observed" ELSE "uncovered"
<1>1. serverRow(kind, f) = Row(f.origin, kind, f.server.name, f.server.transport, said)
    BY DEF serverRow
<1>2. /\ said = "observed" => f.server.wrapped /\ f.origin \in WithEvidence
      /\ said \in {"unknown", "observed", "uncovered"}
    OBVIOUS
<1> HIDE DEF said
<1> QED
    BY <1>1, <1>2, RowParts

(* Where the rows of a source and of a report are. *)
LEMMA SourceRowPlace ==
    ASSUME NEW source, SourceFits(source), NEW row \in SourceRows(source)
    PROVE  /\ row.id[1][1] \in {"host", "registry"} /\ IsRow(row)
           /\ row.id[1][1] = "host" => source.kind = "host-config"
           /\ row.id[1][1] = "registry" => source.kind = "plugin-manifest"
           /\ source.location = "parsed" => \E f \in source.servers : row.id[3] = f.server.name
           /\ row.observation = "observed" =>
                 \E f \in source.servers : /\ row.id[1] = f.origin /\ row.id[3] = f.server.name
                                           /\ f.server.wrapped /\ f.origin \in WithEvidence
<1>1. CASE \E f \in source.servers : row = serverRow(source.kind, f)
    <2>1. PICK f \in source.servers : row = serverRow(source.kind, f)
        BY <1>1
    <2>2. source.kind = "host-config" /\ f.origin = Config
        BY <2>1 DEF SourceFits
    <2>3. Config[1] = "host"
        BY DEF Config
    <2> QED BY <2>1, <2>2, <2>3, ServerRowParts
<1>2. CASE row = Row(source.file, source.kind, "registry", "none", "unknown") /\ source.location # "parsed"
    <2>1. /\ row.id[1] = source.file /\ row.observation = "unknown" /\ IsRow(row)
        BY <1>2, RowParts
    <2>2. Config[1] = "host"
        BY DEF Config
    <2> QED BY <1>2, <2>1, <2>2 DEF SourceFits
<1> QED
    BY <1>1, <1>2 DEF SourceRows

LEMMA PluginRowPlace ==
    ASSUME NEW p, NEW host, ReportFits(p, host), NEW row \in PluginRows(p)
    PROVE  /\ row.id[1][1] \notin {"host", "registry", "settings", "finding"} /\ IsRow(row)
           /\ \/ row.id[1] = p.where
              \/ /\ p.where = PluginJson(row.id[1][1])
                 /\ \E dir, file : /\ file \notin ManifestFiles \cup {"plugin.json"} /\ dir \notin Reserved
                                   /\ row.id[1] = <<dir, file>>
           /\ row.observation = "observed" =>
                 \E f \in p.servers : /\ row.id[1] = f.origin /\ row.id[3] = f.server.name
                                      /\ f.server.wrapped /\ f.origin \in WithEvidence
<1>1. \/ p.where[1] = "name"
      \/ p.where[1] \notin Reserved
    BY DEF ReportFits, ManifestReport, PluginJsonReport, BareName, PluginJson
<1>2. CASE \E f \in p.servers : row = serverRow("plugin-manifest", f)
    <2>1. PICK f \in p.servers : row = serverRow("plugin-manifest", f)
        BY <1>2
    <2>2. /\ row.id[1] = f.origin /\ row.id[3] = f.server.name /\ IsRow(row)
          /\ row.observation = "observed" => f.server.wrapped /\ f.origin \in WithEvidence
        BY <2>1, ServerRowParts
    <2>3. CASE f.origin = p.where
        BY <1>1, <2>2, <2>3 DEF Reserved
    <2>4. ASSUME NEW dir, dir \notin Reserved, p.where = PluginJson(dir),
                 NEW file, file \notin ManifestFiles \cup {"plugin.json"}, f.origin = <<dir, file>>
          PROVE  /\ f.origin[1] \notin {"host", "registry", "settings", "finding"}
                 /\ p.where = PluginJson(f.origin[1])
        BY <2>4 DEF Reserved
    <2>5. f.origin = p.where \/ \E dir, file :
              /\ dir \notin Reserved /\ p.where = PluginJson(dir)
              /\ file \notin ManifestFiles \cup {"plugin.json"} /\ f.origin = <<dir, file>>
        BY <2>1 DEF ReportFits, ManifestReport, PluginJsonReport
    <2>6. CASE f.origin # p.where
        <3>1. PICK dir, file :
                 /\ dir \notin Reserved /\ p.where = PluginJson(dir)
                 /\ file \notin ManifestFiles \cup {"plugin.json"} /\ f.origin = <<dir, file>>
            BY <2>5, <2>6
        <3> QED BY <2>1, <2>2, <2>4, <3>1
    <2> QED BY <2>1, <2>2, <2>3, <2>6
<1>3. CASE row = Row(p.where, "plugin-manifest", p.name, "none", "unknown")
    <2>1. /\ row.id[1] = p.where /\ row.observation = "unknown" /\ IsRow(row)
        BY <1>3, RowParts
    <2> QED BY <1>1, <2>1 DEF Reserved
<1> QED
    BY <1>2, <1>3 DEF PluginRows

LEMMA FindingRowPlace ==
    ASSUME NEW host, NEW row \in FindingRows(host)
    PROVE  row.id[1][1] = "finding" /\ IsRow(row)
<1>1. PICK f : row = Row(<<"finding", f.key>>, f.kind, f.key, "none", f.observation)
    BY DEF FindingRows
<1>2. row.id[1] = <<"finding", f.key>> /\ IsRow(row)
    BY <1>1, RowParts
<1> QED
    BY <1>2

(* Two reports with a row of one file are of one place. *)
LEMMA ReportsMeet ==
    ASSUME NEW host, NEW p, ReportFits(p, host), NEW q, ReportFits(q, host),
           NEW r \in PluginRows(p), NEW t \in PluginRows(q), r.id = t.id
    PROVE  p.where = q.where
<1> DEFINE Odd(place) == \E dir, file : /\ file \notin ManifestFiles \cup {"plugin.json"} /\ dir \notin Reserved
                                        /\ place = <<dir, file>>
<1>1. \/ r.id[1] = p.where
      \/ p.where = PluginJson(r.id[1][1]) /\ Odd(r.id[1])
    BY PluginRowPlace
<1>2. \/ t.id[1] = q.where
      \/ q.where = PluginJson(t.id[1][1]) /\ Odd(t.id[1])
    BY PluginRowPlace
<1>3. ASSUME NEW w, ReportFits(w, host) PROVE ~Odd(w.where)
    <2>1. SUFFICES ASSUME NEW dir, NEW file, file \notin ManifestFiles \cup {"plugin.json"},
                          dir \notin Reserved, w.where = <<dir, file>>
                   PROVE  FALSE
        OBVIOUS
    <2>2. w.where[1] = dir /\ w.where[2] = file
        BY <2>1
    <2>3. w.where # BareName(w.name)
        BY <2>1, <2>2 DEF BareName, Reserved
    <2>4. ~ManifestReport(w)
        BY <2>1, <2>2 DEF ManifestReport
    <2>5. ~PluginJsonReport(w)
        BY <2>1, <2>2 DEF PluginJsonReport, PluginJson
    <2> QED BY <1>3, <2>3, <2>4, <2>5 DEF ReportFits
<1> HIDE DEF Odd
<1> QED
    BY <1>1, <1>2, <1>3

(* Two rows of one route come from two sources of Codex or from two reports of one place. *)
LEMMA TwinsMeet ==
    ASSUME SourcesFit(survey.sources, hostDisk.host), ReportsFit(survey.plugins, hostDisk.host), Twins
    PROVE  \/ \E i, j \in DOMAIN survey.plugins : i # j /\ survey.plugins[i].where = survey.plugins[j].where
           \/ /\ hostDisk.host = "codex"
              /\ \E i, j \in DOMAIN survey.sources : i # j /\
                    \E r \in SourceRows(survey.sources[i]), t \in SourceRows(survey.sources[j]) : r.id = t.id
<1> DEFINE m == Len(survey.sources)
           n == Len(survey.plugins)
<1>1. PICK i \in DOMAIN Units, j \in DOMAIN Units : i < j /\ RouteIds(Units[i]) \cap RouteIds(Units[j]) # {}
    BY DEF Twins
<1>2. PICK r \in Units[i], t \in Units[j] : r.id = t.id
    BY <1>1 DEF RouteIds
<1>3. /\ survey.sources \in Seq(Listed(survey.sources)) /\ survey.plugins \in Seq(Listed(survey.plugins))
      /\ \A k \in DOMAIN survey.sources : SourceFits(survey.sources[k])
      /\ \A k \in DOMAIN survey.plugins : ReportFits(survey.plugins[k], hostDisk.host)
      /\ hostDisk.host # "codex" => \A k, l \in DOMAIN survey.sources :
             k # l => survey.sources[k].kind # survey.sources[l].kind
    BY DEF SourcesFit, ReportsFit
<1> DEFINE AtSource(k) == k \in DOMAIN survey.sources /\ Units[k] = SourceRows(survey.sources[k])
           AtPlugin(k, l) == l \in DOMAIN survey.plugins /\ k = m + l /\ Units[k] = PluginRows(survey.plugins[l])
           AtFinding(k) == k = m + n + 1 /\ Units[k] = FindingRows(hostDisk.host)
<1>4. \A k \in DOMAIN Units : k \in Nat /\ (AtSource(k) \/ (\E l : AtPlugin(k, l)) \/ AtFinding(k))
    BY <1>3, UnitsAre
<1>4a. i # j
    <2>1. i \in Nat /\ j \in Nat
        BY <1>4
    <2> QED BY <1>1, <2>1, SMT
<1>5. \A k, u : AtSource(k) /\ u \in Units[k] => u.id[1][1] \in {"host", "registry"}
    BY <1>3, SourceRowPlace
<1>6. \A k, l, u : AtPlugin(k, l) /\ u \in Units[k] => u.id[1][1] \notin {"host", "registry", "finding"}
    BY <1>3, PluginRowPlace
<1>7. \A k, u : AtFinding(k) /\ u \in Units[k] => u.id[1][1] = "finding"
    BY FindingRowPlace
<1>8. CASE AtSource(i) /\ AtSource(j)
    <2>1. /\ r \in SourceRows(survey.sources[i]) /\ t \in SourceRows(survey.sources[j])
          /\ i \in DOMAIN survey.sources /\ j \in DOMAIN survey.sources /\ i # j
        BY <1>2, <1>4a, <1>8
    <2>2. survey.sources[i].kind = survey.sources[j].kind
        BY <1>2, <1>3, <2>1, SourceRowPlace
    <2> QED BY <1>2, <1>3, <2>1, <2>2
<1>9. ASSUME NEW k, NEW l, AtPlugin(i, k), AtPlugin(j, l)
      PROVE  \E a, b \in DOMAIN survey.plugins : a # b /\ survey.plugins[a].where = survey.plugins[b].where
    <2>1. /\ r \in PluginRows(survey.plugins[k]) /\ t \in PluginRows(survey.plugins[l])
          /\ k \in DOMAIN survey.plugins /\ l \in DOMAIN survey.plugins /\ i = m + k /\ j = m + l
        BY <1>2, <1>9
    <2>2. k # l
        BY <1>4a, <2>1
    <2>3. survey.plugins[k].where = survey.plugins[l].where
        BY <1>2, <1>3, <2>1, ReportsMeet
    <2> QED BY <2>1, <2>2, <2>3
<1>10. ~(AtFinding(i) /\ AtFinding(j))
    BY <1>4a
<1> HIDE DEF AtSource, AtPlugin, AtFinding
<1> QED
    BY <1>2, <1>4, <1>5, <1>6, <1>7, <1>8, <1>9, <1>10

(* What an observed row of a file stands on. *)
LEMMA ObservedRow ==
    ASSUME SourcesFit(survey.sources, hostDisk.host), ReportsFit(survey.plugins, hostDisk.host),
           NEW row \in AllRows, Surveyable(row)
    PROVE  /\ row.id[1] \in WithEvidence
           /\ \/ \E i \in DOMAIN survey.sources : \E f \in survey.sources[i].servers :
                    row.id[1] = f.origin /\ row.id[3] = f.server.name /\ f.server.wrapped
              \/ \E i \in DOMAIN survey.plugins : \E f \in survey.plugins[i].servers :
                    row.id[1] = f.origin /\ row.id[3] = f.server.name /\ f.server.wrapped
<1>1. /\ survey.sources \in Seq(Listed(survey.sources)) /\ survey.plugins \in Seq(Listed(survey.plugins))
      /\ \A k \in DOMAIN survey.sources : SourceFits(survey.sources[k])
      /\ \A k \in DOMAIN survey.plugins : ReportFits(survey.plugins[k], hostDisk.host)
    BY DEF SourcesFit, ReportsFit
<1>2. PICK k \in DOMAIN Units : row \in Units[k]
    BY DEF AllRows
<1>3. row.observation = "observed" /\ row.id[1][1] # "finding"
    BY DEF Surveyable
<1>4. \/ \E i \in DOMAIN survey.sources : row \in SourceRows(survey.sources[i])
      \/ \E i \in DOMAIN survey.plugins : row \in PluginRows(survey.plugins[i])
      \/ row \in FindingRows(hostDisk.host)
    BY <1>1, <1>2, UnitsAre
<1>5. ASSUME NEW i \in DOMAIN survey.sources, row \in SourceRows(survey.sources[i])
      PROVE  \E f \in survey.sources[i].servers : /\ row.id[1] = f.origin /\ row.id[3] = f.server.name
                                                  /\ f.server.wrapped /\ f.origin \in WithEvidence
    BY <1>1, <1>3, <1>5, SourceRowPlace
<1>6. ASSUME NEW i \in DOMAIN survey.plugins, row \in PluginRows(survey.plugins[i])
      PROVE  \E f \in survey.plugins[i].servers : /\ row.id[1] = f.origin /\ row.id[3] = f.server.name
                                                  /\ f.server.wrapped /\ f.origin \in WithEvidence
    BY <1>1, <1>3, <1>6, PluginRowPlace
<1>7. row \notin FindingRows(hostDisk.host)
    BY <1>3, FindingRowPlace
<1> QED
    BY <1>4, <1>5, <1>6, <1>7

LEMMA AllRowsAreRows ==
    ASSUME SourcesFit(survey.sources, hostDisk.host), ReportsFit(survey.plugins, hostDisk.host)
    PROVE  \A row \in AllRows : IsRow(row)
<1> TAKE row \in AllRows
<1>1. /\ survey.sources \in Seq(Listed(survey.sources)) /\ survey.plugins \in Seq(Listed(survey.plugins))
      /\ \A k \in DOMAIN survey.sources : SourceFits(survey.sources[k])
      /\ \A k \in DOMAIN survey.plugins : ReportFits(survey.plugins[k], hostDisk.host)
    BY DEF SourcesFit, ReportsFit
<1>2. PICK k \in DOMAIN Units : row \in Units[k]
    BY DEF AllRows
<1>4. \/ \E i \in DOMAIN survey.sources : row \in SourceRows(survey.sources[i])
      \/ \E i \in DOMAIN survey.plugins : row \in PluginRows(survey.plugins[i])
      \/ row \in FindingRows(hostDisk.host)
    BY <1>1, <1>2, UnitsAre
<1> QED
    BY <1>1, <1>4, SourceRowPlace, PluginRowPlace, FindingRowPlace
-----------------------------------------------------------------------------
(* The rows of a refresh. *)

LEMMA DowngradeParts ==
    ASSUME NEW row, IsRow(row)
    PROVE  downgrade(row).id = row.id /\ downgrade(row).observation = "unknown" /\ IsRow(downgrade(row))
<1> DEFINE id == row.id
           observation == row.observation
           genuine == row.genuine
<1>1. row = [id |-> id, observation |-> observation, genuine |-> genuine]
    BY DEF IsRow
<1>2. downgrade(row) = [row EXCEPT !.observation = "unknown", !.genuine = FALSE]
    BY DEF downgrade
<1> HIDE DEF id, observation, genuine
<1>3. downgrade(row) = [id |-> id, observation |-> "unknown", genuine |-> FALSE]
    BY <1>1, <1>2
<1> QED
    BY <1>3 DEF IsRow, id

LEMMA RefreshRowParts ==
    ASSUME NEW prior, IsRow(prior), NEW expired, \A row \in AllRows : IsRow(row)
    PROVE  LET row == refreshRow(prior, expired)
           IN /\ IsRow(row) /\ row.id = prior.id
              /\ row.observation = "observed" => row \in AllRows /\ SameDigest(prior, row)
<1> DEFINE next == {row \in AllRows : row.id = prior.id}
           r == CHOOSE x \in next : TRUE
<1>1. CASE next = {}
    BY <1>1, DowngradeParts DEF refreshRow
<1>2. CASE next # {}
    <2>1. r \in AllRows /\ r.id = prior.id /\ IsRow(r)
        BY <1>2
    <2>2. refreshRow(prior, expired) = IF r.observation \in {"unknown", "uncovered"} THEN r
               ELSE IF ~SameDigest(prior, r) \/ expired THEN downgrade(r) ELSE r
        BY <1>2 DEF refreshRow
    <2> HIDE DEF r, next
    <2> QED BY <2>1, <2>2, DowngradeParts
<1> QED
    BY <1>1, <1>2

LEMMA RefreshParts ==
    ASSUME RowsKept, NEW expired, \A row \in AllRows : IsRow(row)
    PROVE  /\ \A row \in refreshRouteCoverage(expired) :
                 /\ IsRow(row)
                 /\ row.observation = "observed" =>
                       /\ row \in AllRows
                       /\ row.id \in RouteIds(coverage.rows) =>
                             \E prior \in coverage.rows : prior.id = row.id /\ SameDigest(prior, row)
           /\ RouteIds(AllRows) \subseteq RouteIds(refreshRouteCoverage(expired))
<1>1. \A prior \in coverage.rows : IsRow(prior)
    BY DEF RowsKept
<1>2. ASSUME NEW row \in refreshRouteCoverage(expired)
      PROVE  /\ IsRow(row)
             /\ row.observation = "observed" =>
                   /\ row \in AllRows
                   /\ row.id \in RouteIds(coverage.rows) =>
                         \E prior \in coverage.rows : prior.id = row.id /\ SameDigest(prior, row)
    <2>1. CASE row \in AllRows /\ row.id \notin RouteIds(coverage.rows)
        BY <2>1
    <2>2. ASSUME NEW prior \in coverage.rows, row = refreshRow(prior, expired)
          PROVE  /\ IsRow(row)
                 /\ row.observation = "observed" =>
                       /\ row \in AllRows
                       /\ \E x \in coverage.rows : x.id = row.id /\ SameDigest(x, row)
        BY <1>1, <2>2, RefreshRowParts
    <2> QED BY <2>1, <2>2 DEF refreshRouteCoverage
<1>3. ASSUME NEW row \in AllRows
      PROVE  row.id \in RouteIds(refreshRouteCoverage(expired))
    <2>1. CASE row.id \in RouteIds(coverage.rows)
        <3>1. PICK prior \in coverage.rows : prior.id = row.id
            BY <2>1 DEF RouteIds
        <3>2. refreshRow(prior, expired).id = row.id
            BY <1>1, <3>1, RefreshRowParts
        <3>3. refreshRow(prior, expired) \in refreshRouteCoverage(expired)
            BY <3>1 DEF refreshRouteCoverage
        <3> QED BY <3>2, <3>3 DEF RouteIds
    <2>2. CASE row.id \notin RouteIds(coverage.rows)
        <3>1. row \in refreshRouteCoverage(expired)
            BY <2>2 DEF refreshRouteCoverage
        <3> QED BY <3>1 DEF RouteIds
    <2> QED BY <2>1, <2>2
<1>4. RouteIds(AllRows) \subseteq RouteIds(refreshRouteCoverage(expired))
    <2>1. \A id \in RouteIds(AllRows) : \E row \in AllRows : id = row.id
        BY DEF RouteIds
    <2> QED BY <1>3, <2>1
<1> QED
    BY <1>2, <1>4

(* A step of the survey's record keeps its fields. *)
LEMMA SurveyChanged ==
    ASSUME NEW s, DOMAIN s = SurveyFields, NEW key \in SurveyFields, NEW v
    PROVE  /\ DOMAIN [s EXCEPT ![key] = v] = SurveyFields
           /\ [s EXCEPT ![key] = v][key] = v
           /\ \A k \in SurveyFields : k # key => [s EXCEPT ![key] = v][k] = s[k]
OBVIOUS

(* Why a discovery fails. *)
LEMMA RefusalHasCause ==
    ASSUME EvidenceKept, Sourceless \/ Twins
    PROVE  \/ \E i, j \in DOMAIN survey.plugins :
                 i # j /\ survey.plugins[i].where = survey.plugins[j].where
           \/ /\ survey.seen.host = "codex"
              /\ \/ \E i \in DOMAIN survey.plugins : survey.plugins[i].where[1] = "name"
                 \/ \E i, j \in DOMAIN survey.seen.lines :
                       i # j /\ survey.seen.lines[i] = survey.seen.lines[j]
                 \/ survey.straddled
<1>1. /\ SourcesFit(survey.sources, hostDisk.host) /\ ReportsFit(survey.plugins, hostDisk.host)
      /\ survey.seen.host = hostDisk.host
    BY DEF EvidenceKept
<1>2. CASE Sourceless
    <2>1. PICK i \in DOMAIN survey.plugins :
             hostDisk.host = "codex" /\ survey.plugins[i].where \notin WithEvidence
        BY <1>2 DEF Sourceless
    <2>2. survey.straddled \/ survey.plugins[i].where[1] = "name"
        BY <2>1 DEF EvidenceKept
    <2> QED BY <1>1, <2>1, <2>2
<1>3. ASSUME hostDisk.host = "codex", NEW i \in DOMAIN survey.sources, NEW j \in DOMAIN survey.sources, i # j,
             NEW r \in SourceRows(survey.sources[i]), NEW t \in SourceRows(survey.sources[j]), r.id = t.id,
             ~survey.straddled
      PROVE  \E a, b \in DOMAIN survey.seen.lines : a # b /\ survey.seen.lines[a] = survey.seen.lines[b]
    <2>1. SourcesApart(survey.sources, survey.seen)
        BY <1>3 DEF EvidenceKept
    <2>2. /\ survey.sources[i].location = "parsed" /\ survey.sources[j].location = "parsed"
          /\ \A f \in survey.sources[i].servers, g \in survey.sources[j].servers :
                f.server.name = g.server.name =>
                   \E a, b \in DOMAIN survey.seen.lines : a # b /\ survey.seen.lines[a] = survey.seen.lines[b]
        BY <1>1, <1>3, <2>1 DEF SourcesApart
    <2>3. \A k \in DOMAIN survey.sources : SourceFits(survey.sources[k])
        BY <1>1 DEF SourcesFit
    <2>4. (\E f \in survey.sources[i].servers : r.id[3] = f.server.name)
          /\ \E g \in survey.sources[j].servers : t.id[3] = g.server.name
        BY <1>3, <2>2, <2>3, SourceRowPlace
    <2> QED BY <1>3, <2>2, <2>4
<1>4. CASE Twins
    <2>1. CASE \E i, j \in DOMAIN survey.plugins : i # j /\ survey.plugins[i].where = survey.plugins[j].where
        BY <2>1
    <2>2. CASE /\ hostDisk.host = "codex"
               /\ \E i, j \in DOMAIN survey.sources : i # j /\
                     \E r \in SourceRows(survey.sources[i]), t \in SourceRows(survey.sources[j]) : r.id = t.id
        BY <1>1, <1>3, <2>2
    <2> QED BY <1>1, <1>4, <2>1, <2>2, TwinsMeet
<1> QED
    BY <1>2, <1>4

(* What a row of the survey's makes of the file it is in. *)
LEMMA RowShown ==
    ASSUME NEW d, NEW f, ServerShown(d, f), f.server.wrapped, NEW id, id[1] = f.origin, id[3] = f.server.name
    PROVE  Proxied(d, id)
<1> DEFINE place == <<f.origin, "", f.server.name, "">>
<1>1. place[1] = id[1] /\ place[3] = id[3]
    OBVIOUS
<1>2. Proxied(d, place)
    BY DEF ServerShown
<1> HIDE DEF place
<1> QED
    BY <1>1, <1>2 DEF Proxied

LEMMA PluginIsHeard ==
    ASSUME ReportsFit(survey.plugins, hostDisk.host), SourcesFit(survey.sources, hostDisk.host), NEW d,
           NEW plugin, NEW i \in DOMAIN survey.plugins, Heard(d, plugin, survey.plugins[i])
    PROVE  \/ \E id \in RouteIds(AllRows) : id[1][1] \in plugin.dirs \/ id[1] = BareName(plugin.name)
           \/ NamesNone(d, plugin)
<1> DEFINE p == survey.plugins[i]
<1>1. PluginRows(p) \subseteq AllRows
    BY UnitsAre DEF ReportsFit, SourcesFit
<1>2. CASE p.location # "parsed" /\ p.state = "enabled"
             /\ (p.where[1] \in plugin.dirs \/ p.where = BareName(plugin.name))
    <2> DEFINE row == Row(p.where, "plugin-manifest", p.name, "none", "unknown")
    <2>1. row \in PluginRows(p)
        BY <1>2 DEF PluginRows
    <2>2. row.id[1] = p.where
        BY RowParts
    <2>3. row.id \in RouteIds(AllRows)
        BY <1>1, <2>1 DEF RouteIds
    <2> QED BY <1>2, <2>2, <2>3
<1>3. CASE p.location = "parsed" /\ \E f \in p.servers : f.origin[1] \in plugin.dirs
    <2>1. PICK f \in p.servers : f.origin[1] \in plugin.dirs
        BY <1>3
    <2> DEFINE row == serverRow("plugin-manifest", f)
    <2>2. row \in PluginRows(p)
        BY <1>3, <2>1 DEF PluginRows
    <2>3. row.id[1] = f.origin
        BY ServerRowParts
    <2>4. row.id \in RouteIds(AllRows)
        BY <1>1, <2>2 DEF RouteIds
    <2> QED BY <2>1, <2>3, <2>4
<1> QED
    BY <1>2, <1>3 DEF Heard

(* An observed row that a refresh keeps stands on a file nobody has written since. *)
LEMMA DigestStands ==
    ASSUME RowsKept, EvidenceKept, NEW row \in AllRows, Surveyable(row),
           NEW prior \in coverage.rows, SameDigest(prior, row)
    PROVE  /\ prior.observation = "observed"
           /\ coverage.seen.stamp[row.id[1]] = survey.seen.stamp[row.id[1]]
<1>1. prior.observation = row.observation /\ coverage.evidence = survey.evidence /\ row.observation = "observed"
    BY DEF SameDigest, Surveyable
<1>2. row.id[1] \in WithEvidence
    BY ObservedRow DEF EvidenceKept
<1>3. PICK e \in survey.evidence : e[1] = row.id[1]
    BY <1>2 DEF WithEvidence
<1>4. e[2] = survey.seen.stamp[e[1]]
    BY <1>3 DEF EvidenceKept, EvidenceFits
<1>5. e[2] = coverage.seen.stamp[e[1]]
    BY <1>1, <1>3 DEF RowsKept, EvidenceFits
<1> QED
    BY <1>1, <1>3, <1>4, <1>5

LEMMA DiscoverKeeps ==
    ASSUME SurveyKept, discoverRouteCoverage
    PROVE  SurveyKept'
<1>1. /\ survey.at = "discover" /\ hostDisk' = hostDisk
      /\ RowsKept /\ EvidenceKept /\ DiskKept /\ DOMAIN survey = SurveyFields /\ survey.straddled \in BOOLEAN
    BY DEF SurveyKept, discoverRouteCoverage
<1>2. DiskKept'
    BY <1>1 DEF DiskKept
<1>3. CASE Sourceless \/ Twins
    <2>1. survey' = [survey EXCEPT !.at = "refused"] /\ coverage' = coverage
        BY <1>3 DEF discoverRouteCoverage
    <2>2. /\ DOMAIN survey' = SurveyFields /\ survey'.at = "refused" /\ survey'.plugins = survey.plugins
          /\ survey'.seen = survey.seen /\ survey'.straddled = survey.straddled
        BY <1>1, <2>1 DEF SurveyFields
    <2>3. RowsKept'
        BY <1>1, <2>1 DEF RowsKept
    <2>4. RefusedForCause'
        BY <1>1, <1>3, <2>2, RefusalHasCause DEF RefusedForCause
    <2>5. CoverageIsHonest'
        BY <2>2, <2>4 DEF CoverageIsHonest, ObservedIsProxied, ObservedStands, NothingIsSilent
    <2> QED BY <1>2, <2>2, <2>3, <2>5 DEF SurveyKept
<1>4. CASE ~(Sourceless \/ Twins)
    <2>1. PICK refreshed \in BOOLEAN, expired \in BOOLEAN :
              /\ survey' = [survey EXCEPT !.at = "done", !.previous = coverage, !.refreshed = refreshed]
              /\ coverage' = [rows |-> IF refreshed THEN refreshRouteCoverage(expired) ELSE AllRows,
                               view |-> sanitizeCollector, evidence |-> survey.evidence,
                               seen |-> survey.seen, straddled |-> survey.straddled]
        BY <1>4 DEF discoverRouteCoverage
    <2>2. /\ DOMAIN survey' = SurveyFields /\ survey'.at = "done" /\ survey'.previous = coverage
          /\ survey'.refreshed = refreshed /\ survey'.straddled = survey.straddled
        BY <1>1, <2>1 DEF SurveyFields
    <2> DEFINE refresh == refreshRouteCoverage(expired)
    <2>3. /\ coverage'.rows = (IF refreshed THEN refresh ELSE AllRows)
          /\ coverage'.evidence = survey.evidence /\ coverage'.seen = survey.seen
        BY <2>1
    <2>4. \A row \in AllRows : IsRow(row)
        BY <1>1, AllRowsAreRows DEF EvidenceKept
    <2>5. /\ \A row \in refresh :
                 /\ IsRow(row)
                 /\ row.observation = "observed" =>
                       /\ row \in AllRows
                       /\ row.id \in RouteIds(coverage.rows) =>
                             \E prior \in coverage.rows : prior.id = row.id /\ SameDigest(prior, row)
          /\ RouteIds(AllRows) \subseteq RouteIds(refresh)
        BY <1>1, <2>4, RefreshParts
    <2> HIDE DEF refresh
    <2>6. RowsKept'
        BY <1>1, <2>3, <2>4, <2>5 DEF RowsKept, EvidenceKept, EvidenceFits
    <2>7. ObservedIsProxied'
        <3>1. SUFFICES ASSUME ~survey.straddled, NEW row \in coverage'.rows, Surveyable(row)
                       PROVE  Proxied(survey.seen, row.id)
            BY <2>2, <2>3 DEF ObservedIsProxied
        <3>2. row \in AllRows
            BY <2>3, <2>5, <3>1 DEF Surveyable
        <3>3. ServersShown(survey, survey.seen)
            BY <1>1, <3>1 DEF EvidenceKept
        <3>4. \/ \E i \in DOMAIN survey.sources : \E f \in survey.sources[i].servers :
                    row.id[1] = f.origin /\ row.id[3] = f.server.name /\ f.server.wrapped
              \/ \E i \in DOMAIN survey.plugins : \E f \in survey.plugins[i].servers :
                    row.id[1] = f.origin /\ row.id[3] = f.server.name /\ f.server.wrapped
            BY <1>1, <3>1, <3>2, ObservedRow DEF EvidenceKept
        <3>5. PICK f : ServerShown(survey.seen, f) /\ f.server.wrapped
                          /\ row.id[1] = f.origin /\ row.id[3] = f.server.name
            BY <3>3, <3>4 DEF ServersShown
        <3> QED BY <3>5, RowShown
    <2>8. ObservedStands'
        <3>1. SUFFICES ASSUME refreshed, NEW row \in coverage'.rows, Surveyable(row),
                              row.id \in RouteIds(coverage.rows)
                       PROVE  /\ \E prior \in coverage.rows :
                                    prior.id = row.id /\ prior.observation = "observed"
                              /\ coverage.seen.stamp[row.id[1]] = survey.seen.stamp[row.id[1]]
            BY <2>2, <2>3 DEF ObservedStands
        <3>2. row \in AllRows /\ \E prior \in coverage.rows : prior.id = row.id /\ SameDigest(prior, row)
            BY <2>3, <2>5, <3>1 DEF Surveyable
        <3> QED BY <1>1, <3>1, <3>2, DigestStands
    <2>9. NothingIsSilent'
        <3>1. SUFFICES ASSUME ~survey.straddled, NEW plugin \in EnabledIn(survey.seen)
                       PROVE  \/ \E row \in coverage'.rows :
                                    row.id[1][1] \in plugin.dirs \/ row.id[1] = BareName(plugin.name)
                              \/ NamesNone(survey.seen, plugin)
            BY <2>2, <2>3 DEF NothingIsSilent, NamesNone
        <3>2. PICK i \in DOMAIN survey.plugins : Heard(survey.seen, plugin, survey.plugins[i])
            BY <1>1, <3>1 DEF EvidenceKept
        <3>3. \/ \E id \in RouteIds(AllRows) : id[1][1] \in plugin.dirs \/ id[1] = BareName(plugin.name)
              \/ NamesNone(survey.seen, plugin)
            BY <1>1, <3>2, PluginIsHeard DEF EvidenceKept
        <3>4. \A id \in RouteIds(AllRows) : \E row \in coverage'.rows : row.id = id
            BY <2>3, <2>5 DEF RouteIds
        <3> QED BY <3>3, <3>4
    <2>10. RefusedForCause'
        BY <2>2 DEF RefusedForCause
    <2> QED BY <1>2, <2>2, <2>6, <2>7, <2>8, <2>9, <2>10 DEF SurveyKept, CoverageIsHonest
<1> QED
    BY <1>3, <1>4

LEMMA SurveyStarts ==
    ASSUME SurveyInit
    PROVE  SurveyKept
<1>1. hostDisk \in Surveyed /\ survey = SurveyIdle /\ coverage = NoCoverage
    BY DEF SurveyInit, SurveyInitWith
<1>2. DiskKept
    BY <1>1, SurveyAssumption DEF DiskKept
<1>3. RowsKept
    BY <1>1 DEF RowsKept, NoCoverage, EvidenceFits
<1>4. DOMAIN survey = SurveyFields /\ survey.straddled \in BOOLEAN /\ survey.at = "idle"
    BY <1>1 DEF SurveyIdle, SurveyFields
<1>5. CoverageIsHonest
    BY <1>4 DEF CoverageIsHonest, ObservedIsProxied, ObservedStands, NothingIsSilent, RefusedForCause
<1> QED
    BY <1>2, <1>3, <1>4, <1>5 DEF SurveyKept

LEMMA SurveyStutters ==
    ASSUME SurveyKept, UNCHANGED surveyVars
    PROVE  SurveyKept'
<1>1. hostDisk' = hostDisk /\ survey' = survey /\ coverage' = coverage /\ WithEvidence' = WithEvidence
    BY DEF surveyVars, WithEvidence
<1>2. DiskKept' /\ RowsKept'
    BY <1>1 DEF SurveyKept, DiskKept, RowsKept
<1>3. ReadingKept' = ReadingKept
    BY <1>1 DEF ReadingKept, Exists, Awaited, resolveEnablement
<1>4. EvidenceKept' = EvidenceKept
    BY <1>1 DEF EvidenceKept
<1>5. CoverageIsHonest' = CoverageIsHonest
    BY <1>1 DEF CoverageIsHonest, ObservedIsProxied, ObservedStands, NothingIsSilent, RefusedForCause
<1> QED
    BY <1>1, <1>2, <1>3, <1>4, <1>5 DEF SurveyKept
-----------------------------------------------------------------------------
(* The user edits. *)

LEMMA MapRewritten ==
    ASSUME DiskFits(hostDisk), NEW other, DiskFits(other), DOMAIN other.map = DOMAIN hostDisk.map,
           NEW file \in DOMAIN hostDisk.map, NEW stamp, NEW present,
           hostDisk' = [hostDisk EXCEPT !.map[file] = other.map[file], !.stamp = stamp, !.present = present]
    PROVE  /\ DiskFits(hostDisk)' /\ hostDisk'.host = hostDisk.host
           /\ DOMAIN hostDisk'.plugin = DOMAIN hostDisk.plugin /\ DOMAIN hostDisk'.map = DOMAIN hostDisk.map
<1> DEFINE map == [hostDisk.map EXCEPT ![file] = other.map[file]]
<1>1. DOMAIN hostDisk = {"host", "lines", "map", "plugin", "scopes", "registry", "present", "stamp"}
    BY DEF DiskFits
<1>2. /\ DOMAIN hostDisk' = DOMAIN hostDisk /\ hostDisk'.map = map /\ hostDisk'.host = hostDisk.host
      /\ hostDisk'.lines = hostDisk.lines /\ hostDisk'.plugin = hostDisk.plugin
      /\ hostDisk'.scopes = hostDisk.scopes /\ hostDisk'.registry = hostDisk.registry
    BY <1>1
<1>3. /\ DOMAIN map = DOMAIN hostDisk.map
      /\ \A f \in DOMAIN map : map[f] = (IF f = file THEN other.map[file] ELSE hostDisk.map[f])
    OBVIOUS
<1>4. \A f \in DOMAIN map : map[f].form \in {"missing", "malformed", "named", "bare"}
    BY <1>3 DEF DiskFits
<1> HIDE DEF map
<1>5. DiskFits(hostDisk')
    BY <1>1, <1>2, <1>3, <1>4 DEF DiskFits
<1> QED
    BY <1>2, <1>3, <1>5

LEMMA RegistryRewritten ==
    ASSUME DiskFits(hostDisk), NEW other, DiskFits(other), DOMAIN other.plugin = DOMAIN hostDisk.plugin,
           NEW root \in DOMAIN hostDisk.registry, NEW stamp,
           hostDisk' = [hostDisk EXCEPT !.registry[root] = other.registry[root], !.stamp = stamp]
    PROVE  /\ DiskFits(hostDisk)' /\ hostDisk'.host = hostDisk.host
           /\ DOMAIN hostDisk'.plugin = DOMAIN hostDisk.plugin /\ DOMAIN hostDisk'.map = DOMAIN hostDisk.map
<1> DEFINE registry == [hostDisk.registry EXCEPT ![root] = other.registry[root]]
<1>1. DOMAIN hostDisk = {"host", "lines", "map", "plugin", "scopes", "registry", "present", "stamp"}
    BY DEF DiskFits
<1>2. /\ DOMAIN hostDisk' = DOMAIN hostDisk /\ hostDisk'.registry = registry /\ hostDisk'.host = hostDisk.host
      /\ hostDisk'.lines = hostDisk.lines /\ hostDisk'.plugin = hostDisk.plugin
      /\ hostDisk'.scopes = hostDisk.scopes /\ hostDisk'.map = hostDisk.map
    BY <1>1
<1>3. /\ DOMAIN registry = DOMAIN hostDisk.registry
      /\ \A f \in DOMAIN registry : registry[f] = (IF f = root THEN other.registry[root] ELSE hostDisk.registry[f])
    OBVIOUS
<1>4. DOMAIN registry = {"cache", "home"}
      /\ \A r \in {"cache", "home"} : registry[r].installs \in Seq(Installs(DOMAIN hostDisk.plugin))
    BY <1>3 DEF DiskFits
<1> HIDE DEF registry
<1>5. DiskFits(hostDisk')
    BY <1>1, <1>2, <1>4 DEF DiskFits
<1> QED
    BY <1>2, <1>5

LEMMA LinesRewritten ==
    ASSUME DiskFits(hostDisk), NEW other, DiskFits(other), NEW stamp,
           hostDisk' = [hostDisk EXCEPT !.lines = other.lines, !.stamp = stamp]
    PROVE  /\ DiskFits(hostDisk)' /\ hostDisk'.host = hostDisk.host
           /\ DOMAIN hostDisk'.plugin = DOMAIN hostDisk.plugin /\ DOMAIN hostDisk'.map = DOMAIN hostDisk.map
<1>1. DOMAIN hostDisk = {"host", "lines", "map", "plugin", "scopes", "registry", "present", "stamp"}
    BY DEF DiskFits
<1>2. /\ DOMAIN hostDisk' = DOMAIN hostDisk /\ hostDisk'.registry = hostDisk.registry
      /\ hostDisk'.host = hostDisk.host
      /\ hostDisk'.lines = other.lines /\ hostDisk'.plugin = hostDisk.plugin
      /\ hostDisk'.scopes = hostDisk.scopes /\ hostDisk'.map = hostDisk.map
    BY <1>1
<1>3. other.lines \in Seq(LineRecords)
    BY DEF DiskFits
<1>5. DiskFits(hostDisk')
    BY <1>1, <1>2, <1>3 DEF DiskFits
<1> QED
    BY <1>2, <1>5

LEMMA ScopesRewritten ==
    ASSUME DiskFits(hostDisk), NEW other, DiskFits(other), NEW i \in 1..3, NEW stamp,
           hostDisk' = [hostDisk EXCEPT !.scopes[i] = other.scopes[i], !.stamp = stamp]
    PROVE  /\ DiskFits(hostDisk)' /\ hostDisk'.host = hostDisk.host
           /\ DOMAIN hostDisk'.plugin = DOMAIN hostDisk.plugin /\ DOMAIN hostDisk'.map = DOMAIN hostDisk.map
<1> DEFINE scopes == [hostDisk.scopes EXCEPT ![i] = other.scopes[i]]
<1>1. DOMAIN hostDisk = {"host", "lines", "map", "plugin", "scopes", "registry", "present", "stamp"}
    BY DEF DiskFits
<1>2. /\ DOMAIN hostDisk' = DOMAIN hostDisk /\ hostDisk'.registry = hostDisk.registry
      /\ hostDisk'.host = hostDisk.host
      /\ hostDisk'.lines = hostDisk.lines /\ hostDisk'.plugin = hostDisk.plugin
      /\ hostDisk'.scopes = scopes /\ hostDisk'.map = hostDisk.map
    BY <1>1
<1>3. scopes \in [1..3 -> [PluginNames -> Enablements]]
    BY DEF DiskFits
<1> HIDE DEF scopes
<1>5. DiskFits(hostDisk')
    BY <1>1, <1>2, <1>3 DEF DiskFits
<1> QED
    BY <1>2, <1>5

LEMMA PluginRewritten ==
    ASSUME DiskFits(hostDisk), NEW other, DiskFits(other), DOMAIN other.map = DOMAIN hostDisk.map,
           DOMAIN other.plugin = DOMAIN hostDisk.plugin,
           NEW dir \in DOMAIN hostDisk.plugin, NEW stamp, NEW present,
           hostDisk' = [hostDisk EXCEPT !.plugin[dir] = other.plugin[dir], !.stamp = stamp, !.present = present]
    PROVE  /\ DiskFits(hostDisk)' /\ hostDisk'.host = hostDisk.host
           /\ DOMAIN hostDisk'.plugin = DOMAIN hostDisk.plugin /\ DOMAIN hostDisk'.map = DOMAIN hostDisk.map
<1> DEFINE plugin == [hostDisk.plugin EXCEPT ![dir] = other.plugin[dir]]
           Fits(json, d) ==
                /\ \A f \in ManifestFiles \cup json.pointers : <<d, f>> \in DOMAIN hostDisk.map
                /\ json.default \in Enablements /\ "plugin.json" \notin json.pointers
                /\ json.declares \in {"nothing", "map", "odd", "pointers"}
                /\ json.declares = "pointers" => json.pointers # {}
<1>1. DOMAIN hostDisk = {"host", "lines", "map", "plugin", "scopes", "registry", "present", "stamp"}
    BY DEF DiskFits
<1>2. /\ DOMAIN hostDisk' = DOMAIN hostDisk /\ hostDisk'.registry = hostDisk.registry
      /\ hostDisk'.host = hostDisk.host
      /\ hostDisk'.lines = hostDisk.lines /\ hostDisk'.plugin = plugin
      /\ hostDisk'.scopes = hostDisk.scopes /\ hostDisk'.map = hostDisk.map
    BY <1>1
<1>3. /\ DOMAIN plugin = DOMAIN hostDisk.plugin
      /\ \A f \in DOMAIN plugin : plugin[f] = (IF f = dir THEN other.plugin[dir] ELSE hostDisk.plugin[f])
    OBVIOUS
<1>4. \A f \in DOMAIN plugin : Fits(plugin[f], f)
    <2>1. (\A f \in DOMAIN hostDisk.plugin : Fits(hostDisk.plugin[f], f)) /\ Fits(other.plugin[dir], dir)
        BY DEF DiskFits
    <2> HIDE DEF Fits, plugin
    <2> QED BY <1>3, <2>1
<1> HIDE DEF plugin
<1>5. DiskFits(hostDisk')
    <2>1. /\ DOMAIN hostDisk' = {"host", "lines", "map", "plugin", "scopes", "registry", "present", "stamp"}
          /\ hostDisk'.host \in {"codex", "claude-code"} /\ hostDisk'.lines \in Seq(LineRecords)
          /\ DOMAIN hostDisk'.plugin \cap {"host", "registry", "settings", "name", "finding"} = {}
          /\ hostDisk'.host = "codex" => {"source", "cache"} \subseteq DOMAIN hostDisk'.plugin
          /\ \A file \in DOMAIN hostDisk'.map : hostDisk'.map[file].form \in {"missing", "malformed", "named", "bare"}
          /\ DOMAIN hostDisk'.registry = {"cache", "home"}
          /\ \A root \in {"cache", "home"} : hostDisk'.registry[root].installs \in Seq(Installs(DOMAIN hostDisk'.plugin))
          /\ hostDisk'.scopes \in [1..3 -> [PluginNames -> Enablements]]
        BY <1>1, <1>2, <1>3 DEF DiskFits
    <2>2. \A d \in DOMAIN hostDisk'.plugin :
             /\ \A f \in ManifestFiles \cup hostDisk'.plugin[d].pointers : <<d, f>> \in DOMAIN hostDisk'.map
             /\ hostDisk'.plugin[d].default \in Enablements /\ "plugin.json" \notin hostDisk'.plugin[d].pointers
             /\ hostDisk'.plugin[d].declares \in {"nothing", "map", "odd", "pointers"}
             /\ hostDisk'.plugin[d].declares = "pointers" => hostDisk'.plugin[d].pointers # {}
        BY <1>2, <1>4
    <2> QED BY <2>1, <2>2 DEF DiskFits
<1> QED
    BY <1>2, <1>3, <1>5

LEMMA EditKeepsDisk ==
    ASSUME DiskKept, EditDisk
    PROVE  /\ DiskKept' /\ hostDisk'.host = hostDisk.host
           /\ DOMAIN hostDisk'.plugin = DOMAIN hostDisk.plugin
<1>1. PICK other \in {d \in Surveyed : d.host = hostDisk.host} :
          \/ \E file \in DOMAIN hostDisk.map : hostDisk' = [hostDisk EXCEPT
                !.map[file] = other.map[file], !.stamp = Rewritten(file),
                !.present = IF file = Config \/ other.map[file].form = "missing" THEN @
                            ELSE [@ EXCEPT ![file[1]] = TRUE]]
          \/ \E root \in DOMAIN hostDisk.registry : hostDisk' = [hostDisk EXCEPT
                !.registry[root] = other.registry[root], !.stamp = Rewritten(Registry(root))]
          \/ hostDisk' = [hostDisk EXCEPT !.lines = other.lines, !.stamp = Rewritten(Config)]
          \/ \E i \in 1..3 : hostDisk' = [hostDisk EXCEPT
                !.scopes[i] = other.scopes[i], !.stamp = Rewritten(<<"settings", Scopes[i]>>)]
          \/ \E dir \in DOMAIN hostDisk.plugin : hostDisk' = [hostDisk EXCEPT
                !.plugin[dir] = other.plugin[dir], !.stamp = Rewritten(PluginJson(dir)),
                !.present = IF other.plugin[dir].form = "missing" THEN @ ELSE [@ EXCEPT ![dir] = TRUE]]
    BY Zenon DEF EditDisk
<1>2. PICK e \in Surveyed : /\ e.host = hostDisk.host /\ DOMAIN e.plugin = DOMAIN hostDisk.plugin
                            /\ DOMAIN e.map = DOMAIN hostDisk.map
    BY DEF DiskKept
<1>3. /\ DiskFits(hostDisk) /\ DiskFits(other)
      /\ DOMAIN other.plugin = DOMAIN hostDisk.plugin /\ DOMAIN other.map = DOMAIN hostDisk.map
    BY <1>1, <1>2, SurveyAssumption DEF DiskKept
<1> DEFINE Good == /\ DiskFits(hostDisk)' /\ hostDisk'.host = hostDisk.host
                   /\ DOMAIN hostDisk'.plugin = DOMAIN hostDisk.plugin /\ DOMAIN hostDisk'.map = DOMAIN hostDisk.map
<1>4. ASSUME NEW file \in DOMAIN hostDisk.map, hostDisk' = [hostDisk EXCEPT
                !.map[file] = other.map[file], !.stamp = Rewritten(file),
                !.present = IF file = Config \/ other.map[file].form = "missing" THEN @
                            ELSE [@ EXCEPT ![file[1]] = TRUE]]
      PROVE  Good
    <2> DEFINE stamp == Rewritten(file)
               present == IF file = Config \/ other.map[file].form = "missing" THEN hostDisk.present
                          ELSE [hostDisk.present EXCEPT ![file[1]] = TRUE]
    <2>1. hostDisk' = [hostDisk EXCEPT !.map[file] = other.map[file], !.stamp = stamp, !.present = present]
        BY <1>4
    <2> HIDE DEF stamp, present
    <2> QED BY <1>3, <2>1, MapRewritten
<1>5. ASSUME NEW root \in DOMAIN hostDisk.registry, hostDisk' = [hostDisk EXCEPT
                !.registry[root] = other.registry[root], !.stamp = Rewritten(Registry(root))]
      PROVE  Good
    <2> DEFINE stamp == Rewritten(Registry(root))
    <2>1. hostDisk' = [hostDisk EXCEPT !.registry[root] = other.registry[root], !.stamp = stamp]
        BY <1>5
    <2> HIDE DEF stamp
    <2> QED BY <1>3, <2>1, RegistryRewritten
<1>6. ASSUME hostDisk' = [hostDisk EXCEPT !.lines = other.lines, !.stamp = Rewritten(Config)]
      PROVE  Good
    <2> DEFINE stamp == Rewritten(Config)
    <2>1. hostDisk' = [hostDisk EXCEPT !.lines = other.lines, !.stamp = stamp]
        BY <1>6
    <2> HIDE DEF stamp
    <2> QED BY <1>3, <2>1, LinesRewritten
<1>7. ASSUME NEW i \in 1..3, hostDisk' = [hostDisk EXCEPT
                !.scopes[i] = other.scopes[i], !.stamp = Rewritten(<<"settings", Scopes[i]>>)]
      PROVE  Good
    <2> DEFINE stamp == Rewritten(<<"settings", Scopes[i]>>)
    <2>1. hostDisk' = [hostDisk EXCEPT !.scopes[i] = other.scopes[i], !.stamp = stamp]
        BY <1>7
    <2> HIDE DEF stamp
    <2> QED BY <1>3, <2>1, ScopesRewritten
<1>8. ASSUME NEW dir \in DOMAIN hostDisk.plugin, hostDisk' = [hostDisk EXCEPT
                !.plugin[dir] = other.plugin[dir], !.stamp = Rewritten(PluginJson(dir)),
                !.present = IF other.plugin[dir].form = "missing" THEN @ ELSE [@ EXCEPT ![dir] = TRUE]]
      PROVE  Good
    <2> DEFINE stamp == Rewritten(PluginJson(dir))
               present == IF other.plugin[dir].form = "missing" THEN hostDisk.present
                          ELSE [hostDisk.present EXCEPT ![dir] = TRUE]
    <2>1. hostDisk' = [hostDisk EXCEPT !.plugin[dir] = other.plugin[dir], !.stamp = stamp, !.present = present]
        BY <1>8
    <2> HIDE DEF stamp, present
    <2> QED BY <1>3, <2>1, PluginRewritten
<1>9. Good
    <2> HIDE DEF Good
    <2> QED BY <1>1, <1>4, <1>5, <1>6, <1>7, <1>8
<1> QED
    BY <1>2, <1>9 DEF DiskKept

LEMMA EditKeeps ==
    ASSUME SurveyKept, EditDisk
    PROVE  SurveyKept'
<1>1. DiskKept' /\ hostDisk'.host = hostDisk.host /\ DOMAIN hostDisk'.plugin = DOMAIN hostDisk.plugin
    BY EditKeepsDisk DEF SurveyKept
<1>2. survey' = [survey EXCEPT !.straddled = survey.straddled \/ survey.at = "plugins"] /\ coverage' = coverage
    BY DEF EditDisk
<1>3. DOMAIN survey = SurveyFields /\ survey.straddled \in BOOLEAN
    BY DEF SurveyKept
<1>4. /\ DOMAIN survey' = SurveyFields /\ survey'.at = survey.at /\ survey'.sources = survey.sources
      /\ survey'.pending = survey.pending /\ survey'.plugins = survey.plugins
      /\ survey'.inspected = survey.inspected /\ survey'.evidence = survey.evidence
      /\ survey'.seen = survey.seen /\ survey'.refreshed = survey.refreshed /\ survey'.previous = survey.previous
      /\ survey'.straddled \in BOOLEAN
      /\ survey.at = "plugins" => survey'.straddled = TRUE
      /\ survey.at # "plugins" => survey'.straddled = survey.straddled
    BY <1>2, <1>3 DEF SurveyFields
<1>5. RowsKept'
    BY <1>2 DEF SurveyKept, RowsKept
<1>6. survey.at = "plugins" => ReadingKept'
    BY <1>1, <1>4 DEF SurveyKept, ReadingKept, PendingFits
<1>7. WithEvidence' = WithEvidence
    BY <1>4 DEF WithEvidence
<1>8. ASSUME survey.at = "discover" PROVE EvidenceKept'
    <2>1. EvidenceKept
        BY <1>8 DEF SurveyKept
    <2>2. survey'.straddled = survey.straddled
        BY <1>4, <1>8
    <2> QED BY <1>1, <1>4, <1>7, <2>1, <2>2 DEF EvidenceKept, ServersShown
<1>9. CoverageIsHonest'
    <2>1. ObservedIsProxied' /\ ObservedStands' /\ NothingIsSilent'
        BY <1>2, <1>4 DEF SurveyKept, CoverageIsHonest, ObservedIsProxied, ObservedStands, NothingIsSilent
    <2>2. RefusedForCause'
        BY <1>4 DEF SurveyKept, CoverageIsHonest, RefusedForCause
    <2> QED BY <2>1, <2>2 DEF CoverageIsHonest
<1> QED
    BY <1>1, <1>4, <1>5, <1>6, <1>8, <1>9 DEF SurveyKept

(* What has been read is on the disk whose files are the evidence. *)
LEMMA CollectKeeps ==
    ASSUME SurveyKept, collectRouteSourceEvidence
    PROVE  SurveyKept'
<1>1. /\ survey.at = "plugins" /\ survey.pending = <<>> /\ hostDisk' = hostDisk /\ coverage' = coverage
      /\ DOMAIN survey = SurveyFields /\ survey.straddled \in BOOLEAN /\ ReadingKept
    BY DEF collectRouteSourceEvidence, SurveyKept
<1> DEFINE pairs == {<<file, hostDisk.stamp[file]>> : file \in {f \in survey.inspected : Exists(f)}}
<1>2. survey' = [survey EXCEPT !.at = "discover", !.seen = hostDisk, !.evidence = pairs]
    BY DEF collectRouteSourceEvidence
<1>3. (\A e \in pairs : e[2] = hostDisk.stamp[e[1]])
      /\ \A f \in survey.inspected : Exists(f) => \E e \in pairs : e[1] = f
    <2>1. ASSUME NEW f \in survey.inspected, Exists(f) PROVE \E e \in pairs : e[1] = f
        <3>1. <<f, hostDisk.stamp[f]>> \in pairs /\ <<f, hostDisk.stamp[f]>>[1] = f
            BY <2>1
        <3> QED BY <3>1, Zenon
    <2>2. ASSUME NEW e \in pairs PROVE e[2] = hostDisk.stamp[e[1]]
        <3>1. PICK f \in survey.inspected : e = <<f, hostDisk.stamp[f]>>
            OBVIOUS
        <3> QED BY <3>1
    <2> QED BY <2>1, <2>2
<1> HIDE DEF pairs
<1>4. /\ DOMAIN survey' = SurveyFields /\ survey'.at = "discover" /\ survey'.sources = survey.sources
      /\ survey'.plugins = survey.plugins /\ survey'.evidence = pairs /\ survey'.seen = hostDisk
      /\ survey'.straddled = survey.straddled
    BY <1>1, <1>2 DEF SurveyFields
<1>5. \A f \in survey.inspected : Exists(f) => f \in WithEvidence'
    BY <1>3, <1>4 DEF WithEvidence
<1>6. EvidenceFits(pairs, hostDisk)
    BY <1>3 DEF EvidenceFits
<1>7. EvidenceKept'
    <2>1. \A plugin \in EnabledIn(hostDisk) : ~survey.straddled =>
             \E i \in DOMAIN survey.plugins : Heard(hostDisk, plugin, survey.plugins[i])
        <3>1. DOMAIN survey.pending = {}
            BY <1>1
        <3> QED BY <1>1, <3>1 DEF ReadingKept
    <2>2. ~survey.straddled =>
            (hostDisk.host = "codex" => \A i \in DOMAIN survey.plugins :
                survey.plugins[i].where[1] = "name" \/ survey.plugins[i].where \in WithEvidence')
        BY <1>1, <1>5 DEF ReadingKept
    <2> QED BY <1>1, <1>4, <1>6, <2>1, <2>2 DEF ReadingKept, EvidenceKept, ServersShown
<1>8. DiskKept' /\ RowsKept'
    BY <1>1 DEF SurveyKept, DiskKept, RowsKept
<1>9. CoverageIsHonest'
    BY <1>4 DEF CoverageIsHonest, ObservedIsProxied, ObservedStands, NothingIsSilent, RefusedForCause
<1> QED
    BY <1>1, <1>4, <1>7, <1>8, <1>9 DEF SurveyKept

LEMMA FromParts ==
    ASSUME NEW file, NEW servers, NEW f \in From(file, servers)
    PROVE  /\ f.origin = file
           /\ \E s \in servers : /\ f.server.name = s.name
                                 /\ f.server.wrapped => s.transport = "stdio" /\ s.wrapped
<1>1. PICK s \in servers : f = [server |-> serverFromEntries(s), origin |-> file]
    BY DEF From
<1>2. f.origin = file /\ f.server = serverFromEntries(s)
    BY <1>1
<1>3. serverFromEntries(s).name = s.name /\ (serverFromEntries(s).wrapped => s.transport = "stdio" /\ s.wrapped)
    BY DEF serverFromEntries
<1> QED
    BY <1>2, <1>3

LEMMA ManifestShown ==
    ASSUME NEW file, file[2] # "plugin.json", hostDisk.host = "codex" => file # Config,
           NEW f \in analyzePluginManifest(file).servers
    PROVE  f.origin = file /\ ServerShown(hostDisk, f)
<1>1. f \in From(file, hostDisk.map[file].servers)
    BY DEF analyzePluginManifest
<1>2. PICK s \in hostDisk.map[file].servers :
         f.server.name = s.name /\ (f.server.wrapped => s.transport = "stdio" /\ s.wrapped)
    BY <1>1, FromParts
<1>3. f.origin = file
    BY <1>1, FromParts
<1> DEFINE id == <<f.origin, "", f.server.name, "">>
<1>4. id[1] = file /\ id[3] = s.name
    BY <1>2, <1>3
<1> HIDE DEF id
<1>5. f.server.wrapped => Proxied(hostDisk, id)
    BY <1>2, <1>4 DEF Proxied
<1> QED
    BY <1>3, <1>5 DEF ServerShown, id
-----------------------------------------------------------------------------
(* The sections of one root keep their headers. *)
LEMMA OfRootAt ==
    ASSUME DiskFits(hostDisk), NEW root, root # "other"
    PROVE  LET list == OfRoot(root)
               lines == hostDisk.lines
           IN /\ list \in Seq(SectionRecords)
              /\ \E at \in [DOMAIN list -> DOMAIN lines] :
                    /\ \A i \in DOMAIN list : list[i].root = root /\ SectionFrom(lines, list[i], at[i], Len(lines))
                    /\ \A i, j \in DOMAIN list : i # j => at[i] # at[j]
                    /\ \A h \in DOMAIN lines : lines[h].kind = "header" /\ lines[h].root = root =>
                          \E i \in DOMAIN list : at[i] = h
<1> DEFINE lines == hostDisk.lines
           n == Len(lines)
           list == OfRoot(root)
           all == Sections
           chosen == {section \in Listed(all) : section.root = root}
<1>1. lines \in Seq(LineRecords)
    BY DEF DiskFits
<1>2. DOMAIN lines = 1..n /\ n \in Nat
    BY <1>1, LenProperties
<1>3. all \in Seq(SectionRecords)
    BY <1>1, SectionsStand
<1>4. PICK at : SectionsAt(lines, all, n, at)
    BY <1>1, SectionsStand
<1>5. list = Among(all, chosen)
    BY DEF OfRoot
<1> HIDE DEF list, all, lines, n
<1>6. list \in Seq(SectionRecords) /\ Picks(all, chosen, Len(all), list)
    BY <1>3, <1>5, AmongPicks
<1>7. DOMAIN all = 1..Len(all) /\ Len(all) \in Nat /\ DOMAIN list = 1..Len(list) /\ Len(list) \in Nat
    BY <1>3, <1>6, LenProperties
<1>8. PICK pick \in [DOMAIN list -> DOMAIN all] :
         /\ \A i \in DOMAIN list : list[i] = all[pick[i]] /\ all[pick[i]] \in chosen
         /\ \A i, j \in DOMAIN list : i < j => pick[i] < pick[j]
         /\ \A h \in DOMAIN all : all[h] \in chosen => \E i \in DOMAIN list : pick[i] = h
    BY <1>6, <1>7 DEF Picks
<1>9. /\ at \in [DOMAIN all -> 1..n]
      /\ \A i \in DOMAIN all : SectionFrom(lines, all[i], at[i], n)
      /\ \A i, j \in DOMAIN all : i < j => at[i] < at[j]
      /\ \A h \in 1..n : lines[h].kind = "header" /\ lines[h].root # "other" => \E i \in DOMAIN all : at[i] = h
    BY <1>4 DEF SectionsAt
<1> DEFINE to == [i \in DOMAIN list |-> at[pick[i]]]
<1>10. to \in [DOMAIN list -> DOMAIN lines]
    BY <1>2, <1>8, <1>9
<1>11. \A i \in DOMAIN list : to[i] = at[pick[i]] /\ pick[i] \in DOMAIN all
    BY <1>8
<1> HIDE DEF to
<1>12. \A i \in DOMAIN list : list[i].root = root /\ SectionFrom(lines, list[i], to[i], n)
    BY <1>8, <1>9, <1>11
<1>13. \A i, j \in DOMAIN list : i < j => to[i] < to[j]
    BY <1>8, <1>9, <1>11
<1>14. \A i, j \in DOMAIN list : i # j => to[i] # to[j]
    <2>1. \A i, j \in DOMAIN list : i # j => i < j \/ j < i
        BY <1>7, SMT
    <2>2. \A i \in DOMAIN list : to[i] \in Nat
        BY <1>2, <1>10, SMT
    <2> QED BY <1>13, <2>1, <2>2, SMT
<1>15. ASSUME NEW h \in DOMAIN lines, lines[h].kind = "header", lines[h].root = root
       PROVE  \E i \in DOMAIN list : to[i] = h
    <2>1. PICK k \in DOMAIN all : at[k] = h
        BY <1>2, <1>9, <1>15
    <2>2. all[k] \in chosen
        BY <1>9, <1>15, <2>1 DEF SectionFrom, Listed
    <2> QED BY <1>8, <1>11, <2>1, <2>2
<1> QED
    BY <1>6, <1>10, <1>12, <1>14, <1>15 DEF list, lines, n

LEMMA SectionShown ==
    ASSUME DiskFits(hostDisk), hostDisk.host = "codex", NEW section, NEW a \in DOMAIN hostDisk.lines,
           SectionFrom(hostDisk.lines, section, a, Len(hostDisk.lines)), section.root = "mcp_servers",
           NEW f \in From(Config, {SectionServer(section)})
    PROVE  /\ f.origin = Config /\ f.server.name = section.name /\ ServerShown(hostDisk, f)
           /\ hostDisk.lines[a] = [kind |-> "header", root |-> "mcp_servers", name |-> section.name]
<1> DEFINE lines == hostDisk.lines
<1>1. lines \in Seq(LineRecords) /\ DOMAIN lines = 1..Len(lines) /\ Len(lines) \in Nat
    BY LenProperties DEF DiskFits
<1>2. \A j \in 1..Len(lines) : lines[j] \in LineRecords
    BY <1>1
<1>3. lines[a] = [kind |-> "header", root |-> "mcp_servers", name |-> section.name]
    <2>1. lines[a].kind = "header" /\ lines[a].root = "mcp_servers" /\ lines[a].name = section.name
        BY DEF SectionFrom
    <2>2. lines[a] \in [kind : {"header"}, root : STRING, name : STRING]
        BY <1>1, <1>2, <2>1 DEF LineRecords
    <2> QED BY <2>1, <2>2
<1>4. /\ f.origin = Config /\ f.server.name = section.name
      /\ f.server.wrapped => "proxied" \in section.entries
    <2>1. /\ f.origin = Config /\ f.server.name = SectionServer(section).name
          /\ f.server.wrapped => SectionServer(section).wrapped
        BY FromParts
    <2>2. SectionServer(section).name = section.name
          /\ SectionServer(section).wrapped = ("proxied" \in section.entries)
        BY DEF SectionServer
    <2> QED BY <2>1, <2>2
<1>5. ASSUME f.server.wrapped PROVE Proxied(hostDisk, <<f.origin, "", f.server.name, "">>)
    <2> DEFINE id == <<f.origin, "", f.server.name, "">>
    <2>1. id[1] = Config /\ id[3] = section.name
        BY <1>4
    <2> HIDE DEF id
    <2>2. PICK j \in Stretch(lines, a, Len(lines)) : lines[j].kind = "entry" /\ lines[j].entry = "proxied"
        BY <1>4, <1>5 DEF SectionFrom
    <2>3. j \in 1..Len(lines) /\ a < j /\ \A k \in a + 1 .. j : lines[k].kind # "header"
        BY <1>1, <2>2, SMT DEF Stretch
    <2>4. lines[j] = [kind |-> "entry", entry |-> "proxied"]
        <3>1. lines[j] \in [kind : {"entry"}, entry : STRING]
            BY <1>2, <2>2, <2>3 DEF LineRecords
        <3> QED BY <2>2, <3>1
    <2>5. \E i, k \in DOMAIN lines :
             /\ i < k /\ lines[k] = [kind |-> "entry", entry |-> "proxied"]
             /\ lines[i] = [kind |-> "header", root |-> "mcp_servers", name |-> id[3]]
             /\ \A h \in i + 1 .. k : lines[h].kind # "header"
        BY <1>1, <1>3, <2>1, <2>3, <2>4
    <2>6. Proxied(hostDisk, id)
        BY <2>1, <2>5 DEF Proxied
    <2> QED BY <2>6 DEF id
<1> QED
    BY <1>3, <1>4, <1>5 DEF ServerShown

LEMMA CodexSourcesFit ==
    ASSUME DiskFits(hostDisk), hostDisk.host = "codex"
    PROVE  /\ SourcesFit(CodexSources, "codex") /\ SourcesApart(CodexSources, hostDisk)
           /\ \A i \in DOMAIN CodexSources : \A f \in CodexSources[i].servers : ServerShown(hostDisk, f)
<1>1. CASE hostDisk.lines = <<>>
    <2> DEFINE source == Source(Config, "host-config", "absent", {})
    <2>1. CodexSources = <<source>>
        BY <1>1 DEF CodexSources
    <2>2. source.servers = {} /\ source.kind = "host-config" /\ source.file = Config
        BY DEF Source
    <2> HIDE DEF source
    <2>3. <<source>> \in Seq(Listed(<<source>>)) /\ DOMAIN <<source>> = {1} /\ <<source>>[1] = source
        <3>1. DOMAIN <<source>> = 1..1 /\ <<source>>[1] = source /\ 1..1 = {1}
            BY SMT
        <3>2. source \in Listed(<<source>>)
            BY <3>1 DEF Listed
        <3> QED BY <3>1, <3>2
    <2> QED BY <2>1, <2>2, <2>3 DEF SourcesFit, SourcesApart, SourceFits
<1>2. CASE hostDisk.lines # <<>>
    <2> DEFINE list == OfRoot("mcp_servers")
               lines == hostDisk.lines
               sources == CodexSources
    <2>1. sources = [i \in DOMAIN list |-> Source(Config, "host-config", "parsed", From(Config, {SectionServer(list[i])}))]
        BY <1>2 DEF CodexSources, Each
    <2>2. list \in Seq(SectionRecords)
        BY OfRootAt
    <2>3. PICK at \in [DOMAIN list -> DOMAIN lines] :
             /\ \A i \in DOMAIN list : list[i].root = "mcp_servers" /\ SectionFrom(lines, list[i], at[i], Len(lines))
             /\ \A i, j \in DOMAIN list : i # j => at[i] # at[j]
        BY OfRootAt
    <2> HIDE DEF list, sources
    <2>4. DOMAIN sources = DOMAIN list /\ \A i \in DOMAIN list :
             sources[i] = Source(Config, "host-config", "parsed", From(Config, {SectionServer(list[i])}))
        BY <2>1
    <2>5. \A i \in DOMAIN list : /\ sources[i].kind = "host-config" /\ sources[i].file = Config
                                 /\ sources[i].location = "parsed"
                                 /\ sources[i].servers = From(Config, {SectionServer(list[i])})
        BY <2>4 DEF Source
    <2>6. sources \in Seq(Listed(sources))
        <3>1. DOMAIN list = 1..Len(list) /\ Len(list) \in Nat
            BY <2>2, LenProperties
        <3>2. sources = [i \in 1..Len(list) |-> sources[i]]
            BY <2>1, <3>1
        <3>3. \A i \in 1..Len(list) : sources[i] \in Listed(sources)
            BY <2>4, <3>1 DEF Listed
        <3> QED BY <3>1, <3>2, <3>3, IsASeq
    <2>7. \A i \in DOMAIN list : \A f \in sources[i].servers :
             /\ f.origin = Config /\ f.server.name = list[i].name /\ ServerShown(hostDisk, f)
             /\ lines[at[i]] = [kind |-> "header", root |-> "mcp_servers", name |-> list[i].name]
        BY <2>3, <2>5, SectionShown
    <2>8. SourcesApart(sources, hostDisk)
        <3>1. SUFFICES ASSUME NEW i \in DOMAIN list, NEW j \in DOMAIN list, i # j,
                              NEW f \in sources[i].servers, NEW g \in sources[j].servers,
                              f.server.name = g.server.name
                       PROVE  \E a, b \in DOMAIN lines : a # b /\ lines[a] = lines[b]
            BY <2>4, <2>5 DEF SourcesApart
        <3>2. lines[at[i]] = lines[at[j]]
            <4>1. lines[at[i]] = [kind |-> "header", root |-> "mcp_servers", name |-> f.server.name]
                BY <2>7, <3>1
            <4>2. lines[at[j]] = [kind |-> "header", root |-> "mcp_servers", name |-> g.server.name]
                BY <2>7, <3>1
            <4> QED BY <3>1, <4>1, <4>2, Zenon
        <3> QED BY <2>3, <3>1, <3>2
    <2>9. SourcesFit(sources, "codex")
        BY <2>4, <2>5, <2>6, <2>7 DEF SourcesFit, SourceFits
    <2> QED BY <2>4, <2>7, <2>8, <2>9 DEF sources
<1> QED
    BY <1>1, <1>2

LEMMA CodexRegistrationsFit ==
    ASSUME DiskFits(hostDisk), hostDisk.host = "codex"
    PROVE  /\ PendingFits(CodexRegistrations, hostDisk)
           /\ \A plugin \in EnabledIn(hostDisk) : \E i \in DOMAIN CodexRegistrations :
                 Awaited(hostDisk, plugin, CodexRegistrations[i])
<1> DEFINE lines == hostDisk.lines
           tables == OfRoot("plugins")
           chosen == {section \in Listed(tables) : ~section.odd}
           list == Among(tables, chosen)
           shops == {i \in DOMAIN Sections : Sections[i].root = "marketplaces" /\ ~Sections[i].odd
                                             /\ "source" \in Sections[i].entries}
           dirs == IF shops # {} THEN <<"source", "cache">> ELSE <<"cache">>
           next == CodexRegistrations
<1>1. next = [i \in DOMAIN list |-> [name |-> list[i].name, enabled |-> "off" \notin list[i].entries, dirs |-> dirs]]
    BY DEF CodexRegistrations, Each
<1>2. dirs \in Seq({"source", "cache"})
    <2>1. <<"source", "cache">> \in Seq({"source", "cache"})
        BY SMT
    <2>2. <<"cache">> \in Seq({"source", "cache"})
        BY SMT
    <2> HIDE DEF shops
    <2> QED BY <2>1, <2>2
<1>3. tables \in Seq(SectionRecords)
    BY OfRootAt
<1>4. PICK at \in [DOMAIN tables -> DOMAIN lines] :
         /\ \A i \in DOMAIN tables : SectionFrom(lines, tables[i], at[i], Len(lines))
         /\ \A h \in DOMAIN lines : lines[h].kind = "header" /\ lines[h].root = "plugins" =>
                \E i \in DOMAIN tables : at[i] = h
    BY OfRootAt
<1> HIDE DEF tables, dirs, next
<1>5. list \in Seq(SectionRecords) /\ \A x \in chosen \cap Listed(tables) : x \in Listed(list)
    BY <1>3, AmongHolds
<1> HIDE DEF list
<1>6. DOMAIN next = DOMAIN list /\ \A i \in DOMAIN list :
         next[i] = [name |-> list[i].name, enabled |-> "off" \notin list[i].entries, dirs |-> dirs]
    BY <1>1
<1>7. next \in Seq(Listed(next))
    <2>1. DOMAIN list = 1..Len(list) /\ Len(list) \in Nat
        BY <1>5, LenProperties
    <2>2. next = [i \in 1..Len(list) |-> next[i]]
        BY <1>1, <2>1
    <2>3. \A i \in 1..Len(list) : next[i] \in Listed(next)
        BY <1>6, <2>1 DEF Listed
    <2> QED BY <2>1, <2>2, <2>3, IsASeq
<1>8. PendingFits(next, hostDisk)
    BY <1>2, <1>6, <1>7 DEF PendingFits
<1>9. ASSUME NEW plugin \in EnabledIn(hostDisk)
      PROVE  \E i \in DOMAIN next : Awaited(hostDisk, plugin, next[i])
    <2>1. PICK h \in DOMAIN lines :
             /\ plugin = [name |-> lines[h].name, dirs |-> {"source", "cache"}]
             /\ lines[h].kind = "header" /\ lines[h].root = "plugins"
             /\ \A j \in h + 1 .. Len(lines) :
                       \/ \E k \in h + 1 .. j : lines[k].kind = "header"
                       \/ lines[j].kind = "entry" /\ lines[j].entry # "off"
        BY DEF EnabledIn
    <2>2. PICK k \in DOMAIN tables : at[k] = h
        BY <1>4, <2>1
    <2>3. SectionFrom(lines, tables[k], h, Len(lines))
        BY <1>4, <2>2
    <2>4. \A j \in Stretch(lines, h, Len(lines)) : lines[j].kind = "entry" /\ lines[j].entry # "off"
        BY <2>1 DEF Stretch
    <2>5. /\ tables[k].name = lines[h].name /\ "off" \notin tables[k].entries /\ ~tables[k].odd
        BY <2>3, <2>4 DEF SectionFrom
    <2>6. tables[k] \in chosen \cap Listed(tables)
        BY <2>5 DEF Listed
    <2>7. PICK i \in DOMAIN list : list[i] = tables[k]
        BY <1>5, <2>6 DEF Listed
    <2>8. i \in DOMAIN next /\ next[i].name = plugin.name /\ next[i].enabled /\ plugin.dirs = {"source", "cache"}
        <3>1. next[i].enabled = ("off" \notin list[i].entries)
            <4> DEFINE on == "off" \notin list[i].entries
            <4>1. next[i] = [name |-> list[i].name, enabled |-> on, dirs |-> dirs]
                BY <1>6, <2>7
            <4> HIDE DEF on
            <4>2. next[i].enabled = on
                BY <4>1
            <4> QED BY <4>2 DEF on
        <3>2. next[i].enabled
            BY <2>5, <2>7, <3>1, Zenon
        <3>3. i \in DOMAIN next /\ next[i].name = list[i].name
            BY <1>6, <2>7
        <3> QED BY <2>1, <2>5, <2>7, <3>2, <3>3
    <2> QED BY <2>8 DEF Awaited
<1> QED
    BY <1>8, <1>9 DEF next

LEMMA ScopesAreList ==
    ASSUME DiskFits(hostDisk)
    PROVE  /\ hostDisk.scopes \in Seq([PluginNames -> Enablements]) /\ DOMAIN hostDisk.scopes = 1..3
           /\ \A i \in 1..3, name \in PluginNames : hostDisk.scopes[i][name] \in Enablements
<1>1. hostDisk.scopes \in [1..3 -> [PluginNames -> Enablements]]
    BY DEF DiskFits
<1>2. 3 \in Nat
    BY SMT
<1>3. hostDisk.scopes \in Seq([PluginNames -> Enablements])
    BY <1>1, <1>2, SeqDef
<1> QED
    BY <1>1, <1>3

(* Who is enabled for certain is resolved to be so. *)
LEMMA EnabledIsResolved ==
    ASSUME DiskFits(hostDisk), NEW name \in PluginNames, NEW dir,
           "disabled" \notin {hostDisk.scopes[i][name] : i \in 1..3} \cup {hostDisk.plugin[dir].default},
           "enabled" \in {hostDisk.scopes[i][name] : i \in 1..3} \cup {hostDisk.plugin[dir].default}
    PROVE  resolveEnablement(name, dir) = "enabled"
<1> DEFINE scopes == hostDisk.scopes
           chosen == {scope \in Listed(scopes) : scope[name] # "unset"}
           said == Among(scopes, chosen)
           default == hostDisk.plugin[dir].default
<1>1. /\ scopes \in Seq([PluginNames -> Enablements]) /\ DOMAIN scopes = 1..3
      /\ \A i \in 1..3 : scopes[i][name] \in {"unset", "enabled", "disabled"}
    BY ScopesAreList DEF Enablements
<1>2. resolveEnablement(name, dir) = IF said # <<>> THEN said[1][name]
                                     ELSE IF default # "unset" THEN default ELSE "unknown"
    BY DEF resolveEnablement
<1>3. /\ said # <<>> => said[1] \in chosen \cap Listed(scopes)
      /\ \A x \in chosen \cap Listed(scopes) : x \in Listed(said)
    BY <1>1, AmongHolds
<1> HIDE DEF said
<1>4. CASE said # <<>>
    <2>1. PICK i \in 1..3 : said[1] = scopes[i] /\ scopes[i][name] # "unset"
        BY <1>1, <1>3, <1>4 DEF Listed
    <2>2. scopes[i][name] # "disabled"
        OBVIOUS
    <2> QED BY <1>1, <1>2, <1>4, <2>1, <2>2
<1>5. CASE said = <<>>
    <2>1. Listed(said) = {}
        BY <1>5 DEF Listed
    <2>2. \A i \in 1..3 : scopes[i][name] = "unset"
        BY <1>1, <1>3, <2>1 DEF Listed
    <2>3. default = "enabled"
        BY <2>2
    <2> QED BY <1>2, <1>5, <2>3
<1> QED
    BY <1>4, <1>5

LEMMA ClaudeSourcesFit ==
    ASSUME DiskFits(hostDisk), hostDisk.host # "codex"
    PROVE  LET list == ClaudeSources \o RegistrySources
           IN /\ SourcesFit(list, hostDisk.host) /\ SourcesApart(list, hostDisk)
              /\ \A i \in DOMAIN list : \A f \in list[i].servers : ServerShown(hostDisk, f)
<1> DEFINE missing == hostDisk.map[Config].form = "missing"
           location == IF missing THEN "absent" ELSE analyzePluginManifest(Config).location
           servers == IF missing THEN {} ELSE analyzePluginManifest(Config).servers
           config == Source(Config, "host-config", location, servers)
           registry == Source(Registry(pluginSource), "plugin-manifest",
                              IF hostDisk.registry[pluginSource].form = "missing" THEN "absent" ELSE "unreadable", {})
<1>1. ClaudeSources = <<config>>
    BY DEF ClaudeSources
<1>2. RegistrySources = <<>> \/ RegistrySources = <<registry>>
    BY DEF RegistrySources
<1>3. \A f \in servers : f.origin = Config /\ ServerShown(hostDisk, f)
    <2>1. Config[2] # "plugin.json"
        BY DEF Config
    <2>2. \A f \in analyzePluginManifest(Config).servers : f.origin = Config /\ ServerShown(hostDisk, f)
        BY <2>1, ManifestShown
    <2> QED BY <2>2
<1>4. config.kind = "host-config" /\ config.file = Config /\ config.servers = servers
    <2> HIDE DEF location, servers
    <2> QED BY DEF Source
<1>5. registry.kind = "plugin-manifest" /\ registry.file[1] = "registry" /\ registry.servers = {}
    BY DEF Source, Registry
<1> HIDE DEF config, registry, servers
<1>6. \E list : list = ClaudeSources \o RegistrySources /\ list \in Seq(Listed(list))
          /\ ((DOMAIN list = {1} /\ list[1] = config)
               \/ (DOMAIN list = {1, 2} /\ list[1] = config /\ list[2] = registry))
    <2>1. CASE RegistrySources = <<>>
        <3> DEFINE list == <<config>>
        <3>1. ClaudeSources \o RegistrySources = list
            <4>1. <<config>> \in Seq({config})
                BY SMT
            <4> QED BY <1>1, <2>1, <4>1, ConcatEmptySeq
        <3>2. DOMAIN list = {1} /\ list[1] = config /\ list \in Seq({config})
            BY SMT
        <3>3. Listed(list) = {config}
            BY <3>2 DEF Listed
        <3> HIDE DEF list
        <3> QED BY <3>1, <3>2, <3>3
    <2>2. CASE RegistrySources = <<registry>>
        <3> DEFINE a == <<config>>
                   b == <<registry>>
                   S == {config, registry}
                   list == a \o b
        <3>1. a \in Seq(S) /\ Len(a) = 1 /\ a[1] = config /\ b \in Seq(S) /\ Len(b) = 1 /\ b[1] = registry
            BY SMT
        <3>2. ClaudeSources \o RegistrySources = list
            BY <1>1, <2>2
        <3> HIDE DEF a, b, S
        <3>3. /\ list \in Seq(S) /\ Len(list) = 2
              /\ \A i \in 1..2 : list[i] = IF i <= 1 THEN a[i] ELSE b[i - 1]
            BY <3>1, ConcatProperties, SMT
        <3> HIDE DEF list
        <3>4. DOMAIN list = {1, 2}
            <4>1. DOMAIN list = 1..2 /\ 1..2 = {1, 2}
                BY <3>3, LenProperties, SMT
            <4> QED BY <4>1
        <3>5. list[1] = config /\ list[2] = registry
            BY <3>1, <3>3, SMT
        <3>6. Listed(list) = S
            BY <3>4, <3>5 DEF Listed, S
        <3> QED BY <3>2, <3>3, <3>4, <3>5, <3>6
    <2> QED BY <1>2, <2>1, <2>2
<1>7. PICK list : list = ClaudeSources \o RegistrySources /\ list \in Seq(Listed(list))
          /\ ((DOMAIN list = {1} /\ list[1] = config)
               \/ (DOMAIN list = {1, 2} /\ list[1] = config /\ list[2] = registry))
    BY <1>6
<1>8. \A i \in DOMAIN list : SourceFits(list[i]) /\ \A f \in list[i].servers : ServerShown(hostDisk, f)
    BY <1>3, <1>4, <1>5, <1>7 DEF SourceFits
<1>9. \A i, j \in DOMAIN list : i # j => list[i].kind # list[j].kind
    BY <1>4, <1>5, <1>7
<1> QED
    BY <1>7, <1>8, <1>9 DEF SourcesFit, SourcesApart

LEMMA InstalledFit ==
    ASSUME DiskFits(hostDisk), hostDisk.host # "codex"
    PROVE  /\ PendingFits(parseInstalledPlugins, hostDisk)
           /\ \A plugin \in EnabledIn(hostDisk) : \E i \in DOMAIN parseInstalledPlugins :
                 Awaited(hostDisk, plugin, parseInstalledPlugins[i])
<1> DEFINE installs == hostDisk.registry[pluginSource].installs
           chosen == {install \in Listed(installs) : install.dir # "none"}
           next == parseInstalledPlugins
           dirs == DOMAIN hostDisk.plugin
<1>1. installs \in Seq(Installs(dirs))
    <2>1. pluginSource \in {"cache", "home"}
        BY DEF pluginSource
    <2> QED BY <2>1 DEF DiskFits
<1>2. next = Among(installs, chosen)
    BY DEF parseInstalledPlugins
<1> HIDE DEF next
<1>3. /\ next \in Seq(Installs(dirs)) /\ \A i \in DOMAIN next : next[i] \in chosen \cap Listed(installs)
      /\ \A x \in chosen \cap Listed(installs) : x \in Listed(next)
    BY <1>1, <1>2, AmongHolds
<1>4. \A x \in Listed(installs) : x.name \in PluginNames /\ x.dir \in dirs \cup {"none"}
    <2>1. ASSUME NEW x \in Listed(installs) PROVE x \in Installs(dirs)
        <3>1. PICK i \in DOMAIN installs : x = installs[i]
            BY DEF Listed
        <3> HIDE DEF installs, dirs
        <3>2. installs[i] \in Installs(dirs)
            BY <1>1
        <3> QED BY <3>1, <3>2
    <2> QED BY <2>1 DEF Installs
<1>5. PendingFits(next, hostDisk)
    <2>1. next \in Seq(Listed(next))
        <3>1. DOMAIN next = 1..Len(next) /\ Len(next) \in Nat
            BY <1>3, LenProperties
        <3>2. next = [i \in 1..Len(next) |-> next[i]]
            BY <1>3, <3>1
        <3>3. \A i \in 1..Len(next) : next[i] \in Listed(next)
            BY <3>1 DEF Listed
        <3> QED BY <3>1, <3>2, <3>3, IsASeq
    <2> QED BY <1>3, <1>4, <2>1 DEF PendingFits
<1>6. ASSUME NEW plugin \in EnabledIn(hostDisk)
      PROVE  \E i \in DOMAIN next : Awaited(hostDisk, plugin, next[i])
    <2> DEFINE root == IF hostDisk.registry["cache"].form = "missing" THEN "home" ELSE "cache"
               listed == hostDisk.registry[root].installs
    <2>1. PICK k \in DOMAIN listed :
             /\ plugin = [name |-> listed[k].name, dirs |-> {listed[k].dir}]
             /\ hostDisk.registry[root].form = "parsed" /\ listed[k].dir # "none"
             /\ "disabled" \notin {hostDisk.scopes[i][listed[k].name] : i \in 1..3}
                                     \cup {hostDisk.plugin[listed[k].dir].default}
             /\ "enabled" \in {hostDisk.scopes[i][listed[k].name] : i \in 1..3}
                                     \cup {hostDisk.plugin[listed[k].dir].default}
        BY DEF EnabledIn
    <2>2. root = pluginSource
        BY <2>1 DEF pluginSource
    <2> DEFINE install == listed[k]
    <2>3. install \in chosen \cap Listed(installs)
        BY <2>1, <2>2 DEF Listed
    <2>4. install.name \in PluginNames
        BY <1>4, <2>3
    <2>5. resolveEnablement(install.name, install.dir) = "enabled"
        BY <2>1, <2>4, EnabledIsResolved
    <2>6. PICK i \in DOMAIN next : next[i] = install
        BY <1>3, <2>3 DEF Listed
    <2> HIDE DEF install
    <2>7. plugin.name = install.name /\ plugin.dirs = {install.dir}
        BY <2>1 DEF install
    <2> QED BY <2>4, <2>5, <2>6, <2>7 DEF Awaited
<1> QED
    BY <1>5, <1>6 DEF next

LEMMA NothingListed == <<>> \in Seq(Listed(<<>>)) /\ DOMAIN <<>> = {}
OBVIOUS

LEMMA ReadConfigurationKeeps ==
    ASSUME SurveyKept, ReadConfiguration
    PROVE  SurveyKept'
<1> DEFINE codex == hostDisk.host = "codex"
           sources == IF codex THEN CodexSources ELSE ClaudeSources \o RegistrySources
           pending == IF codex THEN CodexRegistrations ELSE parseInstalledPlugins
           inspected == IF codex THEN {Config}
                        ELSE {Config, Registry(pluginSource)} \cup
                             (IF hostDisk.registry[pluginSource].form = "missing" THEN {} ELSE Settings)
<1>1. /\ survey' = [SurveyIdle EXCEPT !.at = "plugins", !.sources = sources, !.pending = pending,
                                      !.inspected = inspected]
      /\ hostDisk' = hostDisk /\ coverage' = coverage
    BY DEF ReadConfiguration
<1>2. DiskFits(hostDisk)
    BY DEF SurveyKept, DiskKept
<1>3. /\ SourcesFit(sources, hostDisk.host) /\ SourcesApart(sources, hostDisk)
      /\ \A i \in DOMAIN sources : \A f \in sources[i].servers : ServerShown(hostDisk, f)
    BY <1>2, CodexSourcesFit, ClaudeSourcesFit
<1>4. /\ PendingFits(pending, hostDisk)
      /\ \A plugin \in EnabledIn(hostDisk) : \E i \in DOMAIN pending : Awaited(hostDisk, plugin, pending[i])
    BY <1>2, CodexRegistrationsFit, InstalledFit
<1> HIDE DEF codex, sources, pending, inspected
<1>5. /\ DOMAIN survey' = SurveyFields /\ survey'.at = "plugins" /\ survey'.sources = sources
      /\ survey'.pending = pending /\ survey'.plugins = <<>> /\ survey'.straddled = FALSE
    BY <1>1 DEF SurveyIdle, SurveyFields
<1>6. ReadingKept'
    <2>1. ReportsFit(<<>>, hostDisk.host)
        BY NothingListed DEF ReportsFit
    <2>2. SourcesFit(survey'.sources, hostDisk'.host) /\ ReportsFit(survey'.plugins, hostDisk'.host)
          /\ PendingFits(survey'.pending, hostDisk') /\ SourcesApart(survey'.sources, hostDisk')
        BY <1>1, <1>3, <1>4, <1>5, <2>1
    <2>3. ServersShown(survey', hostDisk')
        BY <1>1, <1>3, <1>5, NothingListed DEF ServersShown
    <2>5. ASSUME NEW plugin \in EnabledIn(hostDisk')
          PROVE  \E i \in DOMAIN survey'.pending : Awaited(hostDisk, plugin, survey.pending[i])'
        <3>1. plugin \in EnabledIn(hostDisk)
            BY <1>1
        <3>2. PICK i \in DOMAIN pending : Awaited(hostDisk, plugin, pending[i])
            BY <1>4, <3>1
        <3>3. survey'.pending[i] = pending[i] /\ i \in DOMAIN survey'.pending
            BY <1>5
        <3>4. Awaited(hostDisk, plugin, survey.pending[i])'
            BY <1>1, <3>2, <3>3 DEF Awaited, resolveEnablement
        <3> QED BY <3>3, <3>4
    <2>6. DOMAIN survey'.plugins = {}
        BY <1>5, NothingListed
    <2> QED BY <2>2, <2>3, <2>5, <2>6 DEF ReadingKept
<1>7. DiskKept' /\ RowsKept'
    BY <1>1 DEF SurveyKept, DiskKept, RowsKept
<1>8. CoverageIsHonest'
    BY <1>5 DEF CoverageIsHonest, ObservedIsProxied, ObservedStands, NothingIsSilent, RefusedForCause
<1> QED
    BY <1>5, <1>6, <1>7, <1>8 DEF SurveyKept

LEMMA FoundManifest ==
    ASSUME NEW dir
    PROVE  /\ \A f \in findPluginManifest(dir) :
                 \E file \in ManifestFiles : f = <<dir, file>> /\ hostDisk.map[f].form # "missing"
           /\ findPluginManifest(dir) = {} => \A file \in ManifestFiles : hostDisk.map[<<dir, file>>].form = "missing"
<1> DEFINE chosen == {n \in ManifestFiles : hostDisk.map[<<dir, n>>].form # "missing"}
           names == Among(ManifestNames, chosen)
<1>1. ManifestNames \in Seq(ManifestFiles) /\ Listed(ManifestNames) = ManifestFiles
    <2> DEFINE a == <<"mcp.json", ".mcp.json", "child">>
               b == <<".mcp.json", "mcp.json", "child">>
    <2>1. a \in Seq(ManifestFiles) /\ b \in Seq(ManifestFiles)
        BY SMT DEF ManifestFiles
    <2>2. DOMAIN a = {1, 2, 3} /\ DOMAIN b = {1, 2, 3}
        BY SMT
    <2>3. Listed(a) = ManifestFiles /\ Listed(b) = ManifestFiles
        BY <2>2 DEF Listed, ManifestFiles
    <2>4. ManifestNames = a \/ ManifestNames = b
        BY DEF ManifestNames
    <2> HIDE DEF a, b
    <2> QED BY <2>1, <2>3, <2>4
<1>2. findPluginManifest(dir) = IF names = <<>> THEN {} ELSE {<<dir, names[1]>>}
    BY DEF findPluginManifest
<1>3. /\ names # <<>> => names[1] \in chosen \cap Listed(ManifestNames)
      /\ \A x \in chosen \cap Listed(ManifestNames) : x \in Listed(names)
    BY <1>1, AmongHolds
<1> HIDE DEF names
<1>4. names = <<>> => Listed(names) = {}
    BY DEF Listed
<1> QED
    BY <1>1, <1>2, <1>3, <1>4

(* What a report makes of the plugin it is about. *)
ReportHolds(p, host) ==
    /\ ReportFits(p, host)
    /\ \A f \in p.servers : ServerShown(hostDisk, f)
    /\ host = "codex" => p.where[1] = "name" \/ (p.where \in InspectedIn(p) /\ Exists(p.where))

LEMMA ReportParts ==
    ASSUME NEW name, NEW state, NEW inspected, NEW location, NEW where, NEW servers
    PROVE  LET p == Report(name, state, inspected, location, where, servers)
           IN p.name = name /\ p.state = state /\ p.location = location /\ p.where = where /\ p.servers = servers
BY DEF Report

LEMMA NotFoundHolds ==
    ASSUME NEW name, NEW state, NEW inspected, NEW host
    PROVE  /\ ReportHolds(NotFound(name, state, inspected), host)
           /\ \A d, plugin : state = "enabled" /\ name = plugin.name => Heard(d, plugin, NotFound(name, state, inspected))
<1> DEFINE p == NotFound(name, state, inspected)
<1>1. p.name = name /\ p.state = state /\ p.location = "absent" /\ p.where = BareName(name) /\ p.servers = {}
    BY ReportParts DEF NotFound
<1>2. BareName(name)[1] = "name"
    BY DEF BareName
<1> HIDE DEF p
<1>3. ReportHolds(p, host)
    BY <1>1, <1>2 DEF ReportHolds, ReportFits
<1>4. \A d, plugin : state = "enabled" /\ name = plugin.name => Heard(d, plugin, p)
    BY <1>1 DEF Heard
<1> QED
    BY <1>3, <1>4 DEF p

(* A text that can be read and names no server. *)
LEMMA EmptyManifest ==
    ASSUME DiskFits(hostDisk), NEW file \in DOMAIN hostDisk.map, hostDisk.map[file].form # "missing",
           analyzePluginManifest(file).location # "unreadable", analyzePluginManifest(file).servers = {}
    PROVE  hostDisk.map[file].form \in {"named", "bare"} /\ hostDisk.map[file].servers = {}
<1> DEFINE text == hostDisk.map[file]
<1>1. text.form \in {"missing", "malformed", "named", "bare"}
    BY DEF DiskFits
<1>2. text.form # "malformed" /\ analyzePluginManifest(file).servers = From(file, text.servers)
    BY DEF analyzePluginManifest
<1>3. From(file, text.servers) = {} => text.servers = {}
    BY DEF From
<1> QED
    BY <1>1, <1>2, <1>3

LEMMA LocatedHolds ==
    ASSUME DiskFits(hostDisk), NEW dir \in DOMAIN hostDisk.plugin, NEW name, NEW state, NEW file,
           file \in findPluginManifest(dir)
    PROVE  /\ ReportHolds(Located(name, state, file), hostDisk.host)
           /\ \A plugin : state = "enabled" /\ dir \in plugin.dirs /\ hostDisk.present[dir] =>
                 Heard(hostDisk, plugin, Located(name, state, file))
<1> DEFINE p == Located(name, state, file)
           analysis == analyzePluginManifest(file)
<1>1. PICK n \in ManifestFiles : file = <<dir, n>> /\ hostDisk.map[file].form # "missing"
    BY FoundManifest
<1>2. dir \notin Reserved /\ file \in DOMAIN hostDisk.map
    BY <1>1 DEF DiskFits, Reserved
<1>3. file[1] = dir /\ file[2] = n /\ n # "plugin.json" /\ dir # "host" /\ dir # "name"
      /\ dir # "registry" /\ dir # "settings"
    BY <1>1, <1>2 DEF ManifestFiles, Reserved
<1>4. file # Config
    BY <1>3 DEF Config
<1>5. /\ p.state = state /\ p.where = file /\ p.location = analysis.location /\ p.servers = analysis.servers
    <2> DEFINE location == analysis.location
               servers == analysis.servers
    <2>1. p = Report(name, state, TRUE, location, file, servers)
        BY DEF Located
    <2> HIDE DEF p, location, servers
    <2>2. p.state = state /\ p.where = file /\ p.location = location /\ p.servers = servers
        BY <2>1 DEF Report
    <2> QED BY <2>2 DEF location, servers
<1>6. \A f \in analysis.servers : f.origin = file /\ ServerShown(hostDisk, f)
    BY <1>3, <1>4, ManifestShown
<1> HIDE DEF p
<1>7. ReportHolds(p, hostDisk.host)
    <2>1. ManifestReport(p)
        BY <1>1, <1>2, <1>5, <1>6 DEF ManifestReport
    <2>2. p.where \in InspectedIn(p)
        BY <1>3, <1>5 DEF InspectedIn
    <2>3. Exists(file)
        BY <1>1, <1>3, <1>4 DEF Exists
    <2> QED BY <1>5, <1>6, <2>1, <2>2, <2>3 DEF ReportHolds, ReportFits
<1>8. ASSUME NEW plugin, state = "enabled", dir \in plugin.dirs, hostDisk.present[dir]
      PROVE  Heard(hostDisk, plugin, p)
    <2>1. CASE analysis.location # "parsed"
        BY <1>3, <1>5, <1>8, <2>1 DEF Heard
    <2>2. CASE analysis.location = "parsed" /\ analysis.servers # {}
        BY <1>3, <1>5, <1>6, <1>8, <2>2 DEF Heard
    <2>3. CASE analysis.location = "parsed" /\ analysis.servers = {}
        <3>1. hostDisk.map[file].form \in {"named", "bare"} /\ hostDisk.map[file].servers = {}
            BY <1>1, <1>2, <2>3, EmptyManifest
        <3>2. NamesNone(hostDisk, plugin)
            BY <1>2, <1>3, <1>8, <3>1 DEF NamesNone
        <3> QED BY <3>2 DEF Heard
    <2> QED BY <2>1, <2>2, <2>3
<1> QED
    BY <1>7, <1>8 DEF p

(* What a plugin.json declares. *)
LEMMA DeclaredHolds ==
    ASSUME DiskFits(hostDisk), hostDisk.host # "codex", NEW dir \in DOMAIN hostDisk.plugin,
           findPluginManifest(dir) = {}, NEW name, NEW state
    PROVE  LET own == serversFromPluginJson(dir)
               p == Report(name, state, TRUE, own.location, PluginJson(dir), own.servers)
           IN /\ ReportHolds(p, hostDisk.host)
              /\ \A plugin : state = "enabled" /\ dir \in plugin.dirs /\ hostDisk.present[dir] =>
                    Heard(hostDisk, plugin, p)
<1> DEFINE json == hostDisk.plugin[dir]
           named == {<<dir, f>> : f \in json.pointers}
           readable == {f \in named : hostDisk.map[f].form # "missing"}
           servers == UNION {analyzePluginManifest(f).servers : f \in readable}
           failed == readable # named \/ \E f \in readable : analyzePluginManifest(f).location = "unreadable"
           own == serversFromPluginJson(dir)
           p == Report(name, state, TRUE, own.location, PluginJson(dir), own.servers)
<1>1. /\ dir \notin Reserved /\ "plugin.json" \notin json.pointers
      /\ \A f \in json.pointers : <<dir, f>> \in DOMAIN hostDisk.map
      /\ json.declares \in {"nothing", "map", "odd", "pointers"}
      /\ json.declares = "pointers" => json.pointers # {}
    BY DEF DiskFits, Reserved
<1>2. \/ own.location \in {"unreadable", "absent"} /\ own.servers = {}
      \/ /\ json.declares = "map" /\ own.location = "parsed"
         /\ own.servers = From(PluginJson(dir), json.servers)
      \/ /\ json.declares = "pointers" /\ own.servers = servers
         /\ own.location = IF servers = {} /\ failed THEN "unreadable" ELSE "parsed"
    <2> DEFINE Answer(location, found, files) ==
                 [location |-> location, servers |-> found, read |-> {PluginJson(dir)} \cup files]
    <2>1. own = IF json.form = "malformed" \/ json.declares = "odd" THEN Answer("unreadable", {}, {})
                ELSE IF json.declares = "nothing" THEN Answer("absent", {}, {})
                ELSE IF json.declares = "map" THEN Answer("parsed", From(PluginJson(dir), json.servers), {})
                ELSE Answer(IF servers = {} /\ failed THEN "unreadable" ELSE "parsed", servers, readable)
        BY DEF serversFromPluginJson
    <2>2. \A location, found, files : /\ Answer(location, found, files).location = location
                                      /\ Answer(location, found, files).servers = found
        OBVIOUS
    <2> HIDE DEF own, Answer, servers, failed, readable, json
    <2> QED BY <1>1, <2>1, <2>2
<1>3. /\ p.state = state /\ p.where = PluginJson(dir) /\ p.location = own.location /\ p.servers = own.servers
    <2> DEFINE location == own.location
               found == own.servers
               place == PluginJson(dir)
    <2>1. p = Report(name, state, TRUE, location, place, found)
        OBVIOUS
    <2> HIDE DEF p, location, found, place
    <2>2. p.state = state /\ p.where = place /\ p.location = location /\ p.servers = found
        BY <2>1 DEF Report
    <2> QED BY <2>2 DEF location, found, place
<1>4. PluginJson(dir)[1] = dir /\ PluginJson(dir)[2] = "plugin.json"
    BY DEF PluginJson
<1>5. \A file \in ManifestFiles : hostDisk.map[<<dir, file>>].form = "missing"
    BY FoundManifest
<1> HIDE DEF p, own
<1>6. ASSUME NEW f \in From(PluginJson(dir), json.servers)
      PROVE  f.origin = PluginJson(dir) /\ ServerShown(hostDisk, f)
    <2>1. PICK s \in json.servers :
             f.server.name = s.name /\ (f.server.wrapped => s.transport = "stdio" /\ s.wrapped)
        BY FromParts
    <2>2. f.origin = PluginJson(dir)
        BY FromParts
    <2> DEFINE id == <<f.origin, "", f.server.name, "">>
    <2>3. id[1] = PluginJson(dir) /\ id[3] = s.name
        BY <2>1, <2>2
    <2> HIDE DEF id
    <2>4. f.server.wrapped => Proxied(hostDisk, id)
        BY <1>4, <2>1, <2>3 DEF Proxied
    <2> QED BY <2>2, <2>4 DEF ServerShown, id
<1>7. ASSUME NEW f \in servers
      PROVE  /\ ServerShown(hostDisk, f) /\ f.origin[1] = dir
             /\ \E file : file \notin ManifestFiles \cup {"plugin.json"} /\ f.origin = <<dir, file>>
    <2>1. PICK file \in json.pointers : /\ hostDisk.map[<<dir, file>>].form # "missing"
                                        /\ f \in analyzePluginManifest(<<dir, file>>).servers
        OBVIOUS
    <2>2. file \notin ManifestFiles \cup {"plugin.json"}
        BY <1>1, <1>5, <2>1
    <2>3. <<dir, file>>[2] # "plugin.json"
        BY <2>2
    <2> DEFINE place == <<dir, file>>
    <2>4. f.origin = place /\ ServerShown(hostDisk, f)
        <3> HIDE DEF place
        <3> QED BY <2>1, <2>3, ManifestShown DEF place
    <2> QED BY <2>2, <2>4
<1>8. \A f \in own.servers : ServerShown(hostDisk, f) /\ f.origin[1] = dir /\
         (f.origin = PluginJson(dir) \/
            \E file : file \notin ManifestFiles \cup {"plugin.json"} /\ f.origin = <<dir, file>>)
    <2> HIDE DEF servers, failed
    <2> QED BY <1>2, <1>4, <1>6, <1>7
<1>9. ReportHolds(p, hostDisk.host)
    <2>1. PluginJsonReport(p)
        BY <1>1, <1>3, <1>8 DEF PluginJsonReport
    <2> QED BY <1>3, <1>8, <2>1 DEF ReportHolds, ReportFits
<1>10. ASSUME NEW plugin, state = "enabled", dir \in plugin.dirs, hostDisk.present[dir]
       PROVE  Heard(hostDisk, plugin, p)
    <2>1. CASE own.location # "parsed"
        BY <1>3, <1>4, <1>10, <2>1 DEF Heard
    <2>2. CASE own.location = "parsed" /\ own.servers # {}
        BY <1>3, <1>8, <1>10, <2>2 DEF Heard
    <2>3. CASE own.location = "parsed" /\ own.servers = {}
        <3>1. CASE json.declares = "map" /\ own.servers = From(PluginJson(dir), json.servers)
            <4>1. json.servers = {}
                BY <2>3, <3>1 DEF From
            <4>2. NamesNone(hostDisk, plugin)
                BY <1>10, <3>1, <4>1 DEF NamesNone
            <4> QED BY <4>2 DEF Heard
        <3>2. CASE /\ json.declares = "pointers" /\ own.servers = servers
                   /\ own.location = IF servers = {} /\ failed THEN "unreadable" ELSE "parsed"
            <4>1. ~failed /\ servers = {}
                <5> HIDE DEF servers, failed
                <5> QED BY <2>3, <3>2
            <4>2. PICK file \in json.pointers : TRUE
                BY <1>1, <3>2
            <4> DEFINE place == <<dir, file>>
            <4>3. place \in named /\ place[1] = dir
                OBVIOUS
            <4>4. place \in readable /\ analyzePluginManifest(place).location # "unreadable"
                  /\ analyzePluginManifest(place).servers = {}
                <5> HIDE DEF place, named
                <5> QED BY <4>1, <4>3
            <4>5. place \in DOMAIN hostDisk.map /\ hostDisk.map[place].form # "missing"
                BY <1>1, <4>4
            <4> HIDE DEF place
            <4>6. hostDisk.map[place].form \in {"named", "bare"} /\ hostDisk.map[place].servers = {}
                BY <4>4, <4>5, EmptyManifest
            <4>7. NamesNone(hostDisk, plugin)
                BY <1>10, <4>3, <4>5, <4>6 DEF NamesNone
            <4> QED BY <4>7 DEF Heard
        <3> HIDE DEF servers, failed
        <3> QED BY <1>2, <2>3, <3>1, <3>2
    <2> QED BY <2>1, <2>2, <2>3
<1> QED
    BY <1>9, <1>10 DEF p, own
-----------------------------------------------------------------------------
LEMMA CodexPluginHolds ==
    ASSUME DiskFits(hostDisk), hostDisk.host = "codex", NEW next, next.dirs \in Seq({"source", "cache"})
    PROVE  /\ ReportHolds(CodexPlugin(next), "codex")
           /\ \A plugin : Awaited(hostDisk, plugin, next) => Heard(hostDisk, plugin, CodexPlugin(next))
<1> DEFINE chosen == {dir \in Listed(next.dirs) : hostDisk.present[dir]}
           dirs == Among(next.dirs, chosen)
           found == IF dirs = <<>> THEN {} ELSE findPluginManifest(dirs[1])
           p == CodexPlugin(next)
<1>1. p = IF ~next.enabled THEN NotFound(next.name, "disabled", FALSE)
          ELSE IF found = {} THEN NotFound(next.name, "enabled", TRUE)
          ELSE Located(next.name, "enabled", CHOOSE f \in found : TRUE)
    BY DEF CodexPlugin
<1>2. dirs # <<>> => dirs[1] \in chosen \cap Listed(next.dirs)
    BY AmongHolds
<1>3. \A plugin : Awaited(hostDisk, plugin, next) =>
         next.name = plugin.name /\ next.enabled /\ plugin.dirs = {"source", "cache"}
    BY DEF Awaited
<1>4. CASE ~next.enabled
    <2>1. p = NotFound(next.name, "disabled", FALSE)
        BY <1>1, <1>4
    <2> HIDE DEF p
    <2>2. ReportHolds(p, "codex")
        BY <2>1, NotFoundHolds
    <2>3. \A plugin : ~Awaited(hostDisk, plugin, next)
        BY <1>3, <1>4
    <2> QED BY <2>2, <2>3 DEF p
<1>5. CASE next.enabled /\ found = {}
    <2> HIDE DEF found, p
    <2>1. p = NotFound(next.name, "enabled", TRUE)
        BY <1>1, <1>5
    <2>2. ReportHolds(p, "codex")
        BY <2>1, NotFoundHolds, Zenon
    <2>3. \A plugin : next.name = plugin.name => Heard(hostDisk, plugin, p)
        BY <2>1, NotFoundHolds, Zenon
    <2> QED BY <1>3, <2>2, <2>3 DEF p
<1>6. CASE next.enabled /\ found # {}
    <2> DEFINE dir == dirs[1]
               file == CHOOSE f \in found : TRUE
    <2>1. dirs # <<>> /\ found = findPluginManifest(dir)
        BY <1>6
    <2>2. dir \in {"source", "cache"} /\ hostDisk.present[dir]
        <3>1. Listed(next.dirs) \subseteq {"source", "cache"}
            BY DEF Listed
        <3> HIDE DEF dirs
        <3> QED BY <1>2, <2>1, <3>1
    <2>3. dir \in DOMAIN hostDisk.plugin
        BY <2>2 DEF DiskFits
    <2>4. file \in findPluginManifest(dir)
        <3> HIDE DEF dir, found
        <3> QED BY <1>6, <2>1
    <2>5. p = Located(next.name, "enabled", file)
        BY <1>1, <1>6
    <2> HIDE DEF dir, file, p
    <2> QED BY <1>3, <2>2, <2>3, <2>4, <2>5, LocatedHolds DEF p
<1> QED
    BY <1>4, <1>5, <1>6

LEMMA ClaudePluginHolds ==
    ASSUME DiskFits(hostDisk), hostDisk.host # "codex", NEW install, install.dir \in DOMAIN hostDisk.plugin
    PROVE  /\ ReportHolds(ClaudePlugin(install), hostDisk.host)
           /\ \A plugin : Awaited(hostDisk, plugin, install) => Heard(hostDisk, plugin, ClaudePlugin(install))
<1> DEFINE dir == install.dir
           state == resolveEnablement(install.name, dir)
           found == findPluginManifest(dir)
           own == serversFromPluginJson(dir)
           p == ClaudePlugin(install)
           json == Report(install.name, state, TRUE, own.location, PluginJson(dir), own.servers)
           file == CHOOSE f \in found : TRUE
<1>1. \A plugin : Awaited(hostDisk, plugin, install) =>
         install.name = plugin.name /\ dir \in plugin.dirs /\ state = "enabled"
    BY DEF Awaited
<1>2. \/ p = NotFound(install.name, state, FALSE) /\ state = "disabled"
      \/ p = NotFound(install.name, state, TRUE)
      \/ p = Located(install.name, state, file) /\ found # {} /\ hostDisk.present[dir]
      \/ p = json /\ found = {} /\ hostDisk.present[dir]
    <2> HIDE DEF state, found, own, file, json
    <2>1. CASE state = "disabled"
        BY <2>1 DEF ClaudePlugin, state, found
    <2>2. CASE state # "disabled" /\ ~hostDisk.present[dir]
        BY <2>2 DEF ClaudePlugin, state, found
    <2>3. CASE state # "disabled" /\ hostDisk.present[dir] /\ found # {}
        BY <2>3 DEF ClaudePlugin, state, found, file
    <2>4. CASE state # "disabled" /\ hostDisk.present[dir] /\ found = {}
        BY <2>4 DEF ClaudePlugin, state, found, json, own
    <2> QED BY <2>1, <2>2, <2>3, <2>4
<1> HIDE DEF state, p
<1>3. CASE p = NotFound(install.name, state, FALSE) /\ state = "disabled"
    BY <1>1, <1>3, NotFoundHolds DEF p
<1>4. CASE p = NotFound(install.name, state, TRUE)
    BY <1>1, <1>4, NotFoundHolds DEF p
<1>5. CASE p = Located(install.name, state, file) /\ found # {} /\ hostDisk.present[dir]
    <2>1. file \in findPluginManifest(dir)
        BY <1>5
    <2> HIDE DEF file
    <2> QED BY <1>1, <1>5, <2>1, LocatedHolds DEF p
<1>6. CASE p = json /\ found = {} /\ hostDisk.present[dir]
    <2>1. /\ ReportHolds(json, hostDisk.host)
          /\ \A plugin : state = "enabled" /\ dir \in plugin.dirs /\ hostDisk.present[dir] =>
                    Heard(hostDisk, plugin, json)
        BY <1>6, DeclaredHolds
    <2> HIDE DEF json
    <2> QED BY <1>1, <1>6, <2>1 DEF p
<1> QED
    BY <1>2, <1>3, <1>4, <1>5, <1>6

LEMMA AppendListed ==
    ASSUME NEW list, list \in Seq(Listed(list)), NEW x
    PROVE  LET longer == Append(list, x)
               n == Len(list)
           IN /\ longer \in Seq(Listed(longer)) /\ DOMAIN longer = 1..n + 1 /\ longer[n + 1] = x
              /\ DOMAIN list = 1..n /\ n \in Nat /\ \A i \in 1..n : longer[i] = list[i]
<1> DEFINE longer == Append(list, x)
           n == Len(list)
           S == Listed(list) \cup {x}
<1>1. DOMAIN list = 1..n /\ n \in Nat
    BY LenProperties
<1>2. list \in Seq(S)
    BY WiderSeq
<1> HIDE DEF S
<1>3. x \in S
    BY DEF S
<1>4. longer \in Seq(S) /\ Len(longer) = n + 1 /\ longer[n + 1] = x /\ \A i \in 1..n : longer[i] = list[i]
    BY <1>2, <1>3, AppendProperties
<1> HIDE DEF longer
<1>5. DOMAIN longer = 1..n + 1 /\ Len(longer) = n + 1
    BY <1>4, LenProperties
<1>6. longer = [i \in 1..n + 1 |-> longer[i]]
    BY <1>4, <1>5
<1>7. \A i \in 1..n + 1 : longer[i] \in Listed(longer)
    BY <1>5 DEF Listed
<1>8. longer \in Seq(Listed(longer))
    <2>1. n + 1 \in Nat
        BY <1>1, SMT
    <2> QED BY <1>6, <1>7, <2>1, IsASeq
<1> QED
    BY <1>1, <1>4, <1>5, <1>8 DEF longer

LEMMA TailListed ==
    ASSUME NEW list, list \in Seq(Listed(list)), list # <<>>
    PROVE  /\ Tail(list) \in Seq(Listed(Tail(list))) /\ 1 \in DOMAIN list
           /\ \A i \in DOMAIN Tail(list) : \E j \in DOMAIN list : Tail(list)[i] = list[j]
           /\ \A j \in DOMAIN list : j # 1 => \E i \in DOMAIN Tail(list) : Tail(list)[i] = list[j]
<1> DEFINE rest == Tail(list)
           n == Len(list)
           S == Listed(list)
<1>1. DOMAIN list = 1..n /\ n \in Nat /\ n # 0
    BY LenProperties, EmptySeq
<1> HIDE DEF S
<1>2. rest \in Seq(S) /\ Len(rest) = n - 1 /\ \A i \in 1..n - 1 : rest[i] = list[i + 1]
    BY HeadTailProperties DEF S
<1> HIDE DEF rest
<1>3. DOMAIN rest = 1..n - 1
    BY <1>2, LenProperties
<1>4. rest \in Seq(Listed(rest))
    <2>1. rest = [i \in 1..n - 1 |-> rest[i]]
        BY <1>2, <1>3
    <2>2. \A i \in 1..n - 1 : rest[i] \in Listed(rest)
        BY <1>3 DEF Listed
    <2>3. n - 1 \in Nat
        BY <1>1, SMT
    <2> QED BY <2>1, <2>2, <2>3, IsASeq
<1>5. \A i \in 1..n - 1 : i + 1 \in 1..n
    BY <1>1, SMT
<1>6. \A j \in 1..n : j # 1 => j - 1 \in 1..n - 1 /\ (j - 1) + 1 = j
    BY <1>1, SMT
<1>7. 1 \in 1..n
    BY <1>1, SMT
<1>8. \A i \in DOMAIN rest : \E j \in DOMAIN list : rest[i] = list[j]
    BY <1>1, <1>2, <1>3, <1>5
<1>9. ASSUME NEW j \in DOMAIN list, j # 1 PROVE \E i \in DOMAIN rest : rest[i] = list[j]
    <2>1. j - 1 \in 1..n - 1 /\ rest[j - 1] = list[j]
        BY <1>1, <1>2, <1>6, <1>9
    <2> QED BY <1>3, <2>1
<1> QED
    BY <1>1, <1>4, <1>7, <1>8, <1>9 DEF rest

LEMMA InspectPluginKeeps ==
    ASSUME SurveyKept, InspectPlugin
    PROVE  SurveyKept'
<1> DEFINE next == survey.pending[1]
           report == IF hostDisk.host = "codex" THEN CodexPlugin(next) ELSE ClaudePlugin(next)
           n == Len(survey.plugins)
<1>1. /\ survey.at = "plugins" /\ survey.pending # <<>> /\ hostDisk' = hostDisk /\ coverage' = coverage
      /\ survey' = [survey EXCEPT !.pending = Tail(survey.pending), !.plugins = Append(survey.plugins, report),
                                  !.inspected = survey.inspected \cup InspectedIn(report)]
    BY DEF InspectPlugin
<1>2. /\ DiskFits(hostDisk) /\ DOMAIN survey = SurveyFields /\ survey.straddled \in BOOLEAN /\ ReadingKept
    BY <1>1 DEF SurveyKept, DiskKept
<1>3. /\ SourcesFit(survey.sources, hostDisk.host) /\ ReportsFit(survey.plugins, hostDisk.host)
      /\ PendingFits(survey.pending, hostDisk)
    BY <1>2 DEF ReadingKept
<1> DEFINE rest == Tail(survey.pending)
<1>4. /\ rest \in Seq(Listed(rest)) /\ 1 \in DOMAIN survey.pending
      /\ \A i \in DOMAIN rest : \E j \in DOMAIN survey.pending : rest[i] = survey.pending[j]
      /\ \A j \in DOMAIN survey.pending : j # 1 => \E i \in DOMAIN rest : rest[i] = survey.pending[j]
    BY <1>1, <1>3, TailListed DEF PendingFits
<1> HIDE DEF rest
<1>5. /\ ReportHolds(report, hostDisk.host)
      /\ \A plugin : Awaited(hostDisk, plugin, next) => Heard(hostDisk, plugin, report)
    <2>1. CASE hostDisk.host = "codex"
        <3>1. next.dirs \in Seq({"source", "cache"})
            BY <1>3, <1>4, <2>1 DEF PendingFits
        <3> HIDE DEF next
        <3> QED BY <1>2, <2>1, <3>1, CodexPluginHolds
    <2>2. CASE hostDisk.host # "codex"
        <3>1. next.dir \in DOMAIN hostDisk.plugin
            BY <1>3, <1>4, <2>2 DEF PendingFits
        <3> HIDE DEF next
        <3> QED BY <1>2, <2>2, <3>1, ClaudePluginHolds
    <2> QED BY <2>1, <2>2
<1> HIDE DEF report
<1> DEFINE plugins == Append(survey.plugins, report)
<1>6. /\ plugins \in Seq(Listed(plugins)) /\ DOMAIN plugins = 1..n + 1 /\ plugins[n + 1] = report
      /\ DOMAIN survey.plugins = 1..n /\ n \in Nat /\ \A i \in 1..n : plugins[i] = survey.plugins[i]
    BY <1>3, AppendListed DEF ReportsFit
<1>7. \A i \in DOMAIN plugins : i = n + 1 \/ (i \in DOMAIN survey.plugins /\ plugins[i] = survey.plugins[i])
    BY <1>6, SMT
<1>8. n + 1 \in DOMAIN plugins /\ \A i \in DOMAIN survey.plugins : i \in DOMAIN plugins /\ plugins[i] = survey.plugins[i]
    BY <1>6, SMT
<1> HIDE DEF plugins, n
<1> DEFINE inspected == survey.inspected \cup InspectedIn(report)
<1>9. /\ DOMAIN survey' = SurveyFields /\ survey'.at = "plugins" /\ survey'.sources = survey.sources
      /\ survey'.pending = rest /\ survey'.plugins = plugins /\ survey'.straddled = survey.straddled
      /\ survey'.inspected = inspected
    <2>1. survey' = [survey EXCEPT !.pending = rest, !.plugins = plugins, !.inspected = inspected]
        BY <1>1 DEF rest, plugins
    <2> HIDE DEF inspected
    <2> QED BY <1>1, <1>2, <2>1 DEF SurveyFields
<1>10. ReportsFit(plugins, hostDisk.host)
    BY <1>3, <1>5, <1>6, <1>7 DEF ReportsFit, ReportHolds
<1>11. PendingFits(rest, hostDisk)
    BY <1>3, <1>4 DEF PendingFits
<1>12. ASSUME ~survey.straddled
       PROVE  /\ ServersShown(survey', hostDisk) /\ SourcesApart(survey.sources, hostDisk)
              /\ hostDisk.host = "codex" => \A i \in DOMAIN plugins :
                    plugins[i].where[1] = "name" \/ (plugins[i].where \in inspected /\ Exists(plugins[i].where))
              /\ \A plugin \in EnabledIn(hostDisk) :
                    \/ \E i \in DOMAIN rest : Awaited(hostDisk, plugin, rest[i])
                    \/ \E i \in DOMAIN plugins : Heard(hostDisk, plugin, plugins[i])
    <2>1. ServersShown(survey, hostDisk) /\ SourcesApart(survey.sources, hostDisk)
        BY <1>2, <1>12 DEF ReadingKept
    <2>2. ServersShown(survey', hostDisk)
        BY <1>5, <1>6, <1>7, <1>9, <2>1 DEF ServersShown, ReportHolds
    <2>3. hostDisk.host = "codex" => \A i \in DOMAIN plugins :
                    plugins[i].where[1] = "name" \/ (plugins[i].where \in inspected /\ Exists(plugins[i].where))
        BY <1>2, <1>5, <1>6, <1>7, <1>12 DEF ReadingKept, ReportHolds
    <2>4. ASSUME NEW plugin \in EnabledIn(hostDisk)
          PROVE  \/ \E i \in DOMAIN rest : Awaited(hostDisk, plugin, rest[i])
                 \/ \E i \in DOMAIN plugins : Heard(hostDisk, plugin, plugins[i])
        <3>1. \/ \E i \in DOMAIN survey.pending : Awaited(hostDisk, plugin, survey.pending[i])
              \/ \E i \in DOMAIN survey.plugins : Heard(hostDisk, plugin, survey.plugins[i])
            BY <1>2, <1>12 DEF ReadingKept
        <3>2. CASE \E i \in DOMAIN survey.plugins : Heard(hostDisk, plugin, survey.plugins[i])
            BY <1>8, <3>2
        <3>3. ASSUME NEW i \in DOMAIN survey.pending, Awaited(hostDisk, plugin, survey.pending[i])
              PROVE  \/ \E j \in DOMAIN rest : Awaited(hostDisk, plugin, rest[j])
                     \/ \E j \in DOMAIN plugins : Heard(hostDisk, plugin, plugins[j])
            <4>1. CASE i = 1
                BY <1>5, <1>6, <1>8, <3>3, <4>1
            <4>2. CASE i # 1
                BY <1>4, <3>3, <4>2
            <4> QED BY <4>1, <4>2
        <3> QED BY <3>1, <3>2, <3>3
    <2> QED BY <2>1, <2>2, <2>3, <2>4
<1>13. ReadingKept'
    <2>1. \A plugin, x : Awaited(hostDisk, plugin, x) => Awaited(hostDisk, plugin, x)'
        BY <1>1 DEF Awaited, resolveEnablement
    <2>2. \A f : Exists(f)' = Exists(f)
        BY <1>1 DEF Exists
    <2>3. /\ SourcesFit(survey'.sources, hostDisk'.host) /\ ReportsFit(survey'.plugins, hostDisk'.host)
          /\ PendingFits(survey'.pending, hostDisk')
        BY <1>1, <1>3, <1>9, <1>10, <1>11
    <2>4. ASSUME ~survey'.straddled
          PROVE  /\ ServersShown(survey', hostDisk') /\ SourcesApart(survey'.sources, hostDisk')
                 /\ hostDisk'.host = "codex" => \A i \in DOMAIN survey'.plugins :
                      survey'.plugins[i].where[1] = "name" \/
                      (survey'.plugins[i].where \in survey'.inspected /\ Exists(survey.plugins[i].where)')
        <3>1. ~survey.straddled
            BY <1>9, <2>4
        <3>2. ServersShown(survey', hostDisk') /\ SourcesApart(survey'.sources, hostDisk')
            BY <1>1, <1>9, <1>12, <3>1
        <3>3. hostDisk.host = "codex" => \A i \in DOMAIN plugins :
                    plugins[i].where[1] = "name" \/ (plugins[i].where \in inspected /\ Exists(plugins[i].where))
            BY <1>12, <3>1
        <3>4. \A i \in DOMAIN plugins : Exists(plugins[i].where) => Exists(survey.plugins[i].where)'
            BY <1>1, <1>9 DEF Exists
        <3> HIDE DEF inspected
        <3> QED BY <1>1, <1>9, <3>2, <3>3, <3>4
    <2>5. ASSUME ~survey'.straddled, NEW plugin \in EnabledIn(hostDisk')
          PROVE  \/ \E i \in DOMAIN survey'.pending : Awaited(hostDisk, plugin, survey.pending[i])'
                 \/ \E i \in DOMAIN survey'.plugins : Heard(hostDisk', plugin, survey'.plugins[i])
        <3>1. \/ \E i \in DOMAIN rest : Awaited(hostDisk, plugin, rest[i])
              \/ \E i \in DOMAIN plugins : Heard(hostDisk, plugin, plugins[i])
            BY <1>1, <1>9, <1>12, <2>5
        <3>2. ASSUME NEW i \in DOMAIN rest, Awaited(hostDisk, plugin, rest[i])
              PROVE  i \in DOMAIN survey'.pending /\ Awaited(hostDisk, plugin, survey.pending[i])'
            BY <1>1, <1>9, <3>2 DEF Awaited, resolveEnablement
        <3> QED BY <1>1, <1>9, <3>1, <3>2
    <2> QED BY <2>3, <2>4, <2>5 DEF ReadingKept
<1>14. DiskKept' /\ RowsKept'
    BY <1>1 DEF SurveyKept, DiskKept, RowsKept
<1>15. CoverageIsHonest'
    BY <1>9 DEF CoverageIsHonest, ObservedIsProxied, ObservedStands, NothingIsSilent, RefusedForCause
<1> QED
    BY <1>2, <1>9, <1>13, <1>14, <1>15 DEF SurveyKept

LEMMA SurveyIsKept == SurveySpec => []SurveyKept
<1>1. SurveyInit => SurveyKept
    BY SurveyStarts
<1>2. SurveyKept /\ [SurveyNext]_surveyVars => SurveyKept'
    BY ReadConfigurationKeeps, InspectPluginKeeps, CollectKeeps, DiscoverKeeps, EditKeeps, SurveyStutters
       DEF SurveyNext
<1> QED
    BY <1>1, <1>2, PTL DEF SurveySpec

(* Whatever is edited between the steps of a survey: an observed route is behind the proxy, a    *)
(* refreshed one stands on an unchanged file, no enabled plugin is passed over, and a discovery   *)
(* fails only for cause (src/coverage.ts, src/routes/).                                 *)
THEOREM CoverageIsHonestTheorem == SurveySpec => []CoverageIsHonest
<1>1. SurveyKept => CoverageIsHonest
    BY DEF SurveyKept
<1> QED
    BY <1>1, SurveyIsKept, PTL

(* What is said of a tool server is so, whoever says it: every reader of a connection agrees   *)
(* on it, and no route is called observed that is not behind the proxy (src/connections.ts,      *)
(* src/coverage.ts).                                                                   *)
THEOREM ServersAreKnownTheorem == InventorySpec /\ SurveySpec => []ServersAreKnown
<1>1. ConnectionsAgree /\ CoverageIsHonest => ServersAreKnown
    BY DEF ServersAreKnown
<1> QED
    BY <1>1, ConnectionsAgreeTheorem, CoverageIsHonestTheorem, PTL
=================================================================================
