-------------------------- MODULE ConnectionInventory --------------------------
(***************************************************************************)
(* Connections: how a tool server is inspected and becomes an inventory entry *)
(* (src/connections.ts, src/observation/index.ts), how the initializer sums    *)
(* the inventory up and validates its own summary (src/initialization.ts), and *)
(* how the host's registry of opaque routes opens an adopted connection later,  *)
(* when the server may have changed.  What the survey of the agent's routes    *)
(* says of the same servers is in CoverageSurvey.                              *)
(*                                                                         *)
(* A tool's digest is its name with the version of its server.               *)
(***************************************************************************)
EXTENDS CoverageSurvey

CONSTANTS
    Candidates,     \* connections to inspect: kind, routeStatus, expected account, coverage
    Adapters,       \* reviewed adapters: pins, source, write, probe
    Servers,        \* a server's tools, version, name and answer to the probe
    ConnectionFiles \* entries read from the connectors directory

VARIABLES
    candidate, adapter,     \* the connection and its adapter
    entry,                  \* its inventory entry
    summary,                \* its line in the path-c artifact
    accepted,               \* whether the initializer accepts its own artifact
    registered,             \* whether the route registry took the descriptor
    opened                  \* the server that a resolve returned

inventoryVars == <<candidate, adapter, entry, summary, accepted, registered, opened>>

NoValue == [none |-> TRUE]
RouteStatus == {"callable", "host-private", "unsupported"}

ASSUME InventoryAssumption ==
    /\ \A c \in Candidates : c.routeStatus \in RouteStatus
    /\ NoValue \notin ConnectionFiles /\ NoValue \notin Candidates
ConnectionKinds == {"adopted-mcp-stdio", "adopted-mcp-http", "composio-managed", "native-https",
                    "host-private"}

InventoryInit ==
    /\ candidate = NoValue /\ adapter = NoValue /\ entry = NoValue /\ summary = NoValue
    /\ accepted = "none" /\ registered = "none" /\ opened = NoValue

-----------------------------------------------------------------------------
(* Inspecting a connection. *)

digestNormalizedMcpToolSchemas(server) == {<<tool, server.version>> : tool \in server.tools}
Endpoints(a) == a.source \cup a.write

routeKind(kind) == CASE kind = "adopted-mcp-stdio" -> "mcp-stdio"
                     [] kind = "adopted-mcp-http" -> "mcp-http"
                     [] OTHER -> "opaque-host"

(* The reviewed read-only probe, and what it answers. *)
verifyConnectionAccount(server, a, expected) ==
    IF a.probe # "reviewed" \/ "whoami" \notin server.tools THEN "probe absent"
    ELSE IF server.answer = "error" THEN "failed"
    ELSE IF expected \notin {"any", server.answer} THEN "mismatch"
    ELSE server.answer

EntryOf(c, status, account, schema) ==
    [kind |-> c.kind, routeStatus |-> c.routeStatus, status |-> status, account |-> account,
     schema |-> schema, descriptor |-> NoValue]

Descriptor(c, a, server) ==
    [kind |-> c.kind, route |-> routeKind(c.kind), endpoints |-> Endpoints(a),
     name |-> server.name, account |-> server.answer, coverage |-> c.coverage,
     schemas |-> digestNormalizedMcpToolSchemas(server)]

inspectCallable(c, a, server) ==
    LET observed == digestNormalizedMcpToolSchemas(server)
        answer == verifyConnectionAccount(server, a, c.expected)
    IN IF ~server.up \/ a.pins = {} THEN EntryOf(c, "discovered-unverified", "unverified", "unverified")
       ELSE IF a.pins # observed \/ ~(Endpoints(a) \subseteq server.tools)
            THEN EntryOf(c, "schema-drifted", "unverified", "drifted")
       ELSE IF server.name = "" \/ answer \in {"probe absent", "failed"}
            THEN EntryOf(c, "discovered-unverified", "unverified", "verified")
       ELSE IF answer = "mismatch" THEN EntryOf(c, "account-mismatched", "mismatched", "verified")
       ELSE [EntryOf(c, "usable", "verified", "verified") EXCEPT !.descriptor = Descriptor(c, a, server)]

(* Only a callable route with an adapter is connected to. *)
inventoryEntry(c, a, server) ==
    IF c.routeStatus = "host-private" THEN EntryOf(c, "shadow-only", "unverified", "unverified")
    ELSE IF c.routeStatus = "unsupported" \/ ~a.present
         THEN EntryOf(c, "unsupported", "unsupported", "unsupported")
    ELSE inspectCallable(c, a, server)

InspectConnection ==
    /\ entry = NoValue
    /\ \E c \in Candidates, a \in Adapters, server \in Servers :
          /\ candidate' = c /\ adapter' = a
          /\ entry' = inventoryEntry(c, a, server)
    /\ UNCHANGED <<summary, accepted, registered, opened>>

(* A file of the connectors directory is an entry if it is coherent, else an issue. *)
connectionRouteMatchesKind(d) == d.route = routeKind(d.kind)
normalizes(e) ==
    /\ (e.status = "usable") = (e.descriptor # NoValue)
    /\ e.status = "usable" =>
          /\ e.routeStatus = "callable" /\ e.account = "verified" /\ e.schema = "verified"
          /\ e.descriptor.kind = e.kind /\ connectionRouteMatchesKind(e.descriptor)

LoadConnection ==
    /\ entry = NoValue
    /\ entry' \in {e \in ConnectionFiles : normalizes(e)}
    /\ UNCHANGED <<candidate, adapter, summary, accepted, registered, opened>>
-----------------------------------------------------------------------------
(* The path-c artifact, and its validation before it is written. *)

connectionClassification(e) ==
    IF e.status = "unsupported" THEN "unsupported"
    ELSE IF e.status = "usable" /\ e.routeStatus # "host-private"
            /\ e.descriptor.coverage.outcome = "supported" THEN "outcome-capable"
    ELSE "shadow-only"

Covered(e, field, otherwise) ==
    IF e.descriptor = NoValue THEN otherwise ELSE e.descriptor.coverage[field]

summarizeConnection(e) ==
    [kind |-> e.kind, status |-> e.status, classification |-> connectionClassification(e),
     outcome |-> Covered(e, "outcome", IF e.status = "unsupported" THEN "unsupported" ELSE "unknown"),
     exclusive |-> Covered(e, "exclusive", "unknown")]

exclusiveStatus(line) ==
    CASE line.exclusive = "not-declared" -> "not-declared"
      [] line.exclusive = "declared-surface" -> "declared-surface"
      [] OTHER -> "unknown"

expectedConnectionClass(line) ==
    IF line.status = "unsupported" THEN "unsupported"
    ELSE IF line.status = "usable" /\ line.kind # "host-private" /\ line.outcome = "supported"
         THEN "outcome-capable"
    ELSE "shadow-only"

validateArtifact(line) == line.classification = expectedConnectionClass(line)

SummarizeConnection ==
    /\ entry # NoValue /\ summary = NoValue
    /\ summary' = summarizeConnection(entry)
    /\ accepted' = IF validateArtifact(summary') THEN "yes" ELSE "no"
    /\ UNCHANGED <<candidate, adapter, entry, registered, opened>>
-----------------------------------------------------------------------------
(* The registry of opaque routes: register and resolve. *)

(* The adapter's endpoints are compared as lists: one that is both a source and a  *)
(* write is listed twice there and once in the descriptor.                         *)
Registrable(a, d) ==
    a.pins = d.schemas /\ Endpoints(a) = d.endpoints /\ a.source \cap a.write = {}

RegisterRoute ==
    /\ candidate # NoValue /\ entry.descriptor # NoValue /\ registered = "none"
    /\ registered' = IF Registrable(adapter, entry.descriptor) THEN "yes" ELSE "no"
    /\ UNCHANGED <<candidate, adapter, entry, summary, accepted, opened>>

SameSchemasByName(server, d) ==  \* mutant: only the names of the tools are compared
    server.tools = {schema[1] : schema \in d.schemas}
SameSchemas(server, d) == digestNormalizedMcpToolSchemas(server) = d.schemas

Resolvable(server, d) ==
    /\ server.up /\ server.name = d.name
    /\ SameSchemas(server, d)
    /\ d.endpoints \subseteq server.tools
    /\ verifyConnectionAccount(server, adapter, d.account) = d.account

ResolveRoute ==
    /\ registered = "yes" /\ opened = NoValue
    /\ opened' \in {server \in Servers : Resolvable(server, entry.descriptor)}
    /\ UNCHANGED <<candidate, adapter, entry, summary, accepted, registered>>

InventoryNext == InspectConnection \/ LoadConnection \/ SummarizeConnection \/ RegisterRoute
                 \/ ResolveRoute
InventorySpec == InventoryInit /\ [][InventoryNext]_inventoryVars
-----------------------------------------------------------------------------
(* Entries, summaries and answers are what their interfaces declare. *)
InventoryTypeOK ==
    /\ accepted \in {"none", "yes", "no"} /\ registered \in {"none", "yes", "no"}
    /\ entry # NoValue => entry.kind \in ConnectionKinds
    /\ opened \in Servers \cup {NoValue}

(* What the initializer writes is what it accepts, whatever the inventory holds.      *)
(* It is not: a usable connection of the kind "host-private" is summed up as able to    *)
(* carry an outcome and validated as shadow-only, and every initialization of that      *)
(* project throws (connectionClassification asks for the route, the validation for the  *)
(* kind).                                                                           *)
OwnArtifactAccepted == accepted # "no"

(* Only such a connection is refused.  What is called outcome-capable is a callable     *)
(* route that was verified; a verified connection can be registered unless an endpoint  *)
(* is declared twice; and a resolved route leads to a server that would be inspected to  *)
(* the very descriptor that was adopted, whatever the server was changed to meanwhile.    *)
ConnectionsAgree ==
    /\ accepted = "no" => entry.kind = "host-private" /\ entry.status = "usable"
    /\ summary # NoValue /\ summary.classification = "outcome-capable" =>
          entry.routeStatus = "callable" /\ entry.account = "verified" /\ entry.schema = "verified"
    /\ registered = "no" => adapter.source \cap adapter.write # {}
    /\ opened # NoValue => inspectCallable(candidate, adapter, opened).descriptor = entry.descriptor

(* What is said of a server is so: every reader of a connection agrees on it, and no route    *)
(* is reported as observed that is not behind the proxy (src/connections.ts,              *)
(* src/coverage.ts).                                                                     *)
ServersAreKnown == ConnectionsAgree /\ CoverageIsHonest
=============================================================================
