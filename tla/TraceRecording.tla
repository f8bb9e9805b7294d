----------------------------- MODULE TraceRecording -----------------------------
(***************************************************************************)
(* The recording proxy of src/recorder.ts: an MCP server that passes tool     *)
(* calls through to the servers it wraps and, between start_recording and      *)
(* stop_recording, appends what it sees to a trace file.  Handlers interleave  *)
(* at every await: a start lists the directory before it opens its window, a   *)
(* call waits for its server, a stop waits for the appends queued before it.    *)
(*                                                                         *)
(* A policy stands before each call (PolicyFile reads it), and the provenance   *)
(* of an argument is looked up in the index of src/provenance.ts.  All          *)
(* recordings of a behaviour have one name: their files differ by number alone. *)
(***************************************************************************)
EXTENDS Integers, Sequences, SequencesExt, FiniteSets, FiniteSetsExt

CONSTANTS
    Handlers,           \* requests the agent may have under way at once
    Tools,              \* exposed tools
    Values,             \* what arguments and responses hold
    PolicyLoads,        \* what PolicyFile's loadPolicyForWrap may answer, rules by their subjects
    LeafCap,            \* LIVE_PROVENANCE_LEAF_CAP
    MaxRequests, MaxStarts      \* bounds: requests; starts among them

ASSUME RecordingAssumption == LeafCap \in Nat \ {0} /\ MaxRequests \in Nat /\ MaxStarts \in Nat

VARIABLES
    policyLoad,     \* the policy read when the proxy started
    window,         \* the Recorder's fields: recording, path, seq, callIndex and provenance
    handler,        \* a request -> where its handler stands and what it holds
    queue,          \* appends chained to writeQueue: <<file, record>>
    enqueued, written,      \* how many were ever chained, and how many are on disk
    broken,         \* an append has failed: the chain stays rejected
    traces,         \* the trace files, in order of their number
    requests, starts,       \* bound counters
    straddled       \* calls whose answer came after their window had ended (history)

recordingVars == <<policyLoad, window, handler, queue, enqueued, written, broken, traces,
                   requests, starts, straddled>>
-----------------------------------------------------------------------------
(* A deny rule names a tool or a host in the arguments; those with an escape    *)
(* do not count here: they are for a proxy started with --allow-writes.         *)
evaluatePolicy(tool, value) ==
    IF policyLoad.deny \cap {tool, value} # {} THEN "deny"
    ELSE IF tool \in policyLoad.dryRun THEN "dry_run" ELSE "allow"
-----------------------------------------------------------------------------
(* The live index: the first source of a value is kept; a full index knows that *)
(* it misses some, and so does one with a response it could not address.        *)
LiveProvenanceIndex == [leaves |-> {}, accepted |-> 0, gaps |-> {}, saturated |-> FALSE]

addSource(index, call, value) ==
    IF index.accepted >= LeafCap THEN [index EXCEPT !.saturated = TRUE]
    ELSE [index EXCEPT !.accepted = @ + 1,
                       !.leaves = IF \E leaf \in @ : leaf.value = value THEN @
                                  ELSE @ \cup {[value |-> value, call |-> call]}]

(* A slip: a full index answers as if it held everything.                        *)
resolveUnsaturated(index, value) ==
    LET hits == {leaf \in index.leaves : leaf.value = value} IN
    IF hits # {} THEN [state |-> "grounded", from |-> (CHOOSE leaf \in hits : TRUE).call]
    ELSE IF index.gaps # {} THEN [state |-> "unresolved", from |-> -1]
    ELSE [state |-> "authored", from |-> -1]

resolve(index, value) ==
    LET hits == {leaf \in index.leaves : leaf.value = value} IN
    IF hits # {} THEN [state |-> "grounded", from |-> (CHOOSE leaf \in hits : TRUE).call]
    ELSE IF index.gaps # {} \/ index.saturated THEN [state |-> "unresolved", from |-> -1]
    ELSE [state |-> "authored", from |-> -1]
-----------------------------------------------------------------------------
HandlerIdle == [at |-> "idle"]
Closed == [recording |-> FALSE, path |-> 0, seq |-> 0, callIndex |-> 0,
           provenance |-> LiveProvenanceIndex, id |-> 0]

(* A line of a trace.  "owner" is the request it is about, which the file does   *)
(* not hold; "from" is the call a grounded argument is traced to.              *)
Record(t, i, seq, owner, kind, value) ==
    [t |-> t, i |-> i, seq |-> seq, owner |-> owner, kind |-> kind, value |-> value, from |-> -1]

(* write(): a record without an open window is dropped, its number is used up, and  *)
(* so is one behind an append that failed.                                    *)
Chain(path, records) ==
    IF path = 0 \/ broken THEN UNCHANGED <<queue, enqueued>>
    ELSE /\ queue' = queue \o [k \in DOMAIN records |-> <<path, records[k]>>]
         /\ enqueued' = enqueued + Len(records)

write(records) == Chain(window.path, records)

(* flush() returns when what was chained before it is written, and throws when not. *)
Flushed(h) == broken \/ written >= handler[h].until

Return(h) == handler' = [handler EXCEPT ![h] = HandlerIdle]

NewRequest(h) == /\ handler[h] = HandlerIdle /\ requests < MaxRequests /\ requests' = requests + 1

(* start(): the check comes before the directory is read, the window after.     *)
StartRecording(h) ==
    /\ NewRequest(h) /\ starts < MaxStarts /\ starts' = starts + 1
    /\ handler' = IF window.recording THEN handler ELSE [handler EXCEPT ![h] = [at |-> "listing"]]
    /\ UNCHANGED <<policyLoad, window, queue, enqueued, written, broken, traces, straddled>>

(* nextTracePath: one past the highest number; a file exists from its first line. *)
nextTracePath(h) ==
    /\ handler[h].at = "listing"
    /\ handler' = [handler EXCEPT ![h] =
          [at |-> "naming",
           path |-> 1 + Max({0} \cup {n \in DOMAIN traces : traces[n] # <<>>})]]
    /\ UNCHANGED <<policyLoad, window, queue, enqueued, written, broken, traces, requests, starts, straddled>>

OpenWindow(h) ==
    /\ handler[h].at = "naming"
    /\ LET path == handler[h].path
           meta == Record("meta", -1, 0, 0, policyLoad.status, "none")
       IN /\ window' = [recording |-> TRUE, path |-> path, seq |-> 1, callIndex |-> 0,
                        provenance |-> LiveProvenanceIndex, id |-> window.id + 1]
          /\ Chain(path, <<meta>>)
    /\ handler' = [handler EXCEPT ![h] = [at |-> "opened", until |-> enqueued']]
    /\ UNCHANGED <<policyLoad, written, broken, traces, requests, starts, straddled>>

(* The answer to a start, or a stop, waits for the appends chained before it.    *)
Opened(h) == /\ handler[h].at = "opened" /\ Flushed(h)
             /\ Return(h)
             /\ UNCHANGED <<policyLoad, window, queue, enqueued, written, broken, traces, requests, starts,
                            straddled>>

Note(h) ==
    /\ NewRequest(h) /\ window.recording
    /\ write(<<Record("note", -1, window.seq, 0, "note", "none")>>)
    /\ window' = [window EXCEPT !.seq = @ + 1]
    /\ UNCHANGED <<policyLoad, handler, written, broken, traces, starts, straddled>>

StopRecording(h) ==
    /\ NewRequest(h) /\ window.recording
    /\ handler' = [handler EXCEPT ![h] = [at |-> "flushing", until |-> enqueued]]
    /\ UNCHANGED <<policyLoad, window, queue, enqueued, written, broken, traces, starts, straddled>>

CloseWindow(h) ==
    /\ handler[h].at = "flushing" /\ Flushed(h)
    /\ window' = IF broken THEN window ELSE [window EXCEPT !.recording = FALSE, !.path = 0]
    /\ Return(h)
    /\ UNCHANGED <<policyLoad, queue, enqueued, written, broken, traces, requests, starts, straddled>>
-----------------------------------------------------------------------------
(* A call: judged, recorded if a window is open, and then forwarded.  What the   *)
(* handler remembers across the await is that it was recording, and its index.   *)
CallTool(h, tool, value) ==
    /\ NewRequest(h)
    /\ LET owner == requests'
           verdict == evaluatePolicy(tool, value)
           i == window.callIndex
           found == resolve(window.provenance, value)
           call == Record("call", i, window.seq, owner, "call", value)
           prov == [Record("prov", i, window.seq + 1, owner, found.state, value)
                        EXCEPT !.from = found.from]
       IN /\ IF ~window.recording
             THEN UNCHANGED <<queue, enqueued, window>>
             ELSE /\ write(IF verdict = "allow" THEN <<call, prov>>
                           ELSE <<call, Record("result", i, window.seq + 1, owner, verdict, "none")>>)
                  /\ window' = [window EXCEPT !.seq = @ + 2, !.callIndex = @ + 1]
          /\ handler' = IF verdict # "allow" THEN handler
                        ELSE [handler EXCEPT ![h] =
                               [at |-> "downstream", owner |-> owner, i |-> i,
                                isRecording |-> window.recording, id |-> window.id]]
    /\ UNCHANGED <<policyLoad, written, broken, traces, starts, straddled>>

(* recordResult(), under whatever window is open by now.  A response that is not *)
(* one JSON text is a gap of the index ("none").                              *)
DownstreamAnswer(h, outcome) ==
    /\ handler[h].at = "downstream"
    /\ LET held == handler[h]
           late == ~window.recording \/ window.id # held.id
           index == window.provenance
       IN IF ~held.isRecording
          THEN UNCHANGED <<queue, enqueued, window, straddled>>
          ELSE /\ write(<<Record("result", held.i, window.seq, held.owner,
                                 IF outcome.ok THEN "ok" ELSE "error", outcome.value)>>)
               /\ window' = [window EXCEPT !.seq = @ + 1,
                      !.provenance = IF ~outcome.ok THEN index
                                     ELSE IF outcome.value = "none"
                                          THEN [index EXCEPT !.gaps = @ \cup {held.i}]
                                          ELSE addSource(index, held.i, outcome.value)]
               /\ straddled' = IF late THEN straddled \cup {held.owner} ELSE straddled
    /\ Return(h)
    /\ UNCHANGED <<policyLoad, written, broken, traces, requests, starts>>

(* The appends are chained: one at a time, in the order they were queued.        *)
AppendNext ==
    /\ queue # <<>>
    /\ traces' = [traces EXCEPT ![Head(queue)[1]] = Append(@, Head(queue)[2])]
    /\ queue' = Tail(queue) /\ written' = written + 1
    /\ UNCHANGED <<policyLoad, window, handler, enqueued, broken, requests, starts, straddled>>

(* One append fails, and with it every later link of the chain: nothing is recorded   *)
(* any more, and no stop closes the window.                                     *)
AppendFails ==
    /\ queue # <<>>
    /\ broken' = TRUE /\ queue' = <<>>
    /\ UNCHANGED <<policyLoad, window, handler, enqueued, written, traces, requests, starts, straddled>>
-----------------------------------------------------------------------------
Outcomes == [ok : {TRUE}, value : Values \cup {"none"}] \cup [ok : {FALSE}, value : {"none"}]

RecordingInitWith(loads) ==
    /\ policyLoad \in loads
    /\ window = Closed
    /\ handler = [h \in Handlers |-> HandlerIdle]
    /\ queue = <<>> /\ enqueued = 0 /\ written = 0 /\ broken = FALSE
    /\ traces = [n \in 1..MaxStarts |-> <<>>]
    /\ requests = 0 /\ starts = 0 /\ straddled = {}

RecordingInit == RecordingInitWith(PolicyLoads)

RecordingNext ==
    \/ AppendNext \/ AppendFails
    \/ \E h \in Handlers :
          \/ StartRecording(h) \/ nextTracePath(h) \/ OpenWindow(h) \/ Opened(h)
          \/ Note(h) \/ StopRecording(h) \/ CloseWindow(h)
          \/ \E tool \in Tools, value \in Values : CallTool(h, tool, value)
          \/ \E outcome \in Outcomes : DownstreamAnswer(h, outcome)
RecordingSpec == RecordingInit /\ [][RecordingNext]_recordingVars
-----------------------------------------------------------------------------
Of(trace, t) == {k \in DOMAIN trace : trace[k].t = t}

(* One start opened the file: it holds one meta record.                         *)
OneWindow(trace) == Cardinality(Of(trace, "meta")) = 1

(* What a prov record says of an argument is true of the trace it stands in:      *)
(* "grounded" names a response recorded before it that holds the value, and         *)
(* "authored" is said only when every response before it was addressed and none     *)
(* holds it; a full index never turns a miss into "authored" (recordProvenance).    *)
ProvenanceIsTrue ==
    \A n \in DOMAIN traces : LET trace == traces[n] IN OneWindow(trace) =>
        \A k \in Of(trace, "prov") :
            LET responses == {j \in Of(trace, "result") : j < k /\ trace[j].kind = "ok"} IN
            /\ trace[k].kind = "authored" =>
                   \A j \in responses : trace[j].value \notin {trace[k].value, "none"}
            /\ trace[k].kind = "grounded" =>
                   \E j \in responses : trace[j].i = trace[k].from
                                        /\ trace[j].value = trace[k].value

(* A result stands behind its call, under the call's index, and no other result  *)
(* has that index, unless its call was under way when its window closed or the   *)
(* file was opened by two starts at once (recordCall, recordResult).            *)
ResultsOfTheirCalls ==
    \A n \in DOMAIN traces : LET trace == traces[n] IN OneWindow(trace) =>
        \A k \in Of(trace, "result") : trace[k].owner \notin straddled =>
            \E j \in Of(trace, "call") :
                /\ j < k /\ trace[j].i = trace[k].i /\ trace[j].owner = trace[k].owner
                /\ \A other \in Of(trace, "call") : trace[other].i = trace[k].i => other = j

(* What a trace says of calls and values is what happened (Recorder).            *)
TraceIsTrue == ProvenanceIsTrue /\ ResultsOfTheirCalls

(* SPEC.md, 2.1: a call's record comes before the result that shares its index.  *)
CallBeforeResult ==
    \A n \in DOMAIN traces : LET trace == traces[n] IN
        \A k \in Of(trace, "result") :
            \E j \in Of(trace, "call") : j < k /\ trace[j].i = trace[k].i
                                          /\ trace[j].owner = trace[k].owner

RecordingTypeOK ==
    /\ policyLoad \in PolicyLoads
    /\ window.recording \in BOOLEAN /\ window.path \in 0..MaxStarts
    /\ {window.seq, window.callIndex, window.id, enqueued, written, requests, starts} \subseteq Nat
    /\ DOMAIN handler = Handlers /\ DOMAIN traces = 1..MaxStarts
    /\ written + Len(queue) = enqueued \/ broken
=============================================================================
