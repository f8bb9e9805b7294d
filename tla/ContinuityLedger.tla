---------------------------- MODULE ContinuityLedger ----------------------------
(***************************************************************************)
(* The continuity ledger of one task: src/continuity/fs-ledger.ts, which      *)
(* appends checkpoints as numbered segments under a writer lock, and the fold *)
(* of src/continuity/fold.ts, which replays every segment at every read.      *)
(*                                                                         *)
(* Agents propose events from what they last read; a checkpoint carries       *)
(* either their own notes or a receipt that the verifier vouches for.         *)
(***************************************************************************)
EXTENDS Integers, Sequences, FiniteSets, SequencesExt

CONSTANTS
    Agents,             \* the processes that append
    Decisions,          \* decision identifiers
    Receipts,           \* verified timelines of the operation, one per receipt
    Notes,              \* the events an agent may propose by itself
    MaxSegments         \* bound: segments of the task

VARIABLES
    segments,           \* the segment files in cursor order: their events
    writerLock,         \* the .writer-lock directory
    temporary,          \* a temporary segment lies in the directory
    agents              \* what each agent is doing

continuityVars == <<segments, writerLock, temporary, agents>>

LedgerStates == {"reserved", "dispatched", "acknowledged", "definitive-failure", "ambiguous",
                 "cancelled", "reconciled"}

CONSEQUENCE_EDGES ==
    [state \in LedgerStates |->
        CASE state = "reserved"   -> {"dispatched", "cancelled"}
          [] state = "dispatched" -> {"acknowledged", "definitive-failure", "ambiguous"}
          [] state \in {"cancelled", "reconciled"} -> {}
          [] OTHER -> {"reconciled"}]

(* An event: its kind, the item it is about, what becomes of it, the receipt that *)
(* proves it (0: nobody).                                                         *)
Event(kind, id, to, proof) == [kind |-> kind, id |-> id, to |-> to, proof |-> proof]

ObservedEvents(r) ==                        \* continuityEventsFromVerifiedAuthorityReceipt
    [i \in DOMAIN Receipts[r] |-> Event("consequence.observed", 1, Receipts[r][i], r)]

(* What an agent may propose by itself (ContinuityEventV1): no event that says observed.  *)
NoteKinds == {"task.opened", "decision.recorded", "decision.superseded", "obligation.opened",
              "obligation.transitioned", "claim.recorded", "claim.updated", "consequence.noted",
              "exception.opened", "exception.resolved"}

ASSUME ContinuityAssumption ==
    /\ Receipts \in Seq(Seq(LedgerStates) \ {<<>>})
    /\ \A r \in DOMAIN Receipts :
          /\ Receipts[r][1] = "reserved"
          /\ \A i \in 2..Len(Receipts[r]) :
                Receipts[r][i] \in CONSEQUENCE_EDGES[Receipts[r][i - 1]]
    /\ \A e \in Notes : e.kind \in NoteKinds /\ e.proof = 0
    /\ MaxSegments \in Nat
-----------------------------------------------------------------------------
Empty == [legal |-> TRUE, opened |-> FALSE, decisions |-> [d \in Decisions |-> "none"],
          obligation |-> "none", claim |-> "none", exception |-> "none",
          operation |-> "none", proof |-> 0]

(* A slip: an agent's note on an operation is taken although a receipt speaks of it.     *)
AcceptsAnyNote(state, e) ==
    IF e.kind = "consequence.noted"
    THEN state.opened /\ state.operation # "none" /\ e.to \in CONSEQUENCE_EDGES[state.operation]
    ELSE state.opened = (e.kind # "task.opened")

(* The conditions under which the fold accepts an event; otherwise it throws. *)
Accepts(state, e) ==
    /\ state.opened = (e.kind # "task.opened")
    /\ CASE e.kind = "decision.recorded"    -> state.decisions[e.id] = "none"
         [] e.kind = "decision.superseded"  ->
              /\ e.id # e.to /\ state.decisions[e.id] = "binding"
              /\ state.decisions[e.to] \in {"binding", "superseded"}
         [] e.kind = "obligation.opened"       -> state.obligation = "none"
         [] e.kind = "obligation.transitioned" -> state.obligation = "open"
         [] e.kind = "claim.recorded"          -> state.claim = "none"
         [] e.kind = "claim.updated"           -> state.claim # "none"
         [] e.kind = "exception.opened"        -> state.exception = "none"
         [] e.kind = "exception.resolved"      -> state.exception = "open"
         [] e.kind = "consequence.noted"       ->
              /\ state.proof = 0
              /\ IF state.operation = "none" THEN e.to = "reserved"
                 ELSE e.to \in CONSEQUENCE_EDGES[state.operation]
         [] e.kind = "consequence.observed"    ->
              IF state.proof = 0 THEN e.to = "reserved"
              ELSE e.proof = state.proof /\ e.to \in CONSEQUENCE_EDGES[state.operation]
         [] OTHER -> TRUE

Apply(state, e) ==
    CASE e.kind = "task.opened"         -> [state EXCEPT !.opened = TRUE]
      [] e.kind = "decision.recorded"   -> [state EXCEPT !.decisions[e.id] = e.to]
      [] e.kind = "decision.superseded" -> [state EXCEPT !.decisions[e.id] = "superseded"]
      [] e.kind \in {"obligation.opened", "obligation.transitioned"} ->
            [state EXCEPT !.obligation = e.to]
      [] e.kind \in {"claim.recorded", "claim.updated"} -> [state EXCEPT !.claim = e.to]
      [] e.kind \in {"exception.opened", "exception.resolved"} ->
            [state EXCEPT !.exception = e.to]
      [] OTHER -> [state EXCEPT !.operation = e.to, !.proof = e.proof]

foldContinuity(events) ==
    FoldLeft(LAMBDA state, e : IF state.legal /\ Accepts(state, e) THEN Apply(state, e)
                               ELSE [state EXCEPT !.legal = FALSE],
             Empty, events)

Folded(files) == foldContinuity(FlattenSeq(files))

(* An event identifier occurs once in the history: a receipt is imported once. *)
Imported(files) == {e.proof : e \in UNION {{files[i][j] : j \in DOMAIN files[i]} :
                                             i \in DOMAIN files}} \ {0}

nextSafeAction(state) ==
    IF state.operation \in {"dispatched", "ambiguous"} THEN "reconcile-before-retry"
    ELSE IF state.exception = "open" THEN "resolve-exception"
    ELSE IF state.obligation = "blocked" THEN "request-human-decision"
    ELSE IF state.obligation = "open" THEN "continue-preparation"
    ELSE "request-outcome-acceptance"
-----------------------------------------------------------------------------
Away == [stage |-> "away", cursor |-> 0, base |-> 0, events |-> <<>>]

ContinuityInit ==
    /\ segments = <<>> /\ writerLock = FALSE /\ temporary = FALSE
    /\ agents = [a \in Agents |-> Away]

Set(a, agent) == agents' = [agents EXCEPT ![a] = agent]

(* An agent that has read the task proposes the next checkpoint.  A read beside a   *)
(* writer is refused, and what was read may be old when the checkpoint is written.   *)
Propose(a) ==
    /\ agents[a].stage = "away" /\ ~writerLock /\ Len(segments) < MaxSegments
    /\ \E events \in {<<e>> : e \in Notes} \cup {ObservedEvents(r) : r \in DOMAIN Receipts} :
          Set(a, [Away EXCEPT !.stage = "proposed", !.cursor = Len(segments), !.events = events])
    /\ UNCHANGED <<segments, writerLock, temporary>>

TakeWriterLock(a) ==
    /\ agents[a].stage = "proposed"
    /\ IF writerLock THEN Set(a, Away)                              \* busy
       ELSE Set(a, [agents[a] EXCEPT !.stage = "locked"])
    /\ writerLock' = TRUE
    /\ UNCHANGED <<segments, temporary>>

(* A slip: the new events are folded upon what the agent read, not upon what there is.   *)
CheckAppendAsRead(a) ==
    /\ agents[a].stage = "locked"
    /\ LET c == agents[a]
           state == foldContinuity(FlattenSeq(SubSeq(segments, 1, c.cursor)) \o c.events)
       IN IF /\ state.legal
             /\ \A i \in DOMAIN c.events : c.events[i].proof \notin Imported(segments)
          THEN /\ Set(a, [c EXCEPT !.stage = "checked", !.base = Len(segments)])
               /\ UNCHANGED writerLock
          ELSE Set(a, Away) /\ writerLock' = FALSE
    /\ UNCHANGED <<segments, temporary>>

(* Under the lock: the whole history is read and folded again with the new events;   *)
(* a stale cursor is an answer, an event the fold refuses an error.  Both unlock.     *)
CheckAppend(a) ==
    /\ agents[a].stage = "locked"
    /\ LET c == agents[a]
           state == foldContinuity(FlattenSeq(segments) \o c.events)
       IN IF /\ c.cursor = Len(segments)
             /\ state.legal
             /\ \A i \in DOMAIN c.events : c.events[i].proof \notin Imported(segments)
          THEN /\ Set(a, [c EXCEPT !.stage = "checked", !.base = Len(segments)])
               /\ UNCHANGED writerLock
          ELSE Set(a, Away) /\ writerLock' = FALSE
    /\ UNCHANGED <<segments, temporary>>

(* The segment is written and synced under a temporary name; when that fails the     *)
(* name is removed and the lock released.                                            *)
WriteSegment(a) ==
    /\ agents[a].stage = "checked"
    /\ \/ /\ temporary' = TRUE /\ UNCHANGED writerLock
          /\ Set(a, [agents[a] EXCEPT !.stage = "written"])
       \/ /\ writerLock' = FALSE /\ UNCHANGED temporary
          /\ Set(a, Away)
    /\ UNCHANGED segments

(* From here on a failure leaves the lock: nobody knows whether the rename happened. *)
RenameSegment(a) ==
    /\ agents[a].stage = "written"
    /\ \/ /\ segments' = [i \in 1..agents[a].base + 1 |->
                            IF i \in DOMAIN segments THEN segments[i] ELSE agents[a].events]
          /\ temporary' = FALSE
          /\ Set(a, [agents[a] EXCEPT !.stage = "renamed"])
       \/ /\ Set(a, Away) /\ UNCHANGED <<segments, temporary>>
    /\ UNCHANGED writerLock

ReleaseWriterLock(a) ==
    /\ agents[a].stage = "renamed"
    /\ \/ writerLock' = FALSE
       \/ UNCHANGED writerLock                                      \* the directory sync failed
    /\ Set(a, Away)
    /\ UNCHANGED <<segments, temporary>>

(* The process dies: what it left in the directory stays. *)
AgentDies(a) ==
    /\ agents[a].stage \notin {"away", "proposed"}
    /\ Set(a, Away)
    /\ UNCHANGED <<segments, writerLock, temporary>>

ContinuityNext ==
    \E a \in Agents :
        \/ Propose(a) \/ TakeWriterLock(a) \/ CheckAppend(a) \/ WriteSegment(a)
        \/ RenameSegment(a) \/ ReleaseWriterLock(a) \/ AgentDies(a)

ContinuitySpec == ContinuityInit /\ [][ContinuityNext]_continuityVars
-----------------------------------------------------------------------------
ContinuityTypeOK ==
    /\ writerLock \in BOOLEAN /\ temporary \in BOOLEAN /\ Len(segments) <= MaxSegments
    /\ \A a \in Agents : agents[a].stage \in
          {"away", "proposed", "locked", "checked", "written", "renamed"}

(* Whatever agents append side by side and wherever they die, the history on disk      *)
(* folds, and a temporary segment never lies there without the lock that hides it:     *)
(* a read without a lock is never refused as corrupt.                                 *)
HistoryReads ==
    /\ segments # <<>> => Folded(segments).legal
    /\ temporary => writerLock

(* What a verified receipt says of an operation, no later segment takes back: its      *)
(* proof stays, and an operation it left dispatched or ambiguous goes on to demand     *)
(* reconciliation, whatever agents note or import (foldContinuity, nextSafeActions).   *)
VerifiedStands ==
    \A k \in DOMAIN segments :
        LET before == Folded(SubSeq(segments, 1, k))
            now    == Folded(segments)
        IN before.proof # 0 =>
              /\ now.proof = before.proof
              /\ nextSafeAction(before) = "reconcile-before-retry" =>
                    nextSafeAction(now) = "reconcile-before-retry"
=============================================================================
