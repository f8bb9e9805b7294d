--------------------------- MODULE LabelsCertification ---------------------------
(***************************************************************************)
(* The certification runner of src/authority/certification/                    *)
(* github-issue-labels-runner.ts, for one request: it puts labels on an issue  *)
(* (the effect "apply") and takes them back ("cleanup"), each under a           *)
(* reservation of the authority ledger, a unit of the budget and a journal of   *)
(* its own, so that recover() can tell after a failure what may have been sent. *)
(*                                                                         *)
(* A journal entry is saved in three steps: the journal is loaded and the       *)
(* transition judged, a generation file is created, the head is renamed.        *)
(* run, conflict and recover hold the request's lock file; cleanup and the       *)
(* checkpoint that a duplicate request leaves in this journal do not.           *)
(* The coordinator is dispatch.ts without prepare and budget, as wired here.     *)
(***************************************************************************)
EXTENDS Integers

CONSTANTS
    Clients,            \* callers of the runner
    MaxVisits,          \* bound: calls
    MaxCuts,            \* bound: calls that fail between two steps
    MaxStops            \* bound: deaths of the process

ASSUME LabelsAssumption == MaxVisits \in Nat /\ MaxCuts \in Nat /\ MaxStops \in Nat

VARIABLES
    head,           \* the journal's head file: its sequence number and phase
    generations,    \* the generation files
    requestLock,    \* <request>.lock exists
    duplicateLock,  \* duplicate-ledger.lock exists
    reservationOf,          \* effect -> the state of its reservation
    budget,         \* effect -> its unit: untouched, consumed or released
    sent,           \* effect -> writes sent to the provider
    labels,         \* the labels at the provider
    staged,         \* the cleanup's publication file exists
    visits,         \* caller -> its call
    raced,          \* history: a recovery judged the journal while a cleanup was under way
    called, cuts, stops

disk == <<head, generations>>
locks == <<requestLock, duplicateLock>>
ledgerSide == <<reservationOf, budget>>
providerSide == <<sent, labels>>
labelsCounts == <<raced, called, cuts, stops>>
labelsVars == <<disk, locks, ledgerSide, providerSide, staged, visits, labelsCounts>>

LabelEffects == {"apply", "cleanup"}
NoJournal == [seq |-> 0, phase |-> "none"]
NoVisit == [op |-> "none", at |-> "none", locked |-> FALSE, journal |-> "none", base |-> 0,
            next |-> "none", answer |-> "none"]

LabelsInit ==
    /\ head = NoJournal /\ generations = {} /\ requestLock = FALSE /\ duplicateLock = FALSE
    /\ reservationOf = [e \in LabelEffects |-> "none"] /\ budget = [e \in LabelEffects |-> "untouched"]
    /\ sent = [e \in LabelEffects |-> 0] /\ labels = "before" /\ staged = FALSE
    /\ visits = [c \in Clients |-> NoVisit]
    /\ raced = FALSE /\ called = 0 /\ cuts = 0 /\ stops = 0
-----------------------------------------------------------------------------
(* loadJournal: the head is the last of gapless generations, none of which has a twin. *)
Readable ==
    \/ head = NoJournal
    \/ /\ head \in generations
       /\ \A g \in generations : g.seq <= head.seq
       /\ \A g, h \in generations : g.seq = h.seq => g = h

(* assertJournalTransition. *)
Successors(phase) ==
    CASE phase = "none" -> {"reserved"}
      [] phase = "reserved" -> {"budget-intent", "refused"}
      [] phase = "budget-intent" -> {"budget-consumed", "refused"}
      [] phase = "budget-consumed" -> {"dispatched", "refused"}
      [] phase = "dispatched" -> {"provider-send-intent", "pending-reconciliation"}
      [] phase = "provider-send-intent" ->
            {"provider-applied", "acknowledged", "pending-reconciliation"}
      [] phase = "provider-applied" -> {"acknowledged", "pending-reconciliation"}
      [] phase = "pending-reconciliation" -> {"acknowledged"}
      [] phase = "acknowledged" -> {"cleanup-reserved", "conflict-publication-pending"}
      [] phase = "conflict-publication-pending" -> {"conflict"}
      [] phase = "cleanup-reserved" -> {"cleanup-budget-consumed", "cleanup-refused"}
      [] phase = "cleanup-budget-consumed" -> {"cleanup-dispatched", "cleanup-refused"}
      [] phase = "cleanup-dispatched" -> {"cleanup-send-intent", "cleanup-publication-pending"}
      [] phase = "cleanup-send-intent" -> {"cleanup-applied", "cleanup-publication-pending"}
      [] phase = "cleanup-applied" -> {"cleanup-publication-pending"}
      [] phase = "cleanup-publication-pending" -> {"cleanup-receipted"}
      [] OTHER -> {}                                  \* conflict, refused, cleaned up

Unsent  == {"reserved", "budget-intent", "budget-consumed"}
Sending == {"dispatched", "provider-send-intent", "provider-applied"}
CleanupUnsent  == {"cleanup-reserved", "cleanup-budget-consumed"}
CleanupSending == {"cleanup-dispatched", "cleanup-send-intent", "cleanup-applied"}
Settled == {"acknowledged", "conflict-publication-pending", "conflict", "cleanup-receipted",
            "cleanup-refused", "cleanup-publication-pending"} \cup CleanupUnsent \cup CleanupSending

(* A slip: an unsent journal is believed whatever became of the reservation. *)
CompatibleLoosely(phase, state) ==
    CASE phase \in Unsent -> state # "none"
      [] phase \in Sending -> state \in {"dispatched", "ambiguous"}
      [] phase \in Settled -> state \in {"acknowledged", "reconciled"}
      [] phase = "refused" -> state \in {"cancelled", "reconciled"}
      [] OTHER -> state = "ambiguous"

(* What recover() demands of the ledger before it believes a journal. *)
Compatible(phase, state) ==
    CASE phase \in Unsent -> state = "reserved"
      [] phase \in Sending -> state \in {"dispatched", "ambiguous"}
      [] phase \in Settled -> state \in {"acknowledged", "reconciled"}
      [] phase = "refused" -> state \in {"cancelled", "reconciled"}
      [] OTHER -> state = "ambiguous"
-----------------------------------------------------------------------------
IsAt(c, step) == visits[c].at = step
GoTo(c, step) == visits' = [visits EXCEPT ![c].at = step]
Save(c, phase) == visits' = [visits EXCEPT ![c].at = "save", ![c].next = phase]
Saved(c, op, phase) == IsAt(c, "saved") /\ visits[c].op = op /\ visits[c].next = phase

Leave(c) ==
    /\ visits' = [visits EXCEPT ![c] = NoVisit]
    /\ requestLock' = (requestLock /\ ~visits[c].locked)
    /\ duplicateLock' = (duplicateLock /\ visits[c].op # "duplicate")

(* An exception ends the call, except that dispatch() takes one of its adapter, whose   *)
(* saves surround the send, for an ambiguous outcome.                                  *)
InAdapter(c) ==
    /\ visits[c].op \in {"run", "cleanup"}
    /\ visits[c].at \in {"save", "generation", "rename", "saved"}
    /\ visits[c].next \in Sending \cup CleanupSending
Raise(c) ==
    IF InAdapter(c)
    THEN /\ visits' = [visits EXCEPT ![c].at = "settle", ![c].answer = "ambiguous"]
         /\ UNCHANGED locks
    ELSE Leave(c)
-----------------------------------------------------------------------------
(* A slip: recovery does not take the lock. *)
CallUnlocked(c, op) ==
    /\ IsAt(c, "none") /\ called < MaxVisits
    /\ op = "recover" => head # NoJournal
    /\ LET locked == op \in {"run", "conflict"}
       IN /\ ~(locked /\ requestLock)
          /\ requestLock' = (requestLock \/ locked)
          /\ visits' = [visits EXCEPT ![c] =
                          [NoVisit EXCEPT !.op = op, !.at = "load", !.locked = locked]]
    /\ called' = called + 1
    /\ UNCHANGED <<disk, duplicateLock, ledgerSide, providerSide, staged, raced, cuts, stops>>

(* The request's lock file refuses a second caller; a repetition of the effect under    *)
(* another request ("other") only leaves its mark in this journal.                     *)
Call(c, op) ==
    /\ IsAt(c, "none") /\ called < MaxVisits
    /\ op = "recover" => head # NoJournal
    /\ LET locked == op \in {"run", "conflict", "recover"}
       IN /\ ~(locked /\ requestLock)
          /\ requestLock' = (requestLock \/ locked)
          /\ visits' = [visits EXCEPT ![c] =
                          [NoVisit EXCEPT !.op = op, !.at = "load", !.locked = locked]]
    /\ called' = called + 1
    /\ UNCHANGED <<disk, duplicateLock, ledgerSide, providerSide, staged, raced, cuts, stops>>

(* What each call makes of the journal it finds. *)
LoadJournal(c) ==
    /\ IsAt(c, "load")
    /\ LET op == visits[c].op
           phase == head.phase
           proceed == CASE op = "run"      -> IF phase = "none" THEN "decide" ELSE "checkpoint"
                        [] op = "other"    -> IF phase = "none" THEN "leave" ELSE "checkpoint"
                        [] op = "cleanup"  -> CASE phase = "cleanup-receipted" -> "checkpoint"
                                                [] phase = "acknowledged" -> "decide"
                                                [] OTHER -> "leave"
                        [] op = "conflict" -> CASE phase = "conflict" -> "checkpoint"
                                                [] phase \in {"acknowledged",
                                                   "conflict-publication-pending"} -> "publish"
                                                [] OTHER -> "leave"
                        [] op = "recover"  -> IF Compatible(phase, reservationOf["apply"])
                                              THEN "repair" ELSE "leave"
       IN IF Readable /\ proceed # "leave"
          THEN /\ visits' = [visits EXCEPT ![c].at = proceed, ![c].journal = phase]
               /\ UNCHANGED locks
          ELSE Leave(c)
    /\ raced' = (raced \/ (visits[c].op = "recover" /\ \E d \in Clients : visits[d].op = "cleanup"))
    /\ UNCHANGED <<disk, ledgerSide, providerSide, staged, called, cuts, stops>>

(* recordDuplicate, under its own lock: the journal is loaded and saved in its phase.   *)
CheckpointDuplicate(c) ==
    /\ IsAt(c, "checkpoint") /\ ~duplicateLock
    /\ IF Readable
       THEN /\ visits' = [visits EXCEPT ![c].op = "duplicate", ![c].at = "save",
                                        ![c].next = head.phase]
            /\ duplicateLock' = TRUE /\ UNCHANGED requestLock
       ELSE Leave(c)
    /\ UNCHANGED <<disk, ledgerSide, providerSide, staged, labelsCounts>>

(* saveJournal; only a checkpoint may repeat the phase. *)
MaySave(c) ==
    /\ Readable
    /\ \/ visits[c].next \in Successors(head.phase)
       \/ visits[c].op = "duplicate" /\ visits[c].next = head.phase

SaveChecks(c) ==
    /\ IsAt(c, "save")
    /\ IF MaySave(c)
       THEN /\ visits' = [visits EXCEPT ![c].at = "generation", ![c].base = head.seq]
            /\ UNCHANGED locks
       ELSE Raise(c)
    /\ UNCHANGED <<disk, ledgerSide, providerSide, staged, labelsCounts>>

SavedEntry(c) == [seq |-> visits[c].base + 1, phase |-> visits[c].next]

SaveGeneration(c) ==
    /\ IsAt(c, "generation")
    /\ IF SavedEntry(c) \in generations
       THEN Raise(c) /\ UNCHANGED generations
       ELSE /\ generations' = generations \cup {SavedEntry(c)}
            /\ GoTo(c, "rename") /\ UNCHANGED locks
    /\ UNCHANGED <<head, ledgerSide, providerSide, staged, labelsCounts>>

SaveHead(c) ==
    /\ IsAt(c, "rename")
    /\ head' = SavedEntry(c)
    /\ IF visits[c].op \in {"duplicate", "recover"}
          \/ visits[c].next \in {"refused", "acknowledged", "pending-reconciliation",
                                 "conflict", "cleanup-receipted"}
       THEN Leave(c)
       ELSE GoTo(c, "saved") /\ UNCHANGED locks
    /\ UNCHANGED <<generations, ledgerSide, providerSide, staged, labelsCounts>>
-----------------------------------------------------------------------------
(* run and cleanup go the same way, under different names. *)
EffectOfCall(c) == IF visits[c].op = "cleanup" THEN "cleanup" ELSE "apply"
Name(c, apply, cleanup) == IF visits[c].op = "cleanup" THEN cleanup ELSE apply
SavedAs(c, apply, cleanup) == Saved(c, "run", apply) \/ Saved(c, "cleanup", cleanup)

(* The gate accepts an effect once; whatever else it answers ends the call. *)
Decide(c) ==
    /\ IsAt(c, "decide")
    /\ LET e == EffectOfCall(c)
       IN \/ /\ reservationOf[e] = "none"
             /\ reservationOf' = [reservationOf EXCEPT ![e] = "reserved"]
             /\ Save(c, Name(c, "reserved", "cleanup-reserved")) /\ UNCHANGED locks
          \/ Leave(c) /\ UNCHANGED reservationOf
    /\ UNCHANGED <<disk, budget, providerSide, staged, labelsCounts>>

(* The issue is read again: a drift cancels, in the ledger and then in the journal. *)
Compare(c) ==
    /\ Saved(c, "run", "reserved")
    /\ \/ Save(c, "budget-intent") /\ UNCHANGED reservationOf
       \/ /\ reservationOf["apply"] = "reserved"
          /\ reservationOf' = [reservationOf EXCEPT !["apply"] = "cancelled"]
          /\ Save(c, "refused")
    /\ UNCHANGED <<disk, locks, budget, providerSide, staged, labelsCounts>>

ConsumeUnit(c) ==
    /\ SavedAs(c, "budget-intent", "cleanup-reserved")
    /\ budget' = [budget EXCEPT ![EffectOfCall(c)] = "consumed"]
    /\ Save(c, Name(c, "budget-consumed", "cleanup-budget-consumed"))
    /\ UNCHANGED <<disk, locks, reservationOf, providerSide, staged, labelsCounts>>

MarkDispatched(c) ==
    /\ SavedAs(c, "budget-consumed", "cleanup-budget-consumed")
    /\ LET e == EffectOfCall(c)
       IN IF reservationOf[e] = "reserved"
          THEN /\ reservationOf' = [reservationOf EXCEPT ![e] = "dispatched"]
               /\ Save(c, Name(c, "dispatched", "cleanup-dispatched")) /\ UNCHANGED locks
          ELSE Leave(c) /\ UNCHANGED reservationOf
    /\ UNCHANGED <<disk, budget, providerSide, staged, labelsCounts>>

AnnounceWrite(c) ==
    /\ SavedAs(c, "dispatched", "cleanup-dispatched")
    /\ Save(c, Name(c, "provider-send-intent", "cleanup-send-intent"))
    /\ UNCHANGED <<disk, locks, ledgerSide, providerSide, staged, labelsCounts>>

SendWrite(c) ==
    /\ SavedAs(c, "provider-send-intent", "cleanup-send-intent")
    /\ sent' = [sent EXCEPT ![EffectOfCall(c)] = @ + 1]
    /\ labels' = Name(c, "desired", "before")
    /\ Save(c, Name(c, "provider-applied", "cleanup-applied"))
    /\ UNCHANGED <<disk, locks, ledgerSide, staged, labelsCounts>>

(* The provider's answer, read back unless it is ambiguous already. *)
ReadAnswer(c) ==
    /\ SavedAs(c, "provider-applied", "cleanup-applied")
    /\ \E answer \in {IF labels = Name(c, "desired", "before") THEN "matched" ELSE "conflict"}
                     \cup (IF visits[c].op = "run" THEN {"ambiguous"} ELSE {}) :
          visits' = [visits EXCEPT ![c].at = "settle", ![c].answer = answer]
    /\ UNCHANGED <<disk, locks, ledgerSide, providerSide, staged, labelsCounts>>

(* The outcome is published; the publication of a cleanup is staged in a file first. *)
StageCleanup(c) ==
    /\ IsAt(c, "settle") /\ visits[c].op = "cleanup"
    /\ staged' = TRUE
    /\ Save(c, "cleanup-publication-pending")
    /\ UNCHANGED <<disk, locks, ledgerSide, providerSide, labelsCounts>>

SettleOutcome(c) ==
    /\ \/ IsAt(c, "settle") /\ visits[c].op = "run"
       \/ Saved(c, "cleanup", "cleanup-publication-pending")
    /\ LET e == EffectOfCall(c)
           matched == visits[c].answer = "matched"
       IN IF reservationOf[e] = "dispatched"
          THEN /\ reservationOf' = [reservationOf EXCEPT ![e] = IF matched THEN "acknowledged"
                                                              ELSE "ambiguous"]
               /\ GoTo(c, IF visits[c].answer = "ambiguous" THEN "report" ELSE "reconcile")
               /\ UNCHANGED locks
          ELSE Leave(c) /\ UNCHANGED reservationOf
    /\ UNCHANGED <<disk, budget, providerSide, staged, labelsCounts>>

SettleReading(c) ==
    /\ IsAt(c, "reconcile")
    /\ LET e == EffectOfCall(c)
       IN IF reservationOf[e] = (IF visits[c].answer = "matched" THEN "acknowledged" ELSE "ambiguous")
          THEN /\ reservationOf' = [reservationOf EXCEPT ![e] = "reconciled"]
               /\ GoTo(c, "report") /\ UNCHANGED locks
          ELSE Leave(c) /\ UNCHANGED reservationOf
    /\ UNCHANGED <<disk, budget, providerSide, staged, labelsCounts>>

ReportOutcome(c) ==
    /\ IsAt(c, "report")
    /\ LET matched == visits[c].answer = "matched"
           run == visits[c].op = "run"
       IN \/ matched /\ Save(c, Name(c, "acknowledged", "cleanup-receipted")) /\ UNCHANGED locks
          \/ ~matched /\ run /\ Save(c, "pending-reconciliation") /\ UNCHANGED locks
          \/ ~matched /\ ~run /\ Leave(c)
    /\ UNCHANGED <<disk, ledgerSide, providerSide, staged, labelsCounts>>

(* conflict(): the conflicting bytes are journaled, published and journaled as such. *)
PublishConflict(c) ==
    /\ visits[c].op = "conflict" /\ visits[c].at \in {"publish", "saved"}
    /\ Save(c, IF IsAt(c, "publish") /\ visits[c].journal = "acknowledged"
               THEN "conflict-publication-pending" ELSE "conflict")
    /\ UNCHANGED <<disk, locks, ledgerSide, providerSide, staged, labelsCounts>>
-----------------------------------------------------------------------------
(* recover(), by the phase it loaded. *)
Repairs(c, phases) == IsAt(c, "repair") /\ visits[c].journal \in phases

(* Nothing was sent: cancel, give the unit back if it was taken, close the journal. *)
RecoverUnsent(c) ==
    /\ Repairs(c, Unsent)
    /\ reservationOf' = [reservationOf EXCEPT !["apply"] = IF @ = "reserved" THEN "cancelled" ELSE @]
    /\ IF visits[c].journal = "budget-consumed" THEN GoTo(c, "release") ELSE Save(c, "refused")
    /\ UNCHANGED <<disk, locks, budget, providerSide, staged, labelsCounts>>

ReleaseUnit(c) ==
    /\ IsAt(c, "release")
    /\ LET cleanup == visits[c].journal \in CleanupUnsent
       IN /\ budget' = [budget EXCEPT ![IF cleanup THEN "cleanup" ELSE "apply"] = "released"]
          /\ Save(c, IF cleanup THEN "cleanup-refused" ELSE "refused")
    /\ UNCHANGED <<disk, locks, reservationOf, providerSide, staged, labelsCounts>>

(* coordinator.recover() marks what is dispatched; what may have been sent is read back. *)
RecoverSent(c) ==
    /\ Repairs(c, Sending \cup {"pending-reconciliation"})
    /\ reservationOf' = [reservationOf EXCEPT !["apply"] = IF @ = "dispatched" THEN "ambiguous" ELSE @]
    /\ IF visits[c].journal = "dispatched" THEN Save(c, "pending-reconciliation")
       ELSE GoTo(c, "reread")
    /\ UNCHANGED <<disk, locks, budget, providerSide, staged, labelsCounts>>

RecoverConflict(c) ==
    /\ Repairs(c, {"conflict-publication-pending"})
    /\ Save(c, "conflict")
    /\ UNCHANGED <<disk, locks, ledgerSide, providerSide, staged, labelsCounts>>

(* cleanupCoordinator.recover() publishes what it settles from the staged file and fails *)
(* when there is none.                                                                  *)
RecoverCleanupUnsent(c) ==
    /\ Repairs(c, CleanupUnsent)
    /\ IF reservationOf["cleanup"] \in {"reserved", "dispatched"} /\ ~staged
       THEN Leave(c) /\ UNCHANGED reservationOf
       ELSE /\ reservationOf' = [reservationOf EXCEPT !["cleanup"] = CASE @ = "reserved" -> "cancelled"
                                                      [] @ = "dispatched" -> "ambiguous"
                                                      [] OTHER -> @]
            /\ IF visits[c].journal = "cleanup-reserved" THEN Save(c, "cleanup-refused")
               ELSE GoTo(c, "release")
            /\ UNCHANGED locks
    /\ UNCHANGED <<disk, budget, providerSide, staged, labelsCounts>>

RecoverCleanupSent(c) ==
    /\ Repairs(c, CleanupSending \cup {"cleanup-publication-pending"})
    /\ reservationOf' = [reservationOf EXCEPT !["cleanup"] = IF @ = "dispatched" THEN "ambiguous" ELSE @]
    /\ GoTo(c, "reread")
    /\ UNCHANGED <<disk, locks, budget, providerSide, staged, labelsCounts>>

RecoverNothing(c) ==
    /\ Repairs(c, {"acknowledged", "conflict", "refused", "cleanup-receipted", "cleanup-refused"})
    /\ Leave(c)
    /\ UNCHANGED <<disk, ledgerSide, providerSide, staged, labelsCounts>>

(* coordinator.reconcile(): only an ambiguous reservation is read back. *)
Reread(c) ==
    /\ IsAt(c, "reread")
    /\ LET cleanup == visits[c].journal \in Settled
           e == IF cleanup THEN "cleanup" ELSE "apply"
           matched == labels = IF cleanup THEN "before" ELSE "desired"
       IN CASE reservationOf[e] = "ambiguous" /\ (cleanup => staged) ->
                 /\ reservationOf' = [reservationOf EXCEPT ![e] = "reconciled"]
                 /\ Save(c, IF cleanup
                            THEN IF matched THEN "cleanup-receipted" ELSE "cleanup-publication-pending"
                            ELSE IF matched THEN "acknowledged" ELSE "pending-reconciliation")
                 /\ UNCHANGED locks
            [] reservationOf[e] # "ambiguous" /\ cleanup ->
                 Save(c, "cleanup-publication-pending") /\ UNCHANGED <<reservationOf, locks>>
            [] OTHER -> Leave(c) /\ UNCHANGED reservationOf
    /\ UNCHANGED <<disk, budget, providerSide, staged, labelsCounts>>
-----------------------------------------------------------------------------
(* A call fails between two of its steps. *)
CutCall(c) ==
    /\ ~IsAt(c, "none") /\ cuts < MaxCuts
    /\ cuts' = cuts + 1
    /\ Raise(c)
    /\ UNCHANGED <<disk, ledgerSide, providerSide, staged, raced, called, stops>>

(* The process dies: its lock files stay.  The ledger may find it dead and settle what  *)
(* is open.                                                                            *)
StopRunner ==
    /\ stops < MaxStops
    /\ stops' = stops + 1
    /\ visits' = [c \in Clients |-> NoVisit]
    /\ reservationOf' \in {reservationOf, [e \in LabelEffects |->
                                               CASE reservationOf[e] = "reserved" -> "cancelled"
                                                  [] reservationOf[e] = "dispatched" -> "ambiguous"
                                                   [] OTHER -> reservationOf[e]]}
    /\ UNCHANGED <<disk, locks, budget, providerSide, staged, raced, called, cuts>>

LabelsNext ==
    \/ StopRunner
    \/ \E c \in Clients :
         \/ \E op \in {"run", "other", "cleanup", "conflict", "recover"} : Call(c, op)
         \/ LoadJournal(c) \/ CheckpointDuplicate(c)
         \/ SaveChecks(c) \/ SaveGeneration(c) \/ SaveHead(c)
         \/ Decide(c) \/ Compare(c) \/ ConsumeUnit(c) \/ MarkDispatched(c) \/ AnnounceWrite(c)
         \/ SendWrite(c) \/ ReadAnswer(c) \/ StageCleanup(c) \/ SettleOutcome(c)
         \/ SettleReading(c) \/ ReportOutcome(c) \/ PublishConflict(c)
         \/ RecoverUnsent(c) \/ ReleaseUnit(c) \/ RecoverSent(c) \/ RecoverConflict(c)
         \/ RecoverCleanupUnsent(c) \/ RecoverCleanupSent(c) \/ RecoverNothing(c) \/ Reread(c)
         \/ CutCall(c)

LabelsSpec == LabelsInit /\ [][LabelsNext]_labelsVars
-----------------------------------------------------------------------------
JournalPhases == {"none", "refused", "pending-reconciliation"} \cup Unsent \cup Sending \cup Settled

LabelsTypeOK ==
    /\ head.phase \in JournalPhases /\ \A g \in generations : g.phase \in JournalPhases
    /\ \A e \in LabelEffects :
          /\ reservationOf[e] \in {"none", "reserved", "dispatched", "acknowledged", "ambiguous",
                           "reconciled", "cancelled"}
          /\ budget[e] \in {"untouched", "consumed", "released"}
    /\ \A c \in Clients : visits[c].next \in JournalPhases /\ visits[c].journal \in JournalPhases

(* The journal never claims more than happened: what it calls dispatched has left the   *)
(* reserved state, what it calls acknowledged was sent and read back, what it calls      *)
(* refused was cancelled and not sent, a refused cleanup was not sent, and a receipted   *)
(* one was sent and settled.                                                            *)
JournalTellsTruth ==
    /\ head.phase \in Sending \cup {"pending-reconciliation"} =>
          reservationOf["apply"] \notin {"none", "reserved"}
    /\ head.phase \in Settled => reservationOf["apply"] = "reconciled" /\ sent["apply"] = 1
    /\ head.phase = "refused" => reservationOf["apply"] = "cancelled" /\ sent["apply"] = 0
    /\ head.phase = "cleanup-refused" => sent["cleanup"] = 0
    /\ head.phase = "cleanup-receipted" => reservationOf["cleanup"] = "reconciled" /\ sent["cleanup"] = 1

(* What was sent to the provider was sent once, was paid for and stays paid for, unless *)
(* a recovery took a cleanup that is still under way for one that was given up: a        *)
(* cleanup holds no lock.                                                               *)
SentIsPaid ==
    \A e \in LabelEffects :
        /\ sent[e] <= 1
        /\ sent[e] = 1 => budget[e] = "consumed" \/ (e = "cleanup" /\ raced)

(* The journal is true, and what it says was sent was sent once and paid for (run,      *)
(* cleanup, recover).                                                                   *)
CertificationIsTrue == JournalTellsTruth /\ SentIsPaid
=============================================================================
