----------------------------- MODULE SignedJournal -----------------------------
(***************************************************************************)
(* One request's signed journal: src/authority/host/signed-journal.ts.      *)
(*                                                                         *)
(* Events are numbered files written once; head.json names the last one, so *)
(* that dropping the newest event is noticed.  An append announces the new  *)
(* head in head.pending, writes the event and renames the announcement over *)
(* head.json, all under the request's lease.  Every load, append's own and  *)
(* anybody else's, first repairs what a crash left between those steps.     *)
(*                                                                         *)
(* A digest stands for the number of events up to the one it signs: 0 is no *)
(* file.  A file that is created and not yet written is Torn.                *)
(***************************************************************************)
EXTENDS Integers, FiniteSets

CONSTANTS
    Writers,     \* processes that append
    Readers,     \* processes that load without holding the request's lease
    MaxEvents,   \* bound: events in the journal
    MaxCrashes,  \* bound: processes that die
    Nobody       \* the lease is free

Torn  == -1
Actors == Writers \cup Readers

ASSUME JournalAssumption ==
    /\ Nobody \notin Actors /\ Writers \cap Readers = {}
    /\ MaxEvents \in Nat /\ MaxCrashes \in Nat

VARIABLES
    count,    \* complete event files, numbered without a gap
    tornEvent,\* the next event file exists and is incomplete
    head,     \* head.json
    pending,  \* head.pending
    written,  \* the name of the head file the lease's holder is still writing
    lease,    \* who holds the request's lease
    pc,       \* where each process stands
    seen,     \* the events its load has verified
    answer,   \* what its last call came to
    crashes

files == <<count, tornEvent, head, pending, written>>
vars  == <<files, lease, pc, seen, answer, crashes>>

Loading   == {"load", "reconcile", "promote", "discard", "compare"}
Appending == {"announce", "fill", "event", "fillEvent", "rename"}

Init ==
    /\ count = 0 /\ tornEvent = FALSE /\ head = 0 /\ pending = 0 /\ written = "none"
    /\ lease = Nobody /\ crashes = 0
    /\ pc = [a \in Actors |-> "idle"] /\ seen = [a \in Actors |-> 0]
    /\ answer = [a \in Actors |-> "none"]

-----------------------------------------------------------------------------
Goto(a, p) == pc' = [pc EXCEPT ![a] = p]

(* The call ends; a lease it holds is released whatever came of it. *)
Finish(a, r) ==
    /\ Goto(a, "idle") /\ answer' = [answer EXCEPT ![a] = r]
    /\ lease' = IF lease = a THEN Nobody ELSE lease

StartUnqueued(a) ==  \* mutant: the lower tickets are not waited for
    /\ pc[a] = "idle" /\ Goto(a, "load")
    /\ lease' = IF a \in Writers THEN a ELSE lease
    /\ UNCHANGED <<files, seen, answer, crashes>>

(* append takes the lease first; a bare load does not. *)
Start(a) ==
    /\ pc[a] = "idle" /\ Goto(a, "load")
    /\ IF a \in Writers THEN lease = Nobody /\ lease' = a ELSE UNCHANGED lease
    /\ UNCHANGED <<files, seen, answer, crashes>>

(* readdir and the verification of every event; an incomplete one does not parse. *)
LoadEvents(a) ==
    /\ pc[a] = "load"
    /\ IF tornEvent THEN Finish(a, "unreadable") /\ UNCHANGED seen
       ELSE /\ seen' = [seen EXCEPT ![a] = count]
            /\ Goto(a, "reconcile") /\ UNCHANGED <<lease, answer>>
    /\ UNCHANGED <<files, crashes>>

ReadPendingDiscarding(a) ==  \* mutant: an announcement whose event exists is dropped as well
    /\ pc[a] = "reconcile"
    /\ IF pending = Torn THEN Finish(a, "unreadable")
       ELSE /\ Goto(a, IF pending = 0 THEN "compare" ELSE "discard")
            /\ UNCHANGED <<lease, answer>>
    /\ UNCHANGED <<files, seen, crashes>>

(* reconcileHead: finish the rename a crash prevented, or drop an announcement   *)
(* whose event was never written.                                              *)
ReadPending(a) ==
    /\ pc[a] = "reconcile"
    /\ IF pending = Torn THEN Finish(a, "unreadable")
       ELSE /\ Goto(a, IF pending = 0 THEN "compare"
                       ELSE IF pending = seen[a] THEN "promote" ELSE "discard")
            /\ UNCHANGED <<lease, answer>>
    /\ UNCHANGED <<files, seen, crashes>>

(* The file now named head.pending becomes head.json; a writer that still has it *)
(* open goes on writing it under its new name.                                  *)
RenamePending ==
    /\ head' = pending /\ pending' = 0
    /\ written' = IF written = "pending" THEN "head" ELSE written
    /\ UNCHANGED <<count, tornEvent>>

Promote(a) ==
    /\ pc[a] = "promote"
    /\ IF pending = 0 THEN Finish(a, "vanished") /\ UNCHANGED files
       ELSE RenamePending /\ Goto(a, "compare") /\ UNCHANGED <<lease, answer>>
    /\ UNCHANGED <<seen, crashes>>

DiscardNothing(a) ==  \* mutant: the stale announcement is left where it is
    /\ pc[a] = "discard" /\ Goto(a, "compare")
    /\ UNCHANGED <<files, seen, lease, answer, crashes>>

Discard(a) ==
    /\ pc[a] = "discard"
    /\ IF pending = 0 THEN Finish(a, "vanished") /\ UNCHANGED files
       ELSE /\ pending' = 0
            /\ written' = IF written = "pending" THEN "unlinked" ELSE written
            /\ Goto(a, "compare") /\ UNCHANGED <<count, tornEvent, head, lease, answer>>
    /\ UNCHANGED <<seen, crashes>>

(* "signed journal atomic head rollback or fork detected" unless the two agree. *)
CompareHead(a) ==
    /\ pc[a] = "compare"
    /\ IF head = Torn THEN Finish(a, "unreadable")
       ELSE IF head # seen[a] THEN Finish(a, "fork")
       ELSE IF a \in Writers /\ seen[a] < MaxEvents
            THEN Goto(a, "announce") /\ UNCHANGED <<lease, answer>>
       ELSE Finish(a, "loaded")
    /\ UNCHANGED <<files, seen, crashes>>

-----------------------------------------------------------------------------
(* The rest of append.  Files are created exclusively, then written and synced. *)

Announce(a) ==
    /\ pc[a] = "announce"
    /\ IF pending # 0 THEN Finish(a, "exists") /\ UNCHANGED files
       ELSE /\ pending' = Torn /\ written' = "pending" /\ Goto(a, "fill")
            /\ UNCHANGED <<count, tornEvent, head, lease, answer>>
    /\ UNCHANGED <<seen, crashes>>

FillAndRename(a) ==  \* mutant: the head is renamed before the event is written
    /\ pc[a] = "fill"
    /\ head' = seen[a] + 1 /\ pending' = 0 /\ written' = "none"
    /\ Goto(a, "event")
    /\ UNCHANGED <<count, tornEvent, seen, lease, answer, crashes>>

Fill(a) ==
    /\ pc[a] = "fill"
    /\ pending' = IF written = "pending" THEN seen[a] + 1 ELSE pending
    /\ head' = IF written = "head" THEN seen[a] + 1 ELSE head
    /\ written' = "none"
    /\ Goto(a, "event")
    /\ UNCHANGED <<count, tornEvent, seen, lease, answer, crashes>>

CreateEvent(a) ==
    /\ pc[a] = "event"
    /\ IF tornEvent \/ count > seen[a] THEN Finish(a, "exists") /\ UNCHANGED tornEvent
       ELSE tornEvent' = TRUE /\ Goto(a, "fillEvent") /\ UNCHANGED <<lease, answer>>
    /\ UNCHANGED <<count, head, pending, written, seen, crashes>>

FillEvent(a) ==
    /\ pc[a] = "fillEvent"
    /\ tornEvent' = FALSE /\ count' = count + 1
    /\ Goto(a, "rename")
    /\ UNCHANGED <<head, pending, written, seen, lease, answer, crashes>>

Rename(a) ==
    /\ pc[a] = "rename"
    /\ IF pending = 0 THEN Finish(a, "vanished") /\ UNCHANGED files
       ELSE RenamePending /\ Finish(a, "appended")
    /\ UNCHANGED <<seen, crashes>>

CrashHoldingLease(a) ==  \* mutant: a dead process's ticket still counts as active
    /\ pc[a] # "idle" /\ crashes < MaxCrashes /\ crashes' = crashes + 1
    /\ Goto(a, "idle") /\ answer' = [answer EXCEPT ![a] = "none"]
    /\ written' = IF lease = a THEN "none" ELSE written
    /\ UNCHANGED <<count, tornEvent, head, pending, seen, lease>>

(* A process dies where it stands: its files stay as they are, and the lease of a *)
(* dead process no longer blocks anybody.                                       *)
Crash(a) ==
    /\ pc[a] # "idle" /\ crashes < MaxCrashes /\ crashes' = crashes + 1
    /\ Finish(a, "none")
    /\ written' = IF lease = a THEN "none" ELSE written
    /\ UNCHANGED <<count, tornEvent, head, pending, seen>>

Step(a) ==
    \/ LoadEvents(a) \/ ReadPending(a) \/ Promote(a) \/ Discard(a) \/ CompareHead(a)
    \/ Announce(a) \/ Fill(a) \/ CreateEvent(a) \/ FillEvent(a) \/ Rename(a)

Next == \E a \in Actors : Start(a) \/ Step(a) \/ Crash(a)

(* A process that is in the middle of a call goes on with it. *)
Spec == Init /\ [][Next]_vars
FairSpec == Spec /\ \A a \in Actors : WF_vars(Step(a)) /\ SF_vars(a \in Writers /\ Start(a))

-----------------------------------------------------------------------------
(* Properties. *)

HeadFile == {Torn} \cup 0..MaxEvents

(* The files hold what the code writes into them, and only the lease's holder is  *)
(* past the comparison of the heads.                                            *)
TypeOK ==
    /\ count \in 0..MaxEvents /\ tornEvent \in BOOLEAN
    /\ head \in HeadFile /\ pending \in HeadFile
    /\ written \in {"none", "pending", "head", "unlinked"}
    /\ lease \in Writers \cup {Nobody}
    /\ pc \in [Actors -> {"idle"} \cup Loading \cup Appending]
    /\ seen \in [Actors -> 0..MaxEvents] /\ crashes \in 0..MaxCrashes
    /\ answer \in [Actors -> {"none", "loaded", "appended", "unreadable", "vanished",
                              "fork", "exists"}]
    /\ \A a \in Actors : pc[a] \in Appending => lease = a

TornFile == tornEvent \/ pending = Torn \/ head = Torn
Quiet    == \A a \in Actors : pc[a] = "idle"

(* "signed journal atomic head rollback or fork detected" is an accusation: when   *)
(* nobody is at work and no file is torn, what processes that died or failed left  *)
(* behind is either in order or repaired by the next load, so a journal that was   *)
(* only ever written by this code loads.                                         *)
Loadable   == (pending > 0 /\ pending = count) \/ head = count
LoadsAgain == Quiet /\ ~TornFile => Loadable

(* Under the lease the head never runs ahead of the events and lags by one at     *)
(* most, and that only while the announcement of the newest event survives.        *)
HeadLag ==
    ~TornFile => head \in {count, count - 1} /\ (head = count - 1 => pending = count)

(* A writer is refused only for a file left torn: no other writer's death or       *)
(* failure, at any point, makes the next append fail.                             *)
RefusedOnlyIfTorn ==
    \A a \in Writers : answer[a] \in {"unreadable", "vanished", "fork", "exists"} => TornFile

(* A journal can always be appended to again: whatever crashes, a writer gets its  *)
(* event in, or the journal is full, or a file is torn.                           *)
AppendsGoOn == \A n \in 0..(MaxEvents - 1) : count = n ~> (count > n \/ TornFile)

=============================================================================
