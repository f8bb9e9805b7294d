-------------------------- MODULE SignedJournalProofs --------------------------
(***************************************************************************)
(* Proofs about SignedJournal, for any number of writers, events and deaths. *)
(*                                                                         *)
(* What the files may hold between two calls is one of five cases, and the   *)
(* lease's holder is the only process that moves them from one to another,    *)
(* provided that nobody loads without the lease.  A lease-less reader that    *)
(* repairs the head as it loads breaks that, which is a violation TLC shows.  *)
(***************************************************************************)
EXTENDS SignedJournal, TLAPS

-----------------------------------------------------------------------------
(* Typing, with lease-less readers as well. *)

(* The holder of the lease has seen every event but the one it has just written, and *)
(* it appends only while there is room.                                           *)
HolderSees ==
    \A a \in Actors :
        /\ a \in Writers /\ pc[a] # "idle" => lease = a
        /\ a \in Readers => pc[a] \in {"idle"} \cup Loading
        /\ a \in Writers /\ pc[a] \notin {"idle", "load", "rename"} => seen[a] = count
        /\ pc[a] \in Appending => seen[a] < MaxEvents

TypedInv == TypeOK /\ HolderSees

LEMMA TypedInit == Init => TypedInv
<1> SUFFICES ASSUME Init PROVE TypeOK /\ HolderSees
    BY DEF TypedInv
<1>1. TypeOK
    <2>1. /\ count \in 0..MaxEvents /\ head \in HeadFile /\ pending \in HeadFile
          /\ crashes \in 0..MaxCrashes /\ seen \in [Actors -> 0..MaxEvents]
        BY JournalAssumption DEF Init, HeadFile
    <2>2. /\ pc \in [Actors -> {"idle"} \cup Loading \cup Appending]
          /\ \A a \in Actors : pc[a] \in Appending => lease = a
        BY DEF Init, Appending
    <2> QED BY <2>1, <2>2 DEF Init, TypeOK
<1>2. HolderSees
    BY JournalAssumption DEF Init, HolderSees, Loading, Appending, Actors
<1> QED
    BY <1>1, <1>2

LEMMA TypedStep ==
    ASSUME TypedInv, [Next]_vars
    PROVE  TypedInv'
<1> USE JournalAssumption DEF TypedInv, TypeOK, HolderSees, Actors, Loading, Appending, HeadFile,
        Torn, Goto, Finish, files
<1>1. CASE UNCHANGED vars
    BY <1>1 DEF vars
<1>2. ASSUME NEW a \in Actors, Start(a) PROVE TypedInv'
    BY <1>2 DEF Start
<1>3. ASSUME NEW a \in Actors, LoadEvents(a) PROVE TypedInv'
    BY <1>3 DEF LoadEvents
<1>4. ASSUME NEW a \in Actors, ReadPending(a) PROVE TypedInv'
    BY <1>4 DEF ReadPending
<1>5. ASSUME NEW a \in Actors, Promote(a) PROVE TypedInv'
    BY <1>5 DEF Promote, RenamePending
<1>6. ASSUME NEW a \in Actors, Discard(a) PROVE TypedInv'
    BY <1>6 DEF Discard
<1>7. ASSUME NEW a \in Actors, CompareHead(a) PROVE TypedInv'
    BY <1>7 DEF CompareHead
<1>8. ASSUME NEW a \in Actors, Announce(a) PROVE TypedInv'
    BY <1>8 DEF Announce
<1>9. ASSUME NEW a \in Actors, Fill(a) PROVE TypedInv'
    BY <1>9 DEF Fill
<1>10. ASSUME NEW a \in Actors, CreateEvent(a) PROVE TypedInv'
    <2>1. a \in Writers /\ seen[a] = count /\ seen[a] < MaxEvents /\ lease = a
        BY <1>10 DEF CreateEvent
    <2>2. TypeOK'
        <3>1. CASE pc' = [pc EXCEPT ![a] = "idle"] /\ answer' = [answer EXCEPT ![a] = "exists"]
                   /\ lease' = (IF lease = a THEN Nobody ELSE lease)
            BY <1>10, <2>1, <3>1, SMTT(30) DEF CreateEvent
        <3>2. CASE pc' = [pc EXCEPT ![a] = "fillEvent"] /\ UNCHANGED <<lease, answer>>
            <4>1. pc' \in [Actors -> {"idle"} \cup Loading \cup Appending]
                BY <3>2
            <4>2. \A b \in Actors : pc'[b] \in Appending => lease' = b
                BY <2>1, <3>2
            <4>3. tornEvent' \in BOOLEAN
                BY <1>10 DEF CreateEvent
            <4> QED
                BY <1>10, <3>2, <4>1, <4>2, <4>3 DEF CreateEvent
        <3> QED
            BY <1>10, <3>1, <3>2 DEF CreateEvent, Finish, Goto
    <2>3. HolderSees'
        BY <1>10, <2>1, SMTT(60) DEF CreateEvent
    <2> QED BY <2>2, <2>3
<1>11. ASSUME NEW a \in Actors, FillEvent(a) PROVE TypedInv'
    <2>1. a \in Writers /\ seen[a] = count /\ seen[a] < MaxEvents /\ lease = a
        BY <1>11 DEF FillEvent
    <2>2. count' = count + 1 /\ count' \in 0..MaxEvents
        BY <1>11, <2>1 DEF FillEvent
    <2>3. TypeOK'
        BY <1>11, <2>1, <2>2 DEF FillEvent
    <2>4. HolderSees'
        BY <1>11, <2>1, <2>2 DEF FillEvent
    <2> QED BY <2>3, <2>4
<1>12. ASSUME NEW a \in Actors, Rename(a) PROVE TypedInv'
    BY <1>12 DEF Rename, RenamePending
<1>13. ASSUME NEW a \in Actors, Crash(a) PROVE TypedInv'
    BY <1>13 DEF Crash
<1> QED
    BY <1>1, <1>2, <1>3, <1>4, <1>5, <1>6, <1>7, <1>8, <1>9, <1>10, <1>11, <1>12, <1>13
    DEF Next, Step

(* The files hold what the code writes into them, and only the lease's holder is past *)
(* the comparison of the heads (append, src/authority/host/signed-journal.ts).         *)
THEOREM JournalTyping == Spec => []TypeOK
<1>1. Init => TypedInv
    BY TypedInit
<1>2. TypedInv => TypeOK
    BY DEF TypedInv
<1> QED
    BY <1>1, <1>2, TypedStep, PTL DEF Spec

-----------------------------------------------------------------------------
(* The files, when every load holds the lease. *)

(* Between two calls: in order, announced, announced in vain, half written, or       *)
(* written and not yet renamed.                                                  *)
Kept ==
    \/ ~tornEvent /\ head = count /\ pending \in {0, Torn, count + 1}
    \/ tornEvent  /\ head = count /\ pending = count + 1
    \/ ~tornEvent /\ head = count - 1 /\ pending = count /\ count > 0

(* Where the holder stands tells which case the files are in. *)
Located ==
    \A a \in Writers :
        /\ lease = a => pc[a] # "idle"
        /\ pc[a] = "reconcile" => ~tornEvent
        /\ pc[a] = "promote" => head = count - 1 /\ pending = count
        /\ pc[a] = "discard" => head = count /\ pending = count + 1 /\ ~tornEvent
        /\ pc[a] \in {"compare", "announce"} => head = count /\ pending = 0
        /\ pc[a] = "fill" => head = count /\ pending = Torn /\ written = "pending"
        /\ pc[a] = "event" => head = count /\ pending = count + 1 /\ ~tornEvent
        /\ pc[a] = "fillEvent" => head = count /\ pending = count + 1 /\ tornEvent
        /\ pc[a] = "rename" => head = count - 1 /\ pending = count

(* A refusal of a file left torn is final: nobody gets past the tear. *)
Refused ==
    \A a \in Writers :
        /\ answer[a] \notin {"vanished", "fork", "exists"}
        /\ answer[a] = "unreadable" =>
              TornFile /\ \A b \in Writers : pc[b] \in {"idle", "load", "reconcile"}

(* A head file is being written only by the holder that announces. *)
Open == written # "none" => \E a \in Writers : pc[a] = "fill"

JournalInv == TypedInv /\ Kept /\ Located /\ Refused /\ Open

LEMMA JournalStep ==
    ASSUME Readers = {}, JournalInv, [Next]_vars
    PROVE  JournalInv'
<1> DEFINE Rest == Kept /\ Located /\ Refused /\ Open
<1> SUFFICES Rest'
    BY TypedStep DEF JournalInv
<1> TypedInv /\ Actors = Writers
    BY DEF JournalInv, Actors
<1> USE JournalAssumption DEF TypedInv, TypeOK, HolderSees, Actors, Loading, Appending, HeadFile,
        Torn, Goto, Finish, files, JournalInv, Kept, Located, Refused, Open, TornFile
<1>1. CASE UNCHANGED vars
    BY <1>1 DEF vars
<1>2. ASSUME NEW a \in Writers, Start(a) PROVE Rest'
    BY <1>2 DEF Start
<1>3. ASSUME NEW a \in Writers, LoadEvents(a) PROVE Rest'
    BY <1>3 DEF LoadEvents
<1>4. ASSUME NEW a \in Writers, ReadPending(a) PROVE Rest'
    BY <1>4 DEF ReadPending
<1>5. ASSUME NEW a \in Writers, Promote(a) PROVE Rest'
    BY <1>5 DEF Promote, RenamePending
<1>6. ASSUME NEW a \in Writers, Discard(a) PROVE Rest'
    BY <1>6 DEF Discard
<1>7. ASSUME NEW a \in Writers, CompareHead(a) PROVE Rest'
    BY <1>7 DEF CompareHead
<1>8. ASSUME NEW a \in Writers, Announce(a) PROVE Rest'
    BY <1>8 DEF Announce
<1>9. ASSUME NEW a \in Writers, Fill(a) PROVE Rest'
    BY <1>9 DEF Fill
<1>10. ASSUME NEW a \in Writers, CreateEvent(a) PROVE Rest'
    BY <1>10 DEF CreateEvent
<1>11. ASSUME NEW a \in Writers, FillEvent(a) PROVE Rest'
    BY <1>11 DEF FillEvent
<1>12. ASSUME NEW a \in Writers, Rename(a) PROVE Rest'
    BY <1>12 DEF Rename, RenamePending
<1>13. ASSUME NEW a \in Writers, Crash(a) PROVE Rest'
    BY <1>13 DEF Crash
<1> HIDE DEF Rest
<1> QED
    BY <1>1, <1>2, <1>3, <1>4, <1>5, <1>6, <1>7, <1>8, <1>9, <1>10, <1>11, <1>12, <1>13
    DEF Next, Step

LEMMA JournalInductive ==
    ASSUME Readers = {}
    PROVE  Spec => []JournalInv
<1>1. Init => TypedInv
    BY TypedInit
<1>2. Init => JournalInv
    BY <1>1, JournalAssumption DEF Init, JournalInv, Kept, Located, Refused, Open, Actors
<1>3. JournalInv /\ [Next]_vars => JournalInv'
    BY JournalStep
<1> QED
    BY <1>2, <1>3, PTL DEF Spec

(* When every load holds the request's lease, the head names the newest event or the  *)
(* one before it, and in that case the announcement of the newest is there to be       *)
(* promoted, whichever writers died at whatever step (append and reconcileHead,        *)
(* src/authority/host/signed-journal.ts).                                          *)
THEOREM HeadLagsByOne ==
    ASSUME Readers = {}
    PROVE  Spec => []HeadLag
<1>1. JournalInv => HeadLag
    BY DEF JournalInv, Kept, HeadLag, TypedInv, TypeOK, TornFile, HeadFile, Torn
<1> QED
    BY <1>1, JournalInductive, PTL

(* A journal that only leased processes wrote is never accused of a rollback or fork  *)
(* while no file is torn: the next load repairs what they left (reconcileHead,        *)
(* src/authority/host/signed-journal.ts).                                           *)
THEOREM LeasedJournalLoads ==
    ASSUME Readers = {}
    PROVE  Spec => []LoadsAgain
<1>1. JournalInv => LoadsAgain
    BY DEF JournalInv, Kept, LoadsAgain, Loadable, TypedInv, TypeOK, TornFile, HeadFile, Torn
<1> QED
    BY <1>1, JournalInductive, PTL

(* No writer's death makes another's append fail unless it left a file torn (append,   *)
(* src/authority/host/signed-journal.ts).                                           *)
THEOREM RefusalsAreOfTornFiles ==
    ASSUME Readers = {}
    PROVE  Spec => []RefusedOnlyIfTorn
<1>1. JournalInv => RefusedOnlyIfTorn
    BY DEF JournalInv, Refused, RefusedOnlyIfTorn
<1> QED
    BY <1>1, JournalInductive, PTL

=============================================================================
