------------------------------- MODULE LedgerLock -------------------------------
(***************************************************************************)
(* How one operation of the ledger gets in: withLock of fs-ledger.ts.  The     *)
(* operation fence binds a loopback port derived from the ledger's root, which *)
(* the operating system frees when its process dies; behind it a process       *)
(* publishes a stage, is elected by its ticket and renames the stage to the    *)
(* lock.  A dead owner's lock becomes a marker that demands recovery, and a    *)
(* marker goes only behind an acknowledgement.  A process may die anywhere.    *)
(*                                                                         *)
(* A process carries out one operation a life, under a pid and nonce of its    *)
(* own.  The admission slot, which only a test option enables, is left out.    *)
(***************************************************************************)
EXTENDS Integers, FiniteSets, FiniteSetsExt

CONSTANTS
    Contenders,         \* processes that operate on the ledger
    MaxOwners           \* bound: lives, hence owners of a stage or lock

ASSUME LedgerLockAssumption == MaxOwners \in Nat

VARIABLES
    foreignPort,    \* another program listens on the first candidate port
    ports,          \* port -> the owner whose fence is bound to it
    activeLock,     \* the owner in lock/owner.json; 0 when there is no lock
    publications,   \* owner -> its publication stage: none, partial or complete
    tickets,        \* owner -> the ticket in its stage's name
    markers,        \* name of a retired lock -> its disposition and the owner inside
    notices,        \* name of a retired lock -> its cleanup acknowledgement
    contender,      \* process -> its owner and where it stands
    owners,         \* owners drawn
    owed,           \* history: owners that died holding the lock, not recovered since
    crowded,        \* history: two processes were inside the fence at once
    displaced,         \* history: a live owner's lock was renamed away by another process
    corrupt         \* history: somebody was refused with "corruption"

lockVars == <<foreignPort, ports, activeLock, publications, tickets, markers, notices, contender,
              owners, owed, crowded, displaced, corrupt>>

Owners == 1..MaxOwners
Ports  == {1, 2}
Outside == [owner |-> 0, at |-> "outside", seen |-> 0, todo |-> {}]
Unmarked == [disposition |-> "none", inside |-> 0]

LockInit ==
    /\ foreignPort \in BOOLEAN /\ ports = [k \in Ports |-> 0]
    /\ activeLock = 0 /\ owners = 0
    /\ publications = [o \in Owners |-> "none"] /\ tickets = [o \in Owners |-> 0]
    /\ markers = [o \in Owners |-> Unmarked] /\ notices = [o \in Owners |-> "none"]
    /\ contender = [p \in Contenders |-> Outside]
    /\ owed = {} /\ crowded = FALSE /\ displaced = FALSE /\ corrupt = FALSE
-----------------------------------------------------------------------------
Living(owner)  == \E p \in Contenders : contender[p].owner = owner
Stands(p, at)  == contender[p].at = at
Advance(p, at) == contender' = [contender EXCEPT ![p].at = at]
Staged         == {o \in Owners : publications[o] # "none"}
DeadStages     == {o \in Staged : ~Living(o)}

files    == <<activeLock, publications, tickets, markers, notices>>
fence    == <<foreignPort, ports, owners, crowded>>
verdicts == <<owed, displaced, corrupt>>

EnterLock(p) ==
    /\ Stands(p, "outside") /\ owners < MaxOwners
    /\ owners' = owners + 1
    /\ contender' = [contender EXCEPT ![p] = [Outside EXCEPT !.owner = owners', !.at = "fence"]]
    /\ UNCHANGED <<foreignPort, ports, crowded, files, verdicts>>

(* The first candidate port that no other program holds; one that a process of this    *)
(* ledger holds is waited for.                                                         *)
BindFence(p) ==
    /\ Stands(p, "fence")
    /\ LET port == IF foreignPort THEN 2 ELSE 1
       IN /\ ports[port] = 0
          /\ ports' = [ports EXCEPT ![port] = contender[p].owner]
    /\ crowded' = (crowded \/ \E k \in Ports : ports[k] # 0)
    /\ Advance(p, "inspect")
    /\ UNCHANGED <<foreignPort, owners, files, verdicts>>

(* Whatever it answers, an operation removes its own stage and lets its fence go; the    *)
(* process lives on for a while.                                                        *)
Depart(p) ==
    /\ ports' = [k \in Ports |-> IF ports[k] = contender[p].owner THEN 0 ELSE ports[k]]
    /\ publications' = [publications EXCEPT ![contender[p].owner] = "none"]
    /\ Advance(p, "departed")
    /\ UNCHANGED <<foreignPort, owners, crowded>>

GiveUp(p) ==
    /\ contender[p].at \in {"fence", "inspect", "stage", "elect"}      \* busy at the deadline
    /\ Depart(p)
    /\ UNCHANGED <<activeLock, tickets, markers, notices, verdicts>>

Refuse(p) == /\ Depart(p) /\ corrupt' = TRUE
             /\ UNCHANGED <<activeLock, tickets, markers, notices, owed, displaced>>
-----------------------------------------------------------------------------
(* A live owner is waited for; the lock of a dead one is retired: read, and renamed      *)
(* to the marker of the owner that was read.                                            *)
InspectActiveLock(p) ==
    /\ Stands(p, "inspect")
    /\ \/ /\ activeLock = 0
          /\ Advance(p, IF publications[contender[p].owner] = "complete" THEN "elect" ELSE "stage")
       \/ /\ activeLock # 0 /\ ~Living(activeLock)
          /\ contender' = [contender EXCEPT ![p].at = "retire", ![p].seen = activeLock]
    /\ UNCHANGED <<files, fence, verdicts>>

(* A slip: the marker is named for the process that retires the lock.                    *)
RetireDeadLockAsOwn(p) ==
    /\ Stands(p, "retire")
    /\ markers' = [markers EXCEPT ![contender[p].owner] =
                     [disposition |-> "recovery-pending", inside |-> activeLock]]
    /\ activeLock' = 0
    /\ Advance(p, "inspect")
    /\ UNCHANGED <<publications, tickets, notices, fence, verdicts>>

RetireDeadLock(p) ==
    /\ Stands(p, "retire")
    /\ LET seen == contender[p].seen
       IN IF activeLock = 0 THEN Advance(p, "inspect") /\ UNCHANGED <<files, fence, verdicts>>
          ELSE IF markers[seen] # Unmarked                              \* the rename fails
          THEN Depart(p) /\ UNCHANGED <<activeLock, tickets, markers, notices, verdicts>>
          ELSE /\ markers' = [markers EXCEPT ![seen] = [disposition |-> "recovery-pending",
                                                        inside |-> activeLock]]
               /\ activeLock' = 0
               /\ displaced' = (displaced \/ Living(activeLock))
               /\ Advance(p, IF activeLock = seen THEN "inspect" ELSE "mismatch")
               /\ UNCHANGED <<publications, tickets, notices, fence, owed, corrupt>>

RefuseMismatch(p) == Stands(p, "mismatch") /\ Refuse(p)

(* The stages of the dead go first: a whole one becomes a marker, another is removed.    *)
SettleDeadStage(p) ==
    /\ contender[p].at \in {"stage", "elect", "held"}
    /\ \E o \in DeadStages :
          /\ publications' = [publications EXCEPT ![o] = "none"]
          /\ markers' = IF publications[o] = "partial" THEN markers
                        ELSE [markers EXCEPT ![o] = [disposition |-> "publication-aborted",
                                                     inside |-> o]]
    /\ UNCHANGED <<activeLock, tickets, notices, contender, fence, verdicts>>

(* A ticket above all that are visible; the stage of that name is made later.            *)
DrawTicket(p) ==
    /\ Stands(p, "stage") /\ DeadStages = {}
    /\ tickets' = [tickets EXCEPT ![contender[p].owner] =
                     1 + Max({0} \cup {tickets[o] : o \in Staged})]
    /\ Advance(p, "mkdir")
    /\ UNCHANGED <<activeLock, publications, markers, notices, fence, verdicts>>

CreateStage(p) ==
    /\ Stands(p, "mkdir") \/ Stands(p, "write")
    /\ publications' = [publications EXCEPT ![contender[p].owner] =
                          IF Stands(p, "mkdir") THEN "partial" ELSE "complete"]
    /\ Advance(p, IF Stands(p, "mkdir") THEN "write" ELSE "elect")
    /\ UNCHANGED <<activeLock, tickets, markers, notices, fence, verdicts>>

Precedes(o, q) == tickets[o] < tickets[q] \/ (tickets[o] = tickets[q] /\ o < q)

(* The first of the living is elected; the others wait for their predecessor.            *)
ElectStage(p) ==
    /\ Stands(p, "elect") /\ DeadStages = {}
    /\ \A o \in Staged : ~Precedes(o, contender[p].owner)
    /\ Advance(p, "publish")
    /\ UNCHANGED <<files, fence, verdicts>>

(* A slip: the rename replaces what it finds.                                           *)
PublishLockOver(p) ==
    /\ Stands(p, "publish")
    /\ activeLock' = contender[p].owner
    /\ publications' = [publications EXCEPT ![contender[p].owner] = "none"]
    /\ Advance(p, "held")
    /\ UNCHANGED <<tickets, markers, notices, fence, verdicts>>

(* The rename fails on a lock that has its owner file.                                   *)
PublishLock(p) ==
    /\ Stands(p, "publish")
    /\ IF activeLock = 0
       THEN /\ activeLock' = contender[p].owner
            /\ publications' = [publications EXCEPT ![contender[p].owner] = "none"]
            /\ Advance(p, "held")
       ELSE Advance(p, "inspect") /\ UNCHANGED <<activeLock, publications>>
    /\ UNCHANGED <<tickets, markers, notices, fence, verdicts>>
-----------------------------------------------------------------------------
Marked  == {o \in Owners : markers[o] # Unmarked}
Pending == {o \in Marked : markers[o].disposition = "recovery-pending"}
With(notice) == {o \in Owners : notices[o] = notice}

Retouch(o, notice) == notices' = [notices EXCEPT ![o] = notice]

(* acknowledgeAndCleanup, a file at a time: the notice, its rename, the marker, the      *)
(* notice again.  A notice that a dead process left unfinished is written anew.          *)
FinishAcknowledged(p, o) ==
    /\ o \in With("acked")
    /\ IF o \in Marked THEN markers' = [markers EXCEPT ![o] = Unmarked] /\ UNCHANGED notices
                       ELSE Retouch(o, "none") /\ UNCHANGED markers
    /\ UNCHANGED contender

Acknowledge(p, o) ==
    /\ With("acked") = {}
    /\ IF notices[o] = "none" THEN Retouch(o, "staged") ELSE Retouch(o, "acked")
    /\ contender' = [contender EXCEPT ![p].todo = IF notices[o] = "staged" THEN @ \ {o} ELSE @]
    /\ UNCHANGED markers

(* A slip: every marker is acknowledged at once.                                        *)
ServiceMarkersAlike(p) ==
    /\ Stands(p, "held") /\ DeadStages = {}
    /\ \A o \in Marked : markers[o].inside = o
    /\ \/ \E o \in Owners : FinishAcknowledged(p, o)
       \/ \E o \in With("staged") \cup Marked : Acknowledge(p, o)
    /\ UNCHANGED <<activeLock, publications, tickets, fence, verdicts>>

(* Under the lock: acknowledged markers are cleared, half-acknowledged ones and those     *)
(* that ask for nothing acknowledged; then the ledger is recovered on behalf of the rest, *)
(* and only then are these acknowledged.                                                *)
ServiceMarkers(p) ==
    /\ Stands(p, "held") /\ DeadStages = {}
    /\ \A o \in Marked : markers[o].inside = o
    /\ \/ \E o \in Owners : FinishAcknowledged(p, o)
       \/ \E o \in contender[p].todo : Acknowledge(p, o)
       \/ /\ contender[p].todo = {}
          /\ \E o \in With("staged") \cup (Marked \ Pending) : Acknowledge(p, o)
    /\ UNCHANGED <<activeLock, publications, tickets, fence, verdicts>>

RecoverPendingMarkers(p) ==
    /\ Stands(p, "held") /\ contender[p].todo = {} /\ DeadStages = {}
    /\ Pending # {} /\ Pending = Marked /\ With("staged") \cup With("acked") = {}
    /\ \A o \in Marked : markers[o].inside = o
    /\ contender' = [contender EXCEPT ![p].todo = Pending]
    /\ owed' = owed \ Pending
    /\ UNCHANGED <<files, fence, displaced, corrupt>>

(* A marker that holds another's lock is refused by every operation.                    *)
RefuseMarker(p) ==
    /\ Stands(p, "held")
    /\ \E o \in Marked : markers[o].inside # o
    /\ corrupt' = TRUE
    /\ Advance(p, "release")
    /\ UNCHANGED <<files, fence, owed, displaced>>

Operate(p) ==
    /\ Stands(p, "held")
    /\ Marked = {} /\ With("staged") \cup With("acked") = {} /\ DeadStages = {}
    /\ Advance(p, "operate")
    /\ UNCHANGED <<files, fence, verdicts>>

Operated(p) ==
    /\ Stands(p, "operate") /\ Advance(p, "release")
    /\ UNCHANGED <<files, fence, verdicts>>

(* The lock is read once more and renamed away; any error is swallowed.                  *)
CheckOwnLock(p) ==
    /\ Stands(p, "release")
    /\ IF activeLock = contender[p].owner THEN Advance(p, "unlock") /\ UNCHANGED <<files, fence>>
       ELSE Depart(p) /\ UNCHANGED <<activeLock, tickets, markers, notices>>
    /\ UNCHANGED verdicts

Unlock(p) ==
    /\ Stands(p, "unlock")
    /\ LET own == contender[p].owner
       IN IF activeLock = 0 THEN UNCHANGED <<activeLock, markers, displaced>>
          ELSE /\ activeLock' = 0
               /\ displaced' = (displaced \/ (activeLock # own /\ Living(activeLock)))
               /\ markers' = [markers EXCEPT ![own] = [disposition |-> "released",
                                                       inside |-> activeLock]]
    /\ Depart(p)
    /\ UNCHANGED <<tickets, notices, owed, corrupt>>
-----------------------------------------------------------------------------
(* The process ends, at rest or in the middle; its port is free, its files stay.         *)
ContenderDies(p) ==
    /\ ~Stands(p, "outside")
    /\ owed' = IF activeLock = contender[p].owner THEN owed \cup {activeLock} ELSE owed
    /\ ports' = [k \in Ports |-> IF ports[k] = contender[p].owner THEN 0 ELSE ports[k]]
    /\ contender' = [contender EXCEPT ![p] = Outside]
    /\ UNCHANGED <<foreignPort, owners, crowded, displaced, corrupt, files>>

(* The other program stops listening. *)
ForeignLeaves ==
    /\ foreignPort /\ foreignPort' = FALSE
    /\ UNCHANGED <<ports, owners, crowded, contender, files, verdicts>>

LockNext ==
    \/ ForeignLeaves
    \/ \E p \in Contenders :
         \/ EnterLock(p) \/ BindFence(p) \/ GiveUp(p)
         \/ InspectActiveLock(p) \/ RetireDeadLock(p) \/ RefuseMismatch(p) \/ SettleDeadStage(p)
         \/ DrawTicket(p) \/ CreateStage(p) \/ ElectStage(p) \/ PublishLock(p)
         \/ ServiceMarkers(p) \/ RecoverPendingMarkers(p) \/ RefuseMarker(p)
         \/ Operate(p) \/ Operated(p) \/ CheckOwnLock(p) \/ Unlock(p)
         \/ ContenderDies(p)

LockSpec == LockInit /\ [][LockNext]_lockVars
-----------------------------------------------------------------------------
Places == {"outside", "fence", "inspect", "retire", "mismatch", "stage", "mkdir", "write", "elect",
           "publish", "held", "operate", "release", "unlock", "departed"}

LockTypeOK ==
    /\ ports \in [Ports -> 0..MaxOwners] /\ activeLock \in 0..MaxOwners
    /\ publications \in [Owners -> {"none", "partial", "complete"}]
    /\ notices \in [Owners -> {"none", "staged", "acked"}]
    /\ \A p \in Contenders : contender[p].at \in Places /\ contender[p].owner \in 0..owners

Holding(p) == contender[p].at \in {"held", "operate", "release", "unlock"}

(* Two live processes never hold the ledger at once, even when the fence let two in (a    *)
(* port that another program frees lets a second process bind an earlier candidate),      *)
(* unless the read of a dead owner and the rename of its lock were so far apart that the  *)
(* lock was a live one's by then (withK1OperationFence, acquireLock, retireOwnedLock).    *)
LockExclusive ==
    /\ ~displaced => \A p, q \in Contenders : Holding(p) /\ Holding(q) => p = q
    /\ displaced => crowded

(* An owner that died holding the lock is still there to be seen, as the lock or as a    *)
(* marker that demands recovery, until a later owner has recovered the ledger on its     *)
(* behalf: no cleanup, whoever dies in it, forgets a death (withLock, line 689); only      *)
(* the rename of a live owner's lock, as above, may lose one.                             *)
DeathsRemembered ==
    ~displaced => \A o \in owed : activeLock = o \/ \E n \in Pending : markers[n].inside = o

(* While the fence admits one process at a time, what dead processes leave is never      *)
(* called corruption: the ledger cannot be closed for good by crashes.                   *)
CrashesNeverClose == corrupt => crowded

(* A death in the lock is remembered until it is recovered, and never taken for           *)
(* corruption.                                                                           *)
DeathsSettle == DeathsRemembered /\ CrashesNeverClose
=============================================================================
