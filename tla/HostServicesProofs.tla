--------------------------- MODULE HostServicesProofs ---------------------------
(***************************************************************************)
(* Proofs about the services of the host that keep stores of their own, for    *)
(* any number of processes and of lives, calls and requests.                  *)
(***************************************************************************)
EXTENDS LedgerLock, GateDecisions, DecisionSink, RuntimeCalls, ReleaseSaga, DelegationService,
        SessionActivation, FiniteSetTheorems, TLAPS

-----------------------------------------------------------------------------
(* The lock of the ledger and its fence. *)

LockPlaces == Places \ {"outside", "fence", "departed"}
Inside(p)  == contender[p].at \in LockPlaces

ContenderRecord == [owner : 0..MaxOwners, at : Places, seen : 0..MaxOwners, todo : SUBSET Owners]

LockRecords ==
    /\ foreignPort \in BOOLEAN /\ ports \in [Ports -> 0..MaxOwners] /\ activeLock \in 0..MaxOwners
    /\ publications \in [Owners -> {"none", "partial", "complete"}]
    /\ markers \in [Owners -> [disposition : {"none", "recovery-pending", "publication-aborted",
                                             "released"},
                               inside : 0..MaxOwners]]
    /\ notices \in [Owners -> {"none", "staged", "acked"}]
    /\ contender \in [Contenders -> ContenderRecord]
    /\ owners \in 0..MaxOwners /\ owed \subseteq Owners

(* Each life has an owner of its own. *)
Named ==
    /\ \A p \in Contenders : contender[p].owner <= owners
    /\ \A p \in Contenders : contender[p].owner = 0 <=> contender[p].at = "outside"
    /\ \A p, q \in Contenders : contender[p].owner = contender[q].owner /\ contender[p].owner # 0 => p = q

(* A name that no process will take a stage or the lock under any more. *)
Bygone(o) ==
    /\ o <= owners /\ o # activeLock
    /\ \A p \in Contenders : contender[p].owner = o => contender[p].at = "departed"

(* The owner of the lock has no stage any more, and holds the lock if it lives. *)
Occupied ==
    /\ activeLock <= owners
    /\ activeLock # 0 =>
          /\ publications[activeLock] = "none"
          /\ \A p \in Contenders : contender[p].owner = activeLock => Holding(p)

Staging ==
    /\ \A o \in Owners : publications[o] # "none" => o <= owners
    /\ \A p \in Contenders : Holding(p) => publications[contender[p].owner] = "none"

(* Marker, notice and todo are about names gone by, and only a marker that demands     *)
(* recovery is about a death that is owed for.                                        *)
Marks ==
    /\ \A o \in Owners : markers[o].disposition = "none" <=> markers[o] = Unmarked
    /\ \A o \in Marked : Bygone(o) /\ publications[o] = "none"
    /\ \A o \in Pending : ~Living(o)
    /\ \A o \in Marked \ Pending : o \notin owed

Noted ==
    /\ \A o \in Owners : notices[o] # "none" => Bygone(o) /\ o \notin owed
    /\ \A p \in Contenders : \A o \in contender[p].todo : Bygone(o) /\ o \notin owed

Owing == \A o \in owed : o <= owners /\ ~Living(o) /\ publications[o] = "none"

(* Who renames the lock of a dead owner has read that name in it. *)
Retiring ==
    \A p \in Contenders : contender[p].at = "retire" =>
        /\ contender[p].seen \in Owners /\ contender[p].seen <= owners
        /\ ~Living(contender[p].seen) /\ publications[contender[p].seen] = "none"

(* Whoever is inside the fence has bound a port; one at a time finds the lock as it     *)
(* read it.                                                                          *)
Fenced ==
    /\ \A p \in Contenders : Inside(p) => \E k \in Ports : ports[k] = contender[p].owner
    /\ ~crowded =>
          /\ \A p, q \in Contenders : Inside(p) /\ Inside(q) => p = q
          /\ ~displaced /\ ~corrupt
          /\ \A p \in Contenders : contender[p].at = "retire" => activeLock = contender[p].seen
          /\ \A p \in Contenders : contender[p].at # "mismatch"
          /\ \A o \in Marked : markers[o].inside = o

(* Whoever holds the lock is named in it. *)
Held == ~displaced => \A p \in Contenders : Holding(p) => activeLock = contender[p].owner

LockInv == /\ LockRecords /\ Named /\ Occupied /\ Staging /\ Marks /\ Noted /\ Owing /\ Retiring
           /\ Fenced /\ Held /\ DeathsRemembered

(* The record of a process whose step leaves it in its life. *)
Stays(p, to) ==
    /\ contender' \in [Contenders -> ContenderRecord]
    /\ contender'[p].at = to /\ contender'[p].owner = contender[p].owner
    /\ contender'[p].todo \subseteq contender[p].todo
    /\ \A q \in Contenders : q # p => contender'[q] = contender[q]

LEMMA Advancing ==
    ASSUME LockRecords, NEW p \in Contenders, NEW to \in Places, Advance(p, to)
    PROVE  Stays(p, to) /\ contender'[p].seen = contender[p].seen
BY DEF LockRecords, Stays, Advance, ContenderRecord

LEMMA Ranges ==
    ASSUME LockInv
    PROVE  /\ Owners \subseteq 0..MaxOwners /\ 0 \notin Owners /\ owed \subseteq Owners
           /\ owners \in 0..MaxOwners /\ activeLock \in 0..MaxOwners /\ 0 <= owners
           /\ activeLock # 0 => activeLock \in Owners
           /\ 0 \in 0..MaxOwners
           /\ \A q \in Contenders :
                 /\ contender[q].owner \in 0..MaxOwners /\ contender[q].owner <= owners
                 /\ contender[q].todo \subseteq Owners
                 /\ contender[q].at # "outside" => contender[q].owner \in Owners
BY LedgerLockAssumption DEF LockInv, LockRecords, ContenderRecord, Named, Owners

(* A step inside the fence that changes nothing but the place of a process. *)
LEMMA MovesInside ==
    ASSUME LockInv, NEW p \in Contenders, NEW to \in LockPlaces \ {"mismatch"}, Stays(p, to), Inside(p),
           UNCHANGED <<foreignPort, ports, owners, crowded, activeLock, publications, markers, notices,
                       owed, displaced>>,
           corrupt' => corrupt \/ crowded,
           Holding(p) <=> to \in {"held", "operate", "release", "unlock"},
           to = "retire" =>
               /\ contender'[p].seen \in Owners /\ contender'[p].seen <= owners
               /\ ~Living(contender'[p].seen) /\ publications[contender'[p].seen] = "none"
               /\ activeLock = contender'[p].seen
    PROVE  LockInv'
<1> USE DEF Stays
<1>1. LockRecords'
    BY DEF LockInv, LockRecords, LockPlaces, Inside, Holding
<1>2. Named'
    BY DEF LockInv, Named, LockPlaces, Inside, Holding
<1>3. Occupied'
    BY DEF LockInv, Occupied, Holding, LockPlaces, Inside, Holding
<1>4. Staging'
    BY DEF LockInv, Staging, Holding, Owners, LockPlaces, Inside, Holding
<1>5. Marks'
    BY DEF LockInv, Marks, Marked, Pending, Bygone, Living, Unmarked, LockPlaces, Inside, Holding
<1>6. Noted'
    BY DEF LockInv, Noted, Bygone, LockPlaces, Inside, Holding
<1>7. Owing'
    BY DEF LockInv, Owing, Living, LockPlaces, Inside, Holding
<1>8. Retiring'
    BY DEF LockInv, Retiring, Living, LockPlaces, Inside, Holding
<1>9. Fenced'
    BY DEF LockInv, Fenced, Inside, LockPlaces, Places, Marked, Unmarked, LockPlaces, Inside, Holding
<1>10. Held'
    BY DEF LockInv, Held, Holding, LockPlaces, Inside, Holding
<1>11. DeathsRemembered'
    BY DEF LockInv, DeathsRemembered, Pending, Marked, LockPlaces, Inside, Holding
<1> QED
    BY <1>1, <1>2, <1>3, <1>4, <1>5, <1>6, <1>7, <1>8, <1>9, <1>10, <1>11 DEF LockInv

(* An operation that leaves. *)
LEMMA Departing ==
    ASSUME LockInv, NEW p \in Contenders, ~Stands(p, "outside"), Depart(p),
           UNCHANGED <<activeLock, markers, notices, owed, displaced>>, corrupt' => corrupt \/ crowded,
           Holding(p) => activeLock # contender[p].owner
    PROVE  LockInv'
<1>1. /\ Stays(p, "departed") /\ contender[p].owner \in Owners
      /\ publications' = [publications EXCEPT ![contender[p].owner] = "none"]
      /\ ports' = [k \in Ports |-> IF ports[k] = contender[p].owner THEN 0 ELSE ports[k]]
      /\ UNCHANGED <<foreignPort, owners, crowded>>
    <2>1. Stays(p, "departed")
        BY Advancing DEF LockInv, Depart, Places
    <2>2. contender[p].owner \in 0..MaxOwners /\ contender[p].owner # 0
        BY DEF LockInv, LockRecords, ContenderRecord, Named, Stands
    <2> QED BY <2>1, <2>2 DEF Depart, Owners
<1> USE <1>1 DEF Stays
<1>2. LockRecords'
    BY LedgerLockAssumption DEF LockInv, LockRecords
<1>3. Named'
    BY DEF LockInv, Named, Owners
<1>4. Occupied'
    BY DEF LockInv, Occupied, Holding, LockPlaces, Inside, Holding
<1>5. Staging'
    BY DEF LockInv, Staging, Holding, Owners, LockPlaces, Inside, Holding
<1>6. Marks'
    BY DEF LockInv, Marks, Marked, Pending, Bygone, Living, Unmarked, LockPlaces, Inside, Holding
<1>7. Noted'
    BY DEF LockInv, Noted, Bygone, LockPlaces, Inside, Holding
<1>8. Owing'
    BY DEF LockInv, Owing, Living, LockPlaces, Inside, Holding
<1>9. Retiring'
    BY DEF LockInv, Retiring, Living, LockPlaces, Inside, Holding
<1>10. Fenced'
    <2>1. ASSUME NEW q \in Contenders, Inside(q)'
          PROVE  q # p /\ contender'[q].owner # contender[p].owner /\ Inside(q)
        BY <2>1 DEF LockInv, Named, Inside, LockPlaces, Owners
    <2>2. ASSUME NEW q \in Contenders, Inside(q)'
          PROVE  \E k \in Ports : ports'[k] = contender'[q].owner
        <3>1. PICK k \in Ports : ports[k] = contender[q].owner
            BY <2>1, <2>2 DEF LockInv, Fenced
        <3> QED BY <2>1, <2>2, <3>1
    <2>3. \A q \in Contenders : contender'[q].at = contender[q].at \/ contender'[q].at = "departed"
        OBVIOUS
    <2>4. \A q \in Contenders : contender'[q].at = "retire" =>
            contender[q].at = "retire" /\ contender'[q].seen = contender[q].seen
        OBVIOUS
    <2> QED BY <2>1, <2>2, <2>3, <2>4 DEF LockInv, Fenced, Marked
<1>11. Held'
    BY DEF LockInv, Held, Holding, LockPlaces, Inside, Holding
<1>12. DeathsRemembered'
    BY DEF LockInv, DeathsRemembered, Pending, Marked, LockPlaces, Inside, Holding
<1> QED
    BY <1>2, <1>3, <1>4, <1>5, <1>6, <1>7, <1>8, <1>9, <1>10, <1>11, <1>12 DEF LockInv

-----------------------------------------------------------------------------
(* The steps of an operation. *)

LEMMA DrawTicketStep ==
    ASSUME LockInv, NEW p \in Contenders, DrawTicket(p)
    PROVE  LockInv'
<1>1. Inside(p) /\ Advance(p, "mkdir")
    BY DEF DrawTicket, Stands, Inside, LockPlaces, Places
<1>2. Stays(p, "mkdir")
    BY <1>1, Advancing DEF LockInv, Places
<1> QED
    BY <1>1, <1>2, MovesInside DEF DrawTicket, Stands, Holding, LockPlaces, Places, fence, files, verdicts

LEMMA ElectStageStep ==
    ASSUME LockInv, NEW p \in Contenders, ElectStage(p)
    PROVE  LockInv'
<1>1. Inside(p) /\ Advance(p, "publish")
    BY DEF ElectStage, Stands, Inside, LockPlaces, Places
<1>2. Stays(p, "publish")
    BY <1>1, Advancing DEF LockInv, Places
<1> QED
    BY <1>1, <1>2, MovesInside DEF ElectStage, Stands, Holding, LockPlaces, Places, fence, files, verdicts

LEMMA OperateStep ==
    ASSUME LockInv, NEW p \in Contenders, Operate(p)
    PROVE  LockInv'
<1>1. Inside(p) /\ Advance(p, "operate")
    BY DEF Operate, Stands, Inside, LockPlaces, Places
<1>2. Stays(p, "operate")
    BY <1>1, Advancing DEF LockInv, Places
<1> QED
    BY <1>1, <1>2, MovesInside DEF Operate, Stands, Holding, LockPlaces, Places, fence, files, verdicts

LEMMA OperatedStep ==
    ASSUME LockInv, NEW p \in Contenders, Operated(p)
    PROVE  LockInv'
<1>1. Inside(p) /\ Advance(p, "release")
    BY DEF Operated, Stands, Inside, LockPlaces, Places
<1>2. Stays(p, "release")
    BY <1>1, Advancing DEF LockInv, Places
<1> QED
    BY <1>1, <1>2, MovesInside DEF Operated, Stands, Holding, LockPlaces, Places, fence, files, verdicts

LEMMA RefuseMarkerStep ==
    ASSUME LockInv, NEW p \in Contenders, RefuseMarker(p)
    PROVE  LockInv'
<1>1. Inside(p) /\ Advance(p, "release")
    BY DEF RefuseMarker, Stands, Inside, LockPlaces, Places
<1>2. Stays(p, "release")
    BY <1>1, Advancing DEF LockInv, Places
<1>3. \E o \in Marked : markers[o].inside # o
    BY DEF RefuseMarker
<1>4. crowded
    BY <1>3 DEF LockInv, Fenced
<1> QED
    BY <1>1, <1>2, <1>4, MovesInside DEF RefuseMarker, Stands, Holding, LockPlaces, Places, fence, files

LEMMA GiveUpStep ==
    ASSUME LockInv, NEW p \in Contenders, GiveUp(p)
    PROVE  LockInv'
<1>1. ~Stands(p, "outside") /\ ~Holding(p) /\ Depart(p)
    BY DEF GiveUp, Stands, Holding
<1> QED
    BY <1>1, Departing DEF GiveUp, verdicts

LEMMA RefuseMismatchStep ==
    ASSUME LockInv, NEW p \in Contenders, RefuseMismatch(p)
    PROVE  LockInv'
<1>1. ~Stands(p, "outside") /\ ~Holding(p) /\ Depart(p)
    BY DEF RefuseMismatch, Refuse, Stands, Holding
<1>2. crowded
    BY DEF RefuseMismatch, Stands, LockInv, Fenced
<1> QED
    BY <1>1, <1>2, Departing DEF RefuseMismatch, Refuse

LEMMA CheckOwnLockStep ==
    ASSUME LockInv, NEW p \in Contenders, CheckOwnLock(p)
    PROVE  LockInv'
<1>1. CASE activeLock = contender[p].owner /\ Advance(p, "unlock")
    <2>1. Inside(p) /\ Stays(p, "unlock")
        BY <1>1, Advancing DEF CheckOwnLock, Stands, Inside, LockPlaces, Places, LockInv
    <2> QED BY <1>1, <2>1, MovesInside DEF CheckOwnLock, Stands, Holding, LockPlaces, Places, fence, files, verdicts
<1>2. CASE activeLock # contender[p].owner
    BY <1>2, Departing DEF CheckOwnLock, Stands, verdicts
<1> QED
    BY <1>1, <1>2 DEF CheckOwnLock

LEMMA InspectActiveLockStep ==
    ASSUME LockInv, NEW p \in Contenders, InspectActiveLock(p)
    PROVE  LockInv'
<1>1. Inside(p) /\ ~Holding(p)
    BY DEF InspectActiveLock, Stands, Inside, LockPlaces, Places, Holding
<1>2. UNCHANGED <<foreignPort, ports, owners, crowded, activeLock, publications, markers, notices,
                  owed, displaced, corrupt>>
    BY DEF InspectActiveLock, files, fence, verdicts
<1>3. ASSUME NEW to \in {"elect", "stage"}, Advance(p, to)
      PROVE  LockInv'
    <2>1. Stays(p, to)
        BY <1>3, Advancing DEF LockInv, Places
    <2> QED BY <1>1, <1>2, <2>1, MovesInside DEF Holding, LockPlaces, Places
<1>4. CASE /\ activeLock # 0 /\ ~Living(activeLock)
           /\ contender' = [contender EXCEPT ![p].at = "retire", ![p].seen = activeLock]
    <2>1. activeLock \in Owners /\ activeLock <= owners /\ publications[activeLock] = "none"
        BY <1>4 DEF LockInv, LockRecords, Occupied, Owners
    <2>2. Stays(p, "retire") /\ contender'[p].seen = activeLock
        BY <1>4, <2>1 DEF Stays, LockInv, LockRecords, ContenderRecord, Places, Owners
    <2> QED BY <1>1, <1>2, <1>4, <2>1, <2>2, MovesInside DEF Holding, LockPlaces, Places
<1> QED
    BY <1>3, <1>4 DEF InspectActiveLock

LEMMA EnterLockStep ==
    ASSUME LockInv, NEW p \in Contenders, EnterLock(p)
    PROVE  LockInv'
<1>1. /\ owners' = owners + 1 /\ owners' \in 1..MaxOwners /\ contender[p].at = "outside"
      /\ contender' \in [Contenders -> ContenderRecord]
      /\ contender'[p].at = "fence" /\ contender'[p].owner = owners' /\ contender'[p].todo = {}
      /\ \A q \in Contenders : q # p => contender'[q] = contender[q]
      /\ UNCHANGED <<foreignPort, ports, crowded, activeLock, publications, markers, notices,
                     owed, displaced, corrupt>>
    <2>1. owners' = owners + 1 /\ owners' \in 1..MaxOwners
        BY LedgerLockAssumption DEF EnterLock, LockInv, LockRecords
    <2>2. [Outside EXCEPT !.owner = owners', !.at = "fence"] \in ContenderRecord
        <3>1. Outside \in ContenderRecord
            BY LedgerLockAssumption DEF Outside, ContenderRecord, Places
        <3>2. owners' \in 0..MaxOwners /\ "fence" \in Places
            BY <2>1 DEF Places
        <3> QED BY <3>1, <3>2 DEF ContenderRecord
    <2> QED BY <2>1, <2>2 DEF EnterLock, Stands, Outside, LockInv, LockRecords, files, verdicts
<1>2. \A o \in 0..MaxOwners : o <= owners => o <= owners' /\ o # owners'
    BY <1>1 DEF LockInv, LockRecords
<1>3. /\ \A q \in Contenders : contender[q].owner \in 0..MaxOwners /\ contender[q].owner <= owners
      /\ Owners \subseteq 0..MaxOwners /\ contender[p].owner = 0 /\ owners' # 0
      /\ \A q \in Contenders : contender[q].todo \subseteq Owners
    BY <1>1 DEF LockInv, LockRecords, ContenderRecord, Named, Owners
<1>4. LockRecords'
    BY <1>1, <1>2, <1>3 DEF LockInv, LockRecords, Holding, LockRecords, Marked, LockPlaces
<1>5. Named'
    BY <1>1, <1>2, <1>3 DEF LockInv, Named, Holding, LockRecords, Marked, LockPlaces
<1>6. Occupied'
    BY <1>1, <1>2, <1>3 DEF LockInv, Occupied, Holding, Holding, LockRecords, Marked, LockPlaces
<1>7. Staging'
    BY <1>1, <1>2, <1>3 DEF LockInv, Staging, Holding, Owners, Holding, LockRecords, Marked, LockPlaces
<1>8. Marks'
    BY <1>1, <1>2, <1>3 DEF LockInv, Marks, Marked, Pending, Bygone, Living, Unmarked, Holding, LockRecords, Marked, LockPlaces
<1>9. Noted'
    <2>1. ASSUME NEW o \in Owners, Bygone(o)
          PROVE  Bygone(o)'
        BY <1>1, <1>2, <1>3, <2>1 DEF Bygone
    <2>2. ASSUME NEW q \in Contenders
          PROVE  contender'[q].todo = contender[q].todo \/ contender'[q].todo = {}
        BY <1>1, <2>2
    <2> QED BY <1>1, <1>3, <2>1, <2>2 DEF LockInv, Noted
<1>10. Owing'
    BY <1>1, <1>2, <1>3 DEF LockInv, Owing, Living, Holding, LockRecords, Marked, LockPlaces
<1>11. Retiring'
    <2>1. ASSUME NEW q \in Contenders, contender'[q].at = "retire"
          PROVE  q # p /\ contender'[q] = contender[q] /\ contender[q].at = "retire"
        BY <1>1, <2>1
    <2>2. ASSUME NEW o \in Owners, o <= owners, ~Living(o)
          PROVE  o <= owners' /\ ~Living(o)'
        BY <1>1, <1>2, <1>3, <2>2 DEF Living
    <2> QED BY <1>1, <2>1, <2>2 DEF LockInv, Retiring
<1>12. Fenced'
    <2>1. ASSUME NEW q \in Contenders, contender'[q].at \in LockPlaces \cup {"retire", "mismatch"}
          PROVE  contender'[q] = contender[q]
        BY <1>1, <2>1 DEF LockPlaces, Places
    <2>2. Marked' = Marked
        BY <1>1 DEF Marked
    <2> QED BY <1>1, <2>1, <2>2, SMTT(60) DEF LockInv, Fenced, Inside
<1>13. Held'
    BY <1>1, <1>2, <1>3 DEF LockInv, Held, Holding, Holding, LockRecords, Marked, LockPlaces
<1>14. DeathsRemembered'
    BY <1>1, <1>2, <1>3 DEF LockInv, DeathsRemembered, Pending, Marked, Holding, LockRecords, Marked, LockPlaces
<1> QED
    BY <1>4, <1>5, <1>6, <1>7, <1>8, <1>9, <1>10, <1>11, <1>12, <1>13, <1>14 DEF LockInv

LEMMA BindFenceStep ==
    ASSUME LockInv, NEW p \in Contenders, BindFence(p)
    PROVE  LockInv'
<1>1. Stays(p, "inspect") /\ contender[p].at = "fence" /\ contender[p].owner \in Owners
    BY Advancing DEF LockInv, LockRecords, ContenderRecord, Named, BindFence, Stands, Places, Owners
<1>2. PICK port \in Ports : ports[port] = 0 /\ ports' = [ports EXCEPT ![port] = contender[p].owner]
    BY DEF BindFence, Ports
<1>3. /\ crowded' = (crowded \/ \E k \in Ports : ports[k] # 0)
      /\ UNCHANGED <<foreignPort, owners, activeLock, publications, markers, notices, owed, displaced, corrupt>>
    BY DEF BindFence, files, verdicts
<1> USE <1>1, <1>2, <1>3 DEF Stays
<1>4. LockRecords'
    BY DEF LockInv, LockRecords, Holding, Owners
<1>5. Named'
    BY DEF LockInv, Named, Holding, Owners
<1>6. Occupied'
    BY DEF LockInv, Occupied, Holding, Holding, Owners
<1>7. Staging'
    BY DEF LockInv, Staging, Holding, Owners, Holding, Owners
<1>8. Marks'
    BY DEF LockInv, Marks, Marked, Pending, Bygone, Living, Unmarked, Holding, Owners
<1>9. Noted'
    BY DEF LockInv, Noted, Bygone, Holding, Owners
<1>10. Owing'
    BY DEF LockInv, Owing, Living, Holding, Owners
<1>11. Retiring'
    BY DEF LockInv, Retiring, Living, Holding, Owners
<1>12. Fenced'
    <2>1. ASSUME NEW q \in Contenders, Inside(q)'
          PROVE  /\ \E k \in Ports : ports'[k] = contender'[q].owner
                 /\ ~crowded' => q = p
        <3>1. CASE q = p
            BY <3>1 DEF LockInv, LockRecords
        <3>2. CASE q # p
            <4>1. PICK k \in Ports : ports[k] = contender[q].owner
                BY <2>1, <3>2 DEF LockInv, Fenced, Inside
            <4>2. ports[k] # 0 /\ k # port
                BY <2>1, <3>2, <4>1 DEF LockInv, Named, Inside, LockPlaces
            <4> QED BY <3>2, <4>1, <4>2 DEF LockInv, LockRecords
        <3> QED BY <3>1, <3>2
    <2>2. ~crowded' => ~crowded
        OBVIOUS
    <2>3. \A q \in Contenders :
            /\ contender'[q].at = "retire" => contender[q].at = "retire" /\ contender'[q].seen = contender[q].seen
            /\ contender'[q].at = "mismatch" => contender[q].at = "mismatch"
        OBVIOUS
    <2> QED BY <2>1, <2>2, <2>3 DEF LockInv, Fenced, Marked
<1>13. Held'
    BY DEF LockInv, Held, Holding, Holding, Owners
<1>14. DeathsRemembered'
    BY DEF LockInv, DeathsRemembered, Pending, Marked, Holding, Owners
<1> QED
    BY <1>4, <1>5, <1>6, <1>7, <1>8, <1>9, <1>10, <1>11, <1>12, <1>13, <1>14 DEF LockInv

LEMMA SettleDeadStageStep ==
    ASSUME LockInv, NEW p \in Contenders, SettleDeadStage(p)
    PROVE  LockInv'
<1>1. PICK o \in DeadStages :
        /\ publications' = [publications EXCEPT ![o] = "none"]
        /\ markers' = IF publications[o] = "partial" THEN markers
                      ELSE [markers EXCEPT ![o] = [disposition |-> "publication-aborted", inside |-> o]]
    BY DEF SettleDeadStage
<1>2. o \in Owners /\ publications[o] # "none" /\ ~Living(o) /\ o <= owners /\ o # activeLock
      /\ o \notin owed /\ o \notin Marked /\ Bygone(o)
    BY DEF DeadStages, Staged, LockInv, Staging, Occupied, Owing, Marks, Bygone, Living, Owners
<1>3. /\ publications'[o] = "none" /\ \A q \in Owners : q # o => publications'[q] = publications[q]
      /\ publications' \in [Owners -> {"none", "partial", "complete"}]
    BY <1>1, <1>2 DEF LockInv, LockRecords
<1>4. /\ markers'[o] = markers[o] \/ markers'[o] = [disposition |-> "publication-aborted", inside |-> o]
      /\ \A q \in Owners : q # o => markers'[q] = markers[q]
      /\ markers' \in [Owners -> [disposition : {"none", "recovery-pending", "publication-aborted", "released"},
                                  inside : 0..MaxOwners]]
    BY <1>1, <1>2 DEF LockInv, LockRecords, Owners
<1>5. UNCHANGED <<foreignPort, ports, owners, crowded, activeLock, notices, contender, owed, displaced, corrupt>>
    BY DEF SettleDeadStage, fence, verdicts
<1> HIDE <1>1
<1>6. LockRecords'
    BY <1>2, <1>3, <1>4, <1>5 DEF LockInv, LockRecords, LockRecords, ContenderRecord, Named, Living, Owners
<1>7. Named'
    BY <1>2, <1>3, <1>4, <1>5 DEF LockInv, Named, LockRecords, ContenderRecord, Named, Living, Owners
<1>8. Occupied'
    BY <1>2, <1>3, <1>4, <1>5 DEF LockInv, Occupied, Holding, LockRecords, ContenderRecord, Named, Living, Owners
<1>9. Staging'
    BY <1>2, <1>3, <1>4, <1>5 DEF LockInv, Staging, Holding, Owners, LockRecords, ContenderRecord, Named, Living, Owners
<1>10. Marks'
    BY <1>2, <1>3, <1>4, <1>5 DEF LockInv, Marks, Marked, Pending, Bygone, Living, Unmarked
<1>11. Noted'
    BY <1>2, <1>3, <1>4, <1>5 DEF LockInv, Noted, Bygone, LockRecords, ContenderRecord, Named, Living, Owners
<1>12. Owing'
    BY <1>2, <1>3, <1>4, <1>5 DEF LockInv, Owing, Living, LockRecords, ContenderRecord, Named, Living, Owners
<1>13. Retiring'
    BY <1>2, <1>3, <1>4, <1>5 DEF LockInv, Retiring, Living, LockRecords, ContenderRecord, Named, Living, Owners
<1>14. Fenced'
    BY <1>2, <1>3, <1>4, <1>5 DEF LockInv, Fenced, Inside, LockPlaces, Places, Marked, Unmarked, LockRecords, ContenderRecord, Named, Living, Owners
<1>15. Held'
    BY <1>2, <1>3, <1>4, <1>5 DEF LockInv, Held, Holding, LockRecords, ContenderRecord, Named, Living, Owners
<1>16. DeathsRemembered'
    BY <1>2, <1>3, <1>4, <1>5 DEF LockInv, DeathsRemembered, Pending, Marked, LockRecords, ContenderRecord, Named, Living, Owners
<1> QED
    BY <1>6, <1>7, <1>8, <1>9, <1>10, <1>11, <1>12, <1>13, <1>14, <1>15, <1>16 DEF LockInv

LEMMA RetireDeadLockStep ==
    ASSUME LockInv, NEW p \in Contenders, RetireDeadLock(p)
    PROVE  LockInv'
<1> DEFINE s == contender[p].seen
<1>1. /\ Inside(p) /\ ~Holding(p) /\ ~Stands(p, "outside") /\ contender[p].at = "retire"
      /\ s \in Owners /\ s <= owners /\ ~Living(s) /\ publications[s] = "none"
      /\ ~crowded => activeLock = s
    BY DEF RetireDeadLock, Stands, Inside, LockPlaces, Places, Holding, LockInv, Retiring, Fenced
<1>2. CASE activeLock = 0
    <2>1. Stays(p, "inspect") /\ UNCHANGED <<files, fence, verdicts>>
        BY <1>2, Advancing DEF RetireDeadLock, LockInv, Places
    <2> QED BY <1>1, <2>1, MovesInside DEF Holding, LockPlaces, Places, files, fence, verdicts
<1>3. CASE activeLock # 0 /\ markers[s] # Unmarked
    BY <1>1, <1>3, Departing DEF RetireDeadLock, verdicts
<1>4. CASE activeLock # 0 /\ markers[s] = Unmarked
    <2> DEFINE to == IF activeLock = s THEN "inspect" ELSE "mismatch"
    <2>1. /\ markers' = [markers EXCEPT ![s] = [disposition |-> "recovery-pending", inside |-> activeLock]]
          /\ activeLock' = 0 /\ displaced' = (displaced \/ Living(activeLock)) /\ Advance(p, to)
          /\ UNCHANGED <<foreignPort, ports, owners, crowded, publications, notices, owed, corrupt>>
        BY <1>4 DEF RetireDeadLock, fence
    <2>2. Stays(p, to) /\ to \in {"inspect", "mismatch"} /\ (activeLock = s => to = "inspect")
        BY <2>1, Advancing DEF LockInv, Places
    <2>3. activeLock \in Owners
        BY <1>4 DEF LockInv, LockRecords, Owners
    <2>4. /\ markers'[s] = [disposition |-> "recovery-pending", inside |-> activeLock]
          /\ markers'[s].disposition = "recovery-pending" /\ markers'[s].inside = activeLock
          /\ markers'[s] # Unmarked
          /\ \A q \in Owners : q # s => markers'[q] = markers[q]
          /\ markers' \in [Owners -> [disposition : {"none", "recovery-pending", "publication-aborted", "released"},
                                      inside : 0..MaxOwners]]
        <3>1. [disposition |-> "recovery-pending", inside |-> activeLock] \in
                 [disposition : {"none", "recovery-pending", "publication-aborted", "released"},
                  inside : 0..MaxOwners]
            BY DEF LockInv, LockRecords
        <3> QED BY <1>1, <2>1, <3>1 DEF LockInv, LockRecords, Unmarked
    <2>5. /\ markers[s] = Unmarked /\ s \notin Marked /\ s # 0
          /\ (activeLock = s => ~Living(activeLock))
          /\ \A q \in Contenders : contender[q].owner # s
        BY <1>1, <1>4 DEF Marked, Living, Owners
    <2> HIDE DEF s, to
    <2> HIDE <2>1
    <2>6. /\ activeLock' = 0 /\ (~displaced' => ~displaced /\ ~Living(activeLock))
          /\ UNCHANGED <<foreignPort, ports, owners, crowded, publications, notices, owed, corrupt>>
          /\ (displaced' => displaced \/ Living(activeLock))
        BY <2>1
    <2>7. \A o \in Owners : Bygone(o) => Bygone(o)'
        BY <1>1, <2>2, <2>6, Ranges DEF Bygone, Stays
    <2>8. \A o : o = s => Bygone(o)'
        BY <1>1, <2>2, <2>5, <2>6, Ranges DEF Bygone, Stays
    <2>9. \A q \in Contenders : Holding(q)' => q # p /\ Holding(q)
        BY <2>2 DEF Holding, Stays
    <2>10. \A o : Living(o)' <=> Living(o)
        BY <2>2 DEF Living, Stays
    <2>11. Marked' = Marked \cup {s} /\ Pending' = Pending \cup {s}
        BY <1>1, <2>4, <2>5 DEF Marked, Pending
    <2>12. LockRecords'
        BY <2>2, <2>4, <2>6, Ranges DEF LockInv, LockRecords, Stays
    <2>13. Named'
        BY <1>1, <2>2, <2>6, Ranges DEF LockInv, Named, Stays
    <2>14. Occupied'
        BY <2>6, Ranges DEF Occupied
    <2>15. Staging'
        BY <2>6, <2>9, <2>2 DEF LockInv, Staging, Stays
    <2>16. Marks'
        <3>1. \A o \in Owners : markers'[o].disposition = "none" <=> markers'[o] = Unmarked
            BY <2>4 DEF LockInv, Marks
        <3>2. \A o \in Marked' : Bygone(o)' /\ publications'[o] = "none"
            BY <1>1, <2>6, <2>7, <2>8, <2>11 DEF LockInv, Marks, Marked
        <3>3. \A o \in Pending' : ~Living(o)'
            BY <1>1, <2>10, <2>11 DEF LockInv, Marks
        <3>4. \A o \in Marked' \ Pending' : o \notin owed'
            BY <2>6, <2>11 DEF LockInv, Marks
        <3> QED BY <3>1, <3>2, <3>3, <3>4 DEF Marks
    <2>17. Noted'
        BY <2>2, <2>6, <2>7, Ranges DEF LockInv, Noted, Stays
    <2>18. Owing'
        BY <2>6, <2>10, Ranges DEF LockInv, Owing
    <2>19. Retiring'
        BY <2>2, <2>6, <2>10, Ranges DEF LockInv, Retiring, Stays
    <2>20. Fenced'
        <3>1. \A q \in Contenders : Inside(q)' => Inside(q)
            BY <1>1, <2>2 DEF Inside, Stays
        <3>2. \A q \in Contenders : contender'[q].at \in {"retire", "mismatch"} =>
                (q = p /\ activeLock # s) \/ (q # p /\ contender'[q] = contender[q] /\ Inside(q))
            BY <2>2 DEF Stays, Inside, LockPlaces, Places
        <3>3. \A q \in Contenders : contender'[q].owner = contender[q].owner
            BY <2>2 DEF Stays
        <3>4. ~crowded => \A q \in Contenders : Inside(q) => q = p
            BY <1>1 DEF LockInv, Fenced
        <3>5. ~crowded => ~displaced' /\ ~corrupt'
            BY <1>1, <2>5, <2>6 DEF LockInv, Fenced
        <3>6. ~crowded => \A q \in Contenders : contender'[q].at \notin {"retire", "mismatch"}
            BY <1>1, <3>2, <3>4
        <3>7. ~crowded => \A o \in Marked' : markers'[o].inside = o
            BY <1>1, <2>4, <2>11 DEF LockInv, Fenced, Marked
        <3> QED BY <2>6, <3>1, <3>3, <3>4, <3>5, <3>6, <3>7 DEF LockInv, Fenced
    <2>21. Held'
        BY <2>6, <2>9 DEF LockInv, Held, Holding, Living
    <2>22. DeathsRemembered'
        BY <1>1, <2>4, <2>5, <2>6, <2>11 DEF LockInv, DeathsRemembered, Marked, Pending
    <2> QED
        BY <2>12, <2>13, <2>14, <2>15, <2>16, <2>17, <2>18, <2>19, <2>20, <2>21, <2>22 DEF LockInv
<1> QED
    BY <1>2, <1>3, <1>4

LEMMA CreateStageStep ==
    ASSUME LockInv, NEW p \in Contenders, CreateStage(p)
    PROVE  LockInv'
<1> DEFINE o == contender[p].owner
           to == IF Stands(p, "mkdir") THEN "write" ELSE "elect"
           put == IF Stands(p, "mkdir") THEN "partial" ELSE "complete"
<1>1. /\ contender[p].at \in {"mkdir", "write"} /\ to \in {"write", "elect"} /\ put \in {"partial", "complete"}
      /\ publications' = [publications EXCEPT ![o] = put] /\ Advance(p, to)
      /\ UNCHANGED <<activeLock, markers, notices, foreignPort, ports, owners, crowded, owed, displaced, corrupt>>
    BY DEF CreateStage, Stands, fence, verdicts
<1>2. Stays(p, to)
    BY <1>1, Advancing DEF LockInv, Places
<1>3. o \in Owners /\ o <= owners /\ Living(o) /\ o # activeLock /\ ~Bygone(o) /\ Inside(p)
      /\ \A q \in Contenders : contender[q].owner = o => q = p
    BY <1>1 DEF LockInv, LockRecords, ContenderRecord, Named, Occupied, Holding, Living, Owners, Bygone, Inside,
                LockPlaces, Places
<1>4. /\ publications'[o] = put /\ \A q \in Owners : q # o => publications'[q] = publications[q]
      /\ publications' \in [Owners -> {"none", "partial", "complete"}]
    BY <1>1, <1>3 DEF LockInv, LockRecords
<1>5. \A q \in Owners : Bygone(q) => q # o /\ Bygone(q)'
    BY <1>1, <1>2, <1>3 DEF Bygone, Stays
<1> HIDE DEF to, put
<1>6. /\ UNCHANGED <<activeLock, markers, notices, foreignPort, ports, owners, crowded, owed, displaced, corrupt>>
      /\ Marked' = Marked /\ Pending' = Pending
    BY <1>1 DEF Marked, Pending
<1>7. /\ \A q : Living(q)' <=> Living(q)
      /\ \A q \in Contenders : Holding(q)' <=> Holding(q)
      /\ \A q \in Contenders : Inside(q)' => Inside(q)
      /\ \A q \in Contenders : contender'[q].owner = contender[q].owner
      /\ \A q \in Contenders : contender'[q].at \in {"retire", "mismatch"} => contender'[q] = contender[q]
    BY <1>1, <1>2, <1>3 DEF Living, Holding, Stays, Inside
<1>8. \A q \in Contenders : Holding(q) => q # p /\ contender[q].owner # o
    BY <1>1, <1>3 DEF Holding
<1>9. LockRecords'
    BY <1>2, <1>4, <1>6 DEF LockInv, LockRecords, Stays
<1>10. Named'
    BY <1>1, <1>2, <1>3, <1>6, <1>7, Ranges DEF LockInv, Named, Stays
<1>11. Occupied'
    BY <1>3, <1>4, <1>6, <1>7, Ranges DEF LockInv, Occupied
<1>12. Staging'
    BY <1>3, <1>4, <1>6, <1>7, <1>8, Ranges DEF LockInv, Staging, Holding
<1>13. Marks'
    BY <1>4, <1>5, <1>6, <1>7 DEF LockInv, Marks, Marked
<1>14. Noted'
    BY <1>2, <1>5, <1>6, Ranges DEF LockInv, Noted, Stays
<1>15. Owing'
    BY <1>3, <1>4, <1>6, <1>7, Ranges DEF LockInv, Owing
<1>16. Retiring'
    BY <1>3, <1>4, <1>6, <1>7 DEF LockInv, Retiring
<1>17. Fenced'
    BY <1>6, <1>7 DEF LockInv, Fenced
<1>18. Held'
    BY <1>6, <1>7 DEF LockInv, Held
<1>19. DeathsRemembered'
    BY <1>6 DEF LockInv, DeathsRemembered
<1> QED
    BY <1>9, <1>10, <1>11, <1>12, <1>13, <1>14, <1>15, <1>16, <1>17, <1>18, <1>19 DEF LockInv

LEMMA PublishLockStep ==
    ASSUME LockInv, NEW p \in Contenders, PublishLock(p)
    PROVE  LockInv'
<1>1. Inside(p) /\ contender[p].at = "publish"
    BY DEF PublishLock, Stands, Inside, LockPlaces, Places
<1>2. CASE activeLock # 0
    <2>1. Stays(p, "inspect")
        BY <1>2, Advancing DEF PublishLock, LockInv, Places
    <2> QED BY <1>1, <1>2, <2>1, MovesInside DEF PublishLock, Holding, LockPlaces, Places, fence, verdicts
<1>3. CASE activeLock = 0
    <2> DEFINE o == contender[p].owner
    <2>1. /\ activeLock' = o /\ publications' = [publications EXCEPT ![o] = "none"]
          /\ Advance(p, "held")
          /\ UNCHANGED <<markers, notices, foreignPort, ports, owners, crowded, owed, displaced, corrupt>>
        BY <1>3 DEF PublishLock, fence, verdicts
    <2>2. Stays(p, "held")
        BY <2>1, Advancing DEF LockInv, Places
    <2>3. o \in Owners /\ o <= owners /\ Living(o) /\ ~Bygone(o)
          /\ \A q \in Contenders : contender[q].owner = o => q = p
        BY <1>1 DEF LockInv, LockRecords, ContenderRecord, Named, Holding, Living, Owners, Bygone
    <2>4. /\ publications'[o] = "none" /\ \A q \in Owners : q # o => publications'[q] = publications[q]
          /\ publications' \in [Owners -> {"none", "partial", "complete"}]
        BY <2>1, <2>3 DEF LockInv, LockRecords
    <2>5. \A q \in Contenders : Holding(q) => displaced
        BY <1>3, Ranges DEF LockInv, Held, Holding
    <2>6. \A q \in Owners : Bygone(q) => q # o /\ Bygone(q)'
        BY <2>1, <2>2, <2>3 DEF Bygone, Stays
    <2>7. /\ UNCHANGED <<markers, notices, foreignPort, ports, owners, crowded, owed, displaced, corrupt>>
          /\ Marked' = Marked /\ Pending' = Pending /\ activeLock' = o
        BY <2>1 DEF Marked, Pending
    <2>8. /\ \A q : Living(q)' <=> Living(q)
          /\ \A q \in Contenders : Holding(q)' <=> Holding(q) \/ q = p
          /\ \A q \in Contenders : Inside(q)' <=> Inside(q)
          /\ \A q \in Contenders : contender'[q].owner = contender[q].owner
          /\ \A q \in Contenders : contender'[q].at \in {"retire", "mismatch"} => q # p /\ contender'[q] = contender[q]
        BY <1>1, <2>2, <2>3 DEF Living, Holding, Stays, Inside, LockPlaces, Places
    <2>9. LockRecords'
        BY <2>2, <2>3, <2>4, <2>7, Ranges DEF LockInv, LockRecords, Stays
    <2>10. Named'
        BY <1>1, <2>2, <2>3, <2>7, <2>8, Ranges DEF LockInv, Named, Stays
    <2>11. Occupied'
        BY <2>3, <2>4, <2>7, <2>8 DEF Occupied
    <2>12. Staging'
        BY <2>3, <2>4, <2>7, <2>8, Ranges DEF LockInv, Staging, Holding
    <2>13. Marks'
        BY <2>4, <2>6, <2>7, <2>8 DEF LockInv, Marks, Marked
    <2>14. Noted'
        BY <2>2, <2>6, <2>7, Ranges DEF LockInv, Noted, Stays
    <2>15. Owing'
        BY <2>3, <2>4, <2>7, <2>8, Ranges DEF LockInv, Owing
    <2>16. Retiring'
        BY <2>3, <2>4, <2>7, <2>8 DEF LockInv, Retiring
    <2>17. Fenced'
        <3>1. ~crowded => \A q \in Contenders : Inside(q) => q = p
            BY <1>1 DEF LockInv, Fenced
        <3>2. \A q \in Contenders : contender'[q].at \in {"retire", "mismatch"} => Inside(q)
            BY <2>8 DEF Inside, LockPlaces, Places
        <3> QED BY <2>7, <2>8, <3>1, <3>2 DEF LockInv, Fenced
    <2>18. Held'
        BY <2>5, <2>7, <2>8 DEF Held
    <2>19. DeathsRemembered'
        BY <1>3, <2>7, Ranges DEF LockInv, DeathsRemembered
    <2> QED
        BY <2>9, <2>10, <2>11, <2>12, <2>13, <2>14, <2>15, <2>16, <2>17, <2>18, <2>19 DEF LockInv
<1> QED
    BY <1>2, <1>3

LEMMA ServiceMarkersStep ==
    ASSUME LockInv, NEW p \in Contenders, ServiceMarkers(p)
    PROVE  LockInv'
<1>1. /\ contender[p].at = "held" /\ \A n \in Marked : markers[n].inside = n
      /\ UNCHANGED <<activeLock, publications, foreignPort, ports, owners, crowded, owed, displaced, corrupt>>
    BY DEF ServiceMarkers, Stands, fence, verdicts
<1>2. PICK o \in Owners :
        /\ Bygone(o) /\ o \notin owed
        /\ FinishAcknowledged(p, o) \/ Acknowledge(p, o)
    <2>1. CASE \E o \in Owners : FinishAcknowledged(p, o)
        <3>1. PICK o \in Owners : FinishAcknowledged(p, o)
            BY <2>1
        <3> QED BY <3>1 DEF FinishAcknowledged, With, LockInv, Noted
    <2>2. CASE \E o \in contender[p].todo : Acknowledge(p, o)
        <3>1. PICK o \in contender[p].todo : Acknowledge(p, o)
            BY <2>2
        <3>2. o \in Owners
            BY <3>1, Ranges
        <3> QED BY <3>1, <3>2 DEF LockInv, Noted
    <2>3. CASE \E o \in With("staged") \cup (Marked \ Pending) : Acknowledge(p, o)
        <3>1. PICK o \in With("staged") \cup (Marked \ Pending) : Acknowledge(p, o)
            BY <2>3
        <3> QED BY <3>1 DEF With, Marked, LockInv, Noted, Marks
    <2> QED BY <2>1, <2>2, <2>3 DEF ServiceMarkers
<1>3. /\ notices' \in [Owners -> {"none", "staged", "acked"}]
      /\ \A q \in Owners : q # o => notices'[q] = notices[q]
    BY <1>2 DEF FinishAcknowledged, Acknowledge, Retouch, LockInv, LockRecords
<1>4. /\ markers' \in [Owners -> [disposition : {"none", "recovery-pending", "publication-aborted", "released"},
                                  inside : 0..MaxOwners]]
      /\ \A q \in Owners : q # o => markers'[q] = markers[q]
      /\ markers'[o] = markers[o] \/ markers'[o] = Unmarked
    <2>1. Unmarked \in [disposition : {"none", "recovery-pending", "publication-aborted", "released"},
                        inside : 0..MaxOwners]
        BY Ranges DEF Unmarked
    <2> QED BY <1>2, <2>1 DEF FinishAcknowledged, Acknowledge, LockInv, LockRecords
<1>5. Stays(p, "held") /\ \A q \in Contenders : contender'[q].seen = contender[q].seen
    <2>1. CASE contender' = contender
        BY <1>1, <2>1 DEF Stays, LockInv, LockRecords
    <2>2. CASE contender' = [contender EXCEPT ![p].todo = @ \ {o}]
        BY <1>1, <2>2 DEF Stays, LockInv, LockRecords, ContenderRecord
    <2> QED
        <3>1. contender \in [Contenders -> ContenderRecord]
            BY DEF LockInv, LockRecords
        <3>2. [contender EXCEPT ![p].todo = @] = contender
            BY <3>1 DEF ContenderRecord
        <3> QED BY <1>2, <2>1, <2>2, <3>2 DEF FinishAcknowledged, Acknowledge
<1> HIDE <1>2
<1>6. Bygone(o) /\ o \notin owed
    BY <1>2
<1>7. /\ Marked' \subseteq Marked /\ Marked \ {o} \subseteq Marked'
      /\ Pending' \subseteq Pending /\ Pending \ {o} \subseteq Pending'
      /\ \A n \in Marked' : markers'[n] = markers[n]
      /\ Marked' \ Pending' \subseteq Marked \ Pending
    BY <1>4 DEF Marked, Pending
<1>8. /\ \A q : Living(q)' <=> Living(q)
      /\ \A q \in Contenders : Holding(q)' <=> Holding(q)
      /\ \A q \in Contenders : Inside(q)' <=> Inside(q)
      /\ \A q \in Contenders : contender'[q].owner = contender[q].owner /\ contender'[q].at = contender[q].at
      /\ \A q \in Contenders : contender'[q].todo \subseteq contender[q].todo
    BY <1>1, <1>5 DEF Living, Holding, Stays, Inside
<1>9. \A q \in Owners : Bygone(q) => Bygone(q)'
    BY <1>1, <1>8 DEF Bygone
<1>10. LockRecords'
    BY <1>1, <1>3, <1>4, <1>5 DEF LockInv, LockRecords, Stays
<1>11. Named'
    BY <1>1, <1>8 DEF LockInv, Named
<1>12. Occupied'
    BY <1>1, <1>8 DEF LockInv, Occupied
<1>13. Staging'
    BY <1>1, <1>8 DEF LockInv, Staging
<1>14. Marks'
    <2>1. \A q \in Owners : markers'[q].disposition = "none" <=> markers'[q] = Unmarked
        BY <1>4 DEF LockInv, Marks, Unmarked
    <2> QED BY <1>1, <1>7, <1>8, <1>9, <2>1 DEF LockInv, Marks, Marked
<1>15. Noted'
    <2>1. \A q \in Owners : notices'[q] # "none" => Bygone(q)' /\ q \notin owed'
        BY <1>1, <1>3, <1>6, <1>9 DEF LockInv, Noted
    <2>2. \A q \in Contenders : \A n \in contender'[q].todo : Bygone(n)' /\ n \notin owed'
        BY <1>1, <1>8, <1>9, Ranges DEF LockInv, Noted
    <2> QED BY <2>1, <2>2 DEF Noted
<1>16. Owing'
    BY <1>1, <1>8 DEF LockInv, Owing
<1>17. Retiring'
    BY <1>1, <1>5, <1>8 DEF LockInv, Retiring
<1>18. Fenced'
    <2>1. \A n \in Marked' : markers'[n].inside = n
        BY <1>1, <1>7
    <2> QED BY <1>1, <1>5, <1>8, <2>1 DEF LockInv, Fenced
<1>19. Held'
    BY <1>1, <1>8 DEF LockInv, Held
<1>20. DeathsRemembered'
    <2>1. ASSUME ~displaced, NEW x \in owed
          PROVE  activeLock = x \/ \E n \in Pending' : markers'[n].inside = x
        <3>1. CASE activeLock = x
            BY <3>1
        <3>2. CASE \E n \in Pending : markers[n].inside = x
            <4>1. x \in Pending /\ x # o /\ markers[x].inside = x
                BY <1>1, <1>6, <3>2 DEF Pending
            <4> QED BY <1>4, <1>7, <4>1, Ranges
        <3> QED BY <2>1, <3>1, <3>2 DEF LockInv, DeathsRemembered
    <2> QED BY <1>1, <2>1 DEF DeathsRemembered
<1> QED
    BY <1>10, <1>11, <1>12, <1>13, <1>14, <1>15, <1>16, <1>17, <1>18, <1>19, <1>20 DEF LockInv

LEMMA RecoverPendingMarkersStep ==
    ASSUME LockInv, NEW p \in Contenders, RecoverPendingMarkers(p)
    PROVE  LockInv'
<1>1. /\ contender[p].at = "held" /\ Pending = Marked /\ With("staged") \cup With("acked") = {}
      /\ \A n \in Marked : markers[n].inside = n
      /\ contender' = [contender EXCEPT ![p].todo = Pending] /\ owed' = owed \ Pending
      /\ UNCHANGED <<activeLock, publications, markers, notices, foreignPort, ports, owners, crowded, displaced,
                     corrupt>>
    BY DEF RecoverPendingMarkers, Stands, files, fence
<1>2. /\ Marked' = Marked /\ Pending' = Pending /\ Pending \subseteq Owners
      /\ \A n \in Owners : notices[n] = "none"
    BY <1>1 DEF Marked, Pending, With, LockInv, LockRecords
<1>3. /\ contender' \in [Contenders -> ContenderRecord] /\ contender'[p].todo = Pending
      /\ \A q \in Contenders : q # p => contender'[q] = contender[q]
      /\ \A q \in Contenders : contender'[q].owner = contender[q].owner /\ contender'[q].at = contender[q].at
                               /\ contender'[q].seen = contender[q].seen
    BY <1>1, <1>2 DEF LockInv, LockRecords, ContenderRecord
<1>4. /\ \A q : Living(q)' <=> Living(q)
      /\ \A q \in Contenders : Holding(q)' <=> Holding(q)
      /\ \A q \in Contenders : Inside(q)' <=> Inside(q)
    BY <1>3 DEF Living, Holding, Inside
<1>5. \A q \in Owners : Bygone(q) => Bygone(q)'
    BY <1>1, <1>3 DEF Bygone
<1>6. LockRecords'
    BY <1>1, <1>3 DEF LockInv, LockRecords
<1>7. Named'
    BY <1>1, <1>3 DEF LockInv, Named
<1>8. Occupied'
    BY <1>1, <1>3, <1>4 DEF LockInv, Occupied
<1>9. Staging'
    BY <1>1, <1>3, <1>4 DEF LockInv, Staging
<1>10. Marks'
    BY <1>1, <1>2, <1>4, <1>5 DEF LockInv, Marks, Marked
<1>11. Noted'
    <2>1. ASSUME NEW q \in Contenders, NEW n \in contender'[q].todo
          PROVE  Bygone(n)' /\ n \notin owed'
        <3>1. CASE n \in Pending
            BY <1>1, <1>2, <1>5, <3>1 DEF LockInv, Marks, Marked
        <3>2. CASE n \in contender[q].todo
            BY <1>1, <1>5, <3>2, Ranges DEF LockInv, Noted
        <3> QED BY <1>3, <2>1, <3>1, <3>2
    <2> QED BY <1>1, <1>2, <2>1 DEF Noted
<1>12. Owing'
    BY <1>1, <1>4 DEF LockInv, Owing
<1>13. Retiring'
    BY <1>1, <1>3, <1>4 DEF LockInv, Retiring
<1>14. Fenced'
    BY <1>1, <1>2, <1>3, <1>4 DEF LockInv, Fenced
<1>15. Held'
    BY <1>1, <1>3, <1>4 DEF LockInv, Held
<1>16. DeathsRemembered'
    BY <1>1, <1>2 DEF LockInv, DeathsRemembered
<1> QED
    BY <1>6, <1>7, <1>8, <1>9, <1>10, <1>11, <1>12, <1>13, <1>14, <1>15, <1>16 DEF LockInv

LEMMA UnlockStep ==
    ASSUME LockInv, NEW p \in Contenders, Unlock(p)
    PROVE  LockInv'
<1> DEFINE own == contender[p].owner
<1>1. Holding(p) /\ Inside(p) /\ contender[p].at = "unlock" /\ own \in Owners /\ own <= owners /\ ~Stands(p, "outside")
    BY Ranges DEF Unlock, Stands, Holding, Inside, LockPlaces, Places
<1>2. CASE activeLock = 0
    BY <1>1, <1>2, Departing DEF Unlock, Owners
<1>3. CASE activeLock # 0
    <2>1. /\ activeLock' = 0 /\ displaced' = (displaced \/ (activeLock # own /\ Living(activeLock)))
          /\ markers' = [markers EXCEPT ![own] = [disposition |-> "released", inside |-> activeLock]]
          /\ publications' = [publications EXCEPT ![own] = "none"]
          /\ ports' = [k \in Ports |-> IF ports[k] = own THEN 0 ELSE ports[k]]
          /\ Advance(p, "departed")
          /\ UNCHANGED <<foreignPort, owners, crowded, notices, owed, corrupt>>
        <3>1. /\ activeLock' = 0 /\ displaced' = (displaced \/ (activeLock # own /\ Living(activeLock)))
              /\ markers' = [markers EXCEPT ![own] = [disposition |-> "released", inside |-> activeLock]]
            BY <1>3 DEF Unlock
        <3>2. Depart(p) /\ UNCHANGED <<notices, owed, corrupt>>
            BY DEF Unlock
        <3> QED BY <3>1, <3>2 DEF Depart
    <2>2. Stays(p, "departed") /\ \A q \in Contenders : contender'[q].seen = contender[q].seen
        BY <2>1, Advancing DEF LockInv, Places, Stays
    <2>3. publications' = publications /\ publications[own] = "none"
        BY <1>1, <2>1 DEF LockInv, LockRecords, Staging
    <2>4. own \notin owed /\ own \notin Marked /\ ~Bygone(own)
        BY <1>1 DEF LockInv, Owing, Marks, Bygone, Living
    <2>5. /\ markers' \in [Owners -> [disposition : {"none", "recovery-pending", "publication-aborted", "released"},
                                      inside : 0..MaxOwners]]
          /\ markers'[own] = [disposition |-> "released", inside |-> activeLock]
          /\ markers'[own].disposition = "released" /\ markers'[own].inside = activeLock
          /\ markers'[own] # Unmarked
          /\ \A q \in Owners : q # own => markers'[q] = markers[q]
        <3>1. [disposition |-> "released", inside |-> activeLock] \in
                 [disposition : {"none", "recovery-pending", "publication-aborted", "released"},
                  inside : 0..MaxOwners]
            BY Ranges
        <3> QED BY <1>1, <2>1, <3>1 DEF LockInv, LockRecords, Unmarked
    <2>6. \A q \in Contenders : q # p => contender[q].owner # own
        BY <1>1, Ranges DEF LockInv, Named, Owners
    <2>7. ~displaced => activeLock = own
        BY <1>1 DEF LockInv, Held
    <2>8. ports' \in [Ports -> 0..MaxOwners] /\ \A k \in Ports : ports[k] # own => ports'[k] = ports[k]
        BY <2>1, Ranges DEF LockInv, LockRecords
    <2>9. /\ activeLock' = 0 /\ (~displaced' => ~displaced) /\ (displaced' => displaced \/ activeLock # own)
          /\ UNCHANGED <<foreignPort, owners, crowded, notices, owed, corrupt>>
        BY <2>1
    <2> HIDE <2>1
    <2>10. Marked' = Marked \cup {own} /\ Pending' = Pending /\ \A n \in Pending : markers'[n] = markers[n]
        BY <1>1, <2>4, <2>5 DEF Marked, Pending
    <2>11. /\ \A o : Living(o)' <=> Living(o)
           /\ \A q \in Contenders : Holding(q)' => q # p /\ Holding(q)
           /\ \A q \in Contenders : Inside(q)' => q # p /\ Inside(q)
           /\ \A q \in Contenders : contender'[q].owner = contender[q].owner
           /\ \A q \in Contenders : contender'[q].at \in {"retire", "mismatch"} => contender'[q].at = contender[q].at
           /\ \A q \in Contenders : contender'[q].todo \subseteq contender[q].todo
        BY <2>2 DEF Living, Holding, Stays, Inside, LockPlaces, Places
    <2>12. \A o \in Owners : Bygone(o) => Bygone(o)'
        BY <1>1, <2>2, <2>9, Ranges DEF Bygone, Stays
    <2>13. \A o : o = own => Bygone(o)'
        BY <1>1, <2>2, <2>6, <2>9, Ranges DEF Bygone, Stays
    <2> HIDE DEF own
    <2>14. LockRecords'
        BY <2>2, <2>3, <2>5, <2>8, <2>9, Ranges DEF LockInv, LockRecords, Stays
    <2>15. Named'
        BY <1>1, <2>2, <2>9, Ranges DEF LockInv, Named, Stays
    <2>16. Occupied'
        BY <2>9, Ranges DEF Occupied
    <2>17. Staging'
        BY <2>3, <2>9, <2>11 DEF LockInv, Staging
    <2>18. Marks'
        <3>1. \A o \in Owners : markers'[o].disposition = "none" <=> markers'[o] = Unmarked
            BY <2>5 DEF LockInv, Marks
        <3>2. \A o \in Marked' : Bygone(o)' /\ publications'[o] = "none"
            BY <2>3, <2>10, <2>12, <2>13 DEF LockInv, Marks, Marked
        <3>3. \A o \in Pending' : ~Living(o)'
            BY <2>10, <2>11 DEF LockInv, Marks
        <3>4. \A o \in Marked' \ Pending' : o \notin owed'
            BY <2>4, <2>9, <2>10 DEF LockInv, Marks
        <3> QED BY <3>1, <3>2, <3>3, <3>4 DEF Marks
    <2>19. Noted'
        BY <2>9, <2>11, <2>12, Ranges DEF LockInv, Noted
    <2>20. Owing'
        BY <2>3, <2>9, <2>11 DEF LockInv, Owing
    <2>21. Retiring'
        BY <2>2, <2>3, <2>9, <2>11 DEF LockInv, Retiring
    <2>22. Fenced'
        <3>1. ASSUME NEW q \in Contenders, Inside(q)'
              PROVE  \E k \in Ports : ports'[k] = contender'[q].owner
            <4>1. PICK k \in Ports : ports[k] = contender[q].owner
                BY <2>11, <3>1 DEF LockInv, Fenced
            <4> QED BY <2>6, <2>8, <2>11, <3>1, <4>1 DEF own
        <3>2. ~crowded => ~displaced /\ ~corrupt /\ \A q \in Contenders : ~Inside(q)'
            BY <1>1, <2>11 DEF LockInv, Fenced
        <3>3. \A q \in Contenders : contender'[q].at \in {"retire", "mismatch"} => Inside(q)'
            BY DEF Inside, LockPlaces, Places
        <3>4. ~crowded => \A o \in Marked' : markers'[o].inside = o
            BY <2>5, <2>7, <2>10, <3>2 DEF LockInv, Fenced, Marked
        <3> QED BY <2>7, <2>9, <3>1, <3>2, <3>3, <3>4 DEF Fenced
    <2>23. Held'
        BY <2>6, <2>7, <2>9, <2>11 DEF LockInv, Held, own
    <2>24. DeathsRemembered'
        BY <2>4, <2>7, <2>9, <2>10 DEF LockInv, DeathsRemembered
    <2> QED
        BY <2>14, <2>15, <2>16, <2>17, <2>18, <2>19, <2>20, <2>21, <2>22, <2>23, <2>24 DEF LockInv
<1> QED
    BY <1>2, <1>3

LEMMA ContenderDiesStep ==
    ASSUME LockInv, NEW p \in Contenders, ContenderDies(p)
    PROVE  LockInv'
<1> DEFINE own == contender[p].owner
<1>1. own \in Owners /\ own <= owners /\ own # 0 /\ \A q \in Contenders : q # p => contender[q].owner # own
    BY Ranges DEF ContenderDies, Stands, LockInv, Named, Owners
<1>2. /\ UNCHANGED <<foreignPort, owners, crowded, displaced, corrupt, activeLock, publications, markers, notices>>
      /\ owed' = (IF activeLock = own THEN owed \cup {activeLock} ELSE owed)
    BY DEF ContenderDies, files
<1>3. ports' \in [Ports -> 0..MaxOwners] /\ \A k \in Ports : ports[k] # own => ports'[k] = ports[k]
    BY Ranges DEF ContenderDies, LockInv, LockRecords
<1>4. /\ contender' \in [Contenders -> ContenderRecord] /\ contender'[p] = Outside
      /\ \A q \in Contenders : q # p => contender'[q] = contender[q]
    <2>1. Outside \in ContenderRecord
        BY Ranges DEF Outside, ContenderRecord, Places
    <2> QED BY <2>1 DEF ContenderDies, LockInv, LockRecords
<1>5. Outside.owner = 0 /\ Outside.at = "outside" /\ Outside.todo = {}
    BY DEF Outside
<1> HIDE DEF own
<1>6. Marked' = Marked /\ Pending' = Pending /\ Pending \subseteq Marked /\ Marked \subseteq Owners
    BY <1>2 DEF Marked, Pending
<1>7. /\ \A o \in Owners : ~Living(o) => ~Living(o)'
      /\ \A o \in Owners : o = own => ~Living(o)'
      /\ \A q \in Contenders : Holding(q)' => q # p /\ Holding(q)
      /\ \A q \in Contenders : Inside(q)' => q # p /\ Inside(q)
      /\ \A q \in Contenders : contender'[q].todo \subseteq contender[q].todo
    <2>1. /\ ~Holding(p)' /\ ~Inside(p)' /\ contender'[p].todo = {} /\ contender'[p].owner = 0
          /\ \A q \in Contenders : q # p => (Holding(q)' <=> Holding(q)) /\ (Inside(q)' <=> Inside(q))
        BY <1>4, <1>5 DEF Holding, Inside, LockPlaces
    <2>2. \A q \in Contenders : contender'[q].owner = 0 \/ (q # p /\ contender'[q].owner = contender[q].owner)
        BY <1>4, <2>1
    <2>3. own # 0 /\ 0 \notin Owners
        BY <1>1, Ranges
    <2>4. \A o \in Owners : ~Living(o) => ~Living(o)'
        BY <2>2, <2>3 DEF Living
    <2>5. \A o \in Owners : o = own => ~Living(o)'
        BY <1>1, <2>2, <2>3 DEF Living
    <2> QED BY <1>4, <2>1, <2>4, <2>5
<1>8. \A o \in Owners : Bygone(o) => Bygone(o)' /\ o # activeLock
    BY <1>1, <1>2, <1>4, <1>5, Ranges DEF Bygone
<1>9. \A o : o \in owed' => o \in owed \/ (o = own /\ activeLock = own)
    BY <1>2
<1>10. LockRecords'
    BY <1>1, <1>2, <1>3, <1>4, Ranges DEF LockInv, LockRecords
<1>11. Named'
    BY <1>2, <1>4, <1>5, Ranges DEF LockInv, Named
<1>12. Occupied'
    BY <1>2, <1>4, <1>5, <1>7 DEF LockInv, Occupied, Holding
<1>13. Staging'
    BY <1>2, <1>4, <1>7 DEF LockInv, Staging
<1>14. Marks'
    <2>1. \A o \in Owners : markers'[o].disposition = "none" <=> markers'[o] = Unmarked
        BY <1>2 DEF LockInv, Marks
    <2>2. \A o \in Marked : Bygone(o)' /\ publications'[o] = "none"
        BY <1>2, <1>6, <1>8 DEF LockInv, Marks
    <2>3. \A o \in Pending : ~Living(o)'
        BY <1>6, <1>7 DEF LockInv, Marks
    <2>4. \A o \in Marked \ Pending : o \notin owed'
        BY <1>6, <1>8, <1>9 DEF LockInv, Marks
    <2> QED BY <1>6, <2>1, <2>2, <2>3, <2>4 DEF Marks
<1>15. Noted'
    BY <1>2, <1>7, <1>8, <1>9, Ranges DEF LockInv, Noted
<1>16. Owing'
    BY <1>1, <1>2, <1>7, <1>9, Ranges DEF LockInv, Owing, Occupied
<1>17. Retiring'
    BY <1>2, <1>4, <1>5, <1>7 DEF LockInv, Retiring
<1>18. Fenced'
    <2>1. ASSUME NEW q \in Contenders, Inside(q)'
          PROVE  \E k \in Ports : ports'[k] = contender'[q].owner
        <3>1. PICK k \in Ports : ports[k] = contender[q].owner
            BY <1>7, <2>1 DEF LockInv, Fenced
        <3> QED BY <1>1, <1>3, <1>4, <1>7, <2>1, <3>1
    <2>2. \A q \in Contenders : contender'[q].at \in {"retire", "mismatch"} => contender'[q] = contender[q]
        BY <1>4, <1>5
    <2> QED BY <1>2, <1>6, <1>7, <2>1, <2>2 DEF LockInv, Fenced
<1>19. Held'
    BY <1>2, <1>4, <1>7 DEF LockInv, Held
<1>20. DeathsRemembered'
    BY <1>2, <1>6, <1>9 DEF LockInv, DeathsRemembered
<1> QED
    BY <1>10, <1>11, <1>12, <1>13, <1>14, <1>15, <1>16, <1>17, <1>18, <1>19, <1>20 DEF LockInv

LEMMA LockUntouched ==
    ASSUME LockInv, foreignPort' \in BOOLEAN,
           UNCHANGED <<ports, activeLock, publications, markers, notices, contender, owners, owed, crowded,
                       displaced, corrupt>>
    PROVE  LockInv'
BY DEF LockInv, LockRecords, Named, Occupied, Staging, Marks, Noted, Owing, Retiring, Fenced, Held,
       DeathsRemembered, Bygone, Living, Holding, Inside, Marked, Pending

LEMMA LockStep ==
    ASSUME LockInv, [LockNext]_lockVars
    PROVE  LockInv'
<1>1. CASE ForeignLeaves
    BY <1>1, LockUntouched DEF ForeignLeaves, files, verdicts
<1>2. CASE UNCHANGED lockVars
    BY <1>2, LockUntouched DEF lockVars, LockInv, LockRecords
<1>3. ASSUME NEW p \in Contenders,
             \/ EnterLock(p) \/ BindFence(p) \/ GiveUp(p)
             \/ InspectActiveLock(p) \/ RetireDeadLock(p) \/ RefuseMismatch(p) \/ SettleDeadStage(p)
             \/ DrawTicket(p) \/ CreateStage(p) \/ ElectStage(p) \/ PublishLock(p)
             \/ ServiceMarkers(p) \/ RecoverPendingMarkers(p) \/ RefuseMarker(p)
             \/ Operate(p) \/ Operated(p) \/ CheckOwnLock(p) \/ Unlock(p)
             \/ ContenderDies(p)
      PROVE  LockInv'
    BY <1>3, EnterLockStep, BindFenceStep, GiveUpStep, InspectActiveLockStep, RetireDeadLockStep,
       RefuseMismatchStep, SettleDeadStageStep, DrawTicketStep, CreateStageStep, ElectStageStep,
       PublishLockStep, ServiceMarkersStep, RecoverPendingMarkersStep, RefuseMarkerStep, OperateStep,
       OperatedStep, CheckOwnLockStep, UnlockStep, ContenderDiesStep
<1> QED
    BY <1>1, <1>2, <1>3 DEF LockNext

LEMMA LockStart ==
    ASSUME LockInit
    PROVE  LockInv
<1>1. Owners \subseteq 0..MaxOwners /\ 0 \notin Owners /\ 0 \in 0..MaxOwners
    BY LedgerLockAssumption DEF Owners
<1>2. Outside \in ContenderRecord /\ Outside.owner = 0 /\ Outside.at = "outside" /\ Outside.todo = {}
    BY <1>1 DEF Outside, ContenderRecord, Places
<1>3. /\ \A p \in Contenders : contender[p] = Outside
      /\ \A o \in Owners : markers[o] = Unmarked /\ notices[o] = "none" /\ publications[o] = "none"
      /\ activeLock = 0 /\ owners = 0 /\ owed = {} /\ ~crowded /\ ~displaced /\ ~corrupt
    BY DEF LockInit
<1>4. Marked = {} /\ Pending = {}
    BY <1>3 DEF Marked, Pending
<1>5. LockRecords
    <2>1. Unmarked \in [disposition : {"none", "recovery-pending", "publication-aborted", "released"},
                        inside : 0..MaxOwners]
        BY <1>1 DEF Unmarked
    <2> QED BY <1>1, <1>2, <2>1 DEF LockInit, LockRecords
<1>6. Named /\ Occupied /\ Staging /\ Noted /\ Owing /\ Retiring
    BY <1>1, <1>2, <1>3 DEF Named, Occupied, Staging, Noted, Owing, Retiring, Holding
<1>7. Marks
    BY <1>3, <1>4 DEF Marks, Unmarked
<1>8. Fenced /\ Held /\ DeathsRemembered
    BY <1>2, <1>3, <1>4 DEF Fenced, Held, DeathsRemembered, Inside, Holding, LockPlaces, Places
<1> QED
    BY <1>5, <1>6, <1>7, <1>8 DEF LockInv

LEMMA LockInvariant == LockSpec => []LockInv
<1>1. LockInit => LockInv
    BY LockStart
<1>2. LockInv /\ [LockNext]_lockVars => LockInv'
    BY LockStep
<1> QED
    BY <1>1, <1>2, PTL DEF LockSpec

(* Of any number of processes that contend for the ledger, dying and starting again,     *)
(* no two hold it at once, whatever the fence let in, unless a process renamed away the   *)
(* lock of a live owner; and that happens only after two were inside the fence at once   *)
(* (withK1OperationFence, acquireLock and retireOwnedLock of fs-ledger.ts).              *)
THEOREM LockIsExclusive == LockSpec => []LockExclusive
<1>1. LockInv => LockExclusive
    BY DEF LockInv, Held, Named, Fenced, LockExclusive, Holding
<1> QED
    BY <1>1, LockInvariant, PTL

(* An owner that dies in the lock stays visible, as the lock or as a marker that          *)
(* demands recovery, until the ledger has been recovered on its behalf; and what the      *)
(* dead leave behind is never called corruption while the fence lets in one at a time.    *)
THEOREM DeathsAreSettled == LockSpec => []DeathsSettle
<1>1. LockInv => DeathsSettle
    BY DEF LockInv, Fenced, DeathsSettle, CrashesNeverClose
<1> QED
    BY <1>1, LockInvariant, PTL

-----------------------------------------------------------------------------
(* The decisions of the authority gate. *)

CallRecord == [at : {"none", "load", "existing", "conflict", "advance", "lease", "reserved", "persist", "verify"},
               digest : Contents \cup {"none"}, version : 0..MaxStates, event : 0..MaxCalls,
               record : SUBSET Records]

GateRecords ==
    /\ ingress \in Contents \cup {"none"} /\ stateVersion \in 1..MaxStates
    /\ reservation \in 0..MaxCalls /\ events \in 0..MaxCalls
    /\ decisions \subseteq Records /\ calls \in [Callers -> CallRecord]

(* The call that was first to bind the id, while it is on its way to a primary record. *)
Decides(c) ==
    \/ calls[c].at \in {"load", "advance", "lease", "reserved"}
    \/ calls[c].at \in {"persist", "verify"} /\ \E r \in calls[c].record : r.role = "primary"

Agrees(r) ==
    /\ r.digest = ingress
    /\ r.verdict = "accepted" => reservation = r.event
    /\ r.verdict = "refused" => reservation = 0

OneDecides ==
    /\ \A c, d \in Callers : Decides(c) /\ Decides(d) => c = d
    /\ ingress = "none" => Primary = {} /\ reservation = 0 /\ \A c \in Callers : ~Decides(c)

OnItsWay ==
    \A c \in Callers :
       /\ Decides(c) => calls[c].digest = ingress /\ calls[c].event # 0
       /\ calls[c].at # "none" => calls[c].digest \in Contents /\ calls[c].event # 0
       /\ calls[c].at \in {"load", "advance", "lease"} => Primary = {} /\ reservation = 0
       /\ calls[c].at = "reserved" => Primary = {} /\ reservation = calls[c].event
       /\ calls[c].at = "persist" /\ Decides(c) => Primary = {} /\ \A r \in calls[c].record : Agrees(r)
       /\ calls[c].at \in {"persist", "verify"} =>
             \E r \in Records : calls[c].record = {r} /\ (r.role = "conflict" => r.verdict = "refused")

Told ==
    /\ \A r \in Primary : Agrees(r)
    /\ \A r, s \in Primary : r = s
    /\ \A e \in handles : \E r \in Primary : r.event = e /\ r.verdict = "accepted"

GateInv == GateRecords /\ OneDecides /\ OnItsWay /\ Told

LEMMA GateStart == ASSUME GateInit PROVE GateInv
<1>1. NoCall \in CallRecord /\ NoCall.at = "none"
    BY GateAssumption DEF NoCall, CallRecord
<1> QED
    BY <1>1, GateAssumption DEF GateInit, GateInv, GateRecords, OneDecides, OnItsWay, Told, Decides, Primary

(* A step of one call that leaves the stores alone. *)
LEMMA CallMoves ==
    ASSUME GateInv, NEW c \in Callers, NEW next \in CallRecord, calls' = [calls EXCEPT ![c] = next],
           UNCHANGED <<ingress, reservation, decisions, handles, events>>, stateVersion' = stateVersion,
           next.at # "none" => next.digest = calls[c].digest /\ next.event = calls[c].event /\ calls[c].at # "none",
           next.at \in {"load", "advance", "lease"} => calls[c].at \in {"load", "advance", "lease"},
           next.at = "reserved" => calls[c].at = "reserved",
           next.at \in {"persist", "verify"} =>
               \E r \in Records :
                  /\ next.record = {r} /\ (r.role = "conflict" => r.verdict = "refused")
                  /\ r.role = "primary" => Decides(c) /\ (next.at = "persist" => Agrees(r) /\ Primary = {})
    PROVE  GateInv'
<1>1. /\ calls' \in [Callers -> CallRecord] /\ calls'[c] = next
      /\ \A d \in Callers : d # c => calls'[d] = calls[d]
      /\ Primary' = Primary /\ \A r : Agrees(r)' <=> Agrees(r)
    BY DEF GateInv, GateRecords, Primary, Agrees
<1>2. \A d \in Callers : Decides(d)' => Decides(d)
    BY <1>1 DEF Decides
<1>3. GateRecords'
    BY <1>1 DEF GateInv, GateRecords
<1>4. OneDecides'
    BY <1>1, <1>2 DEF GateInv, OneDecides
<1>5. Told'
    BY <1>1 DEF GateInv, Told
<1>6. OnItsWay'
    <2>1. ASSUME NEW d \in Callers, d # c
          PROVE  (Decides(d)' <=> Decides(d)) /\ calls'[d] = calls[d]
        BY <1>1, <2>1 DEF Decides
    <2>2. /\ Decides(c)' => calls'[c].digest = ingress /\ calls'[c].event # 0
          /\ calls'[c].at # "none" => calls'[c].digest \in Contents /\ calls'[c].event # 0
          /\ calls'[c].at \in {"load", "advance", "lease"} => Primary = {} /\ reservation = 0
          /\ calls'[c].at = "reserved" => Primary = {} /\ reservation = calls'[c].event
          /\ calls'[c].at \in {"persist", "verify"} =>
                \E r \in Records : calls'[c].record = {r} /\ (r.role = "conflict" => r.verdict = "refused")
        <3>1. Decides(c)' => calls'[c].at # "none"
            BY DEF Decides
        <3> QED BY <1>1, <1>2, <3>1 DEF GateInv, OnItsWay
    <2>3. calls'[c].at = "persist" /\ Decides(c)' => Primary = {} /\ \A r \in calls'[c].record : Agrees(r)
        BY <1>1 DEF Decides
    <2> QED BY <1>1, <2>1, <2>2, <2>3 DEF GateInv, OnItsWay
<1> QED
    BY <1>3, <1>4, <1>5, <1>6 DEF GateInv
LEMMA AnswersCall ==
    ASSUME GateInv, NEW c \in Callers, Answered(c),
           UNCHANGED <<ingress, reservation, decisions, handles, events, authority>>
    PROVE  GateInv'
<1>1. NoCall \in CallRecord /\ NoCall.at = "none"
    BY GateAssumption DEF NoCall, CallRecord
<1> QED
    BY <1>1, CallMoves DEF Answered, authority

LEMMA SignsDecision ==
    ASSUME GateInv, NEW c \in Callers, NEW role \in {"primary", "conflict"}, NEW verdict \in {"accepted", "refused"},
           Sign(c, role, verdict), calls[c].at # "none",
           UNCHANGED <<ingress, reservation, decisions, handles, events, authority>>,
           role = "conflict" => verdict = "refused",
           role = "primary" => /\ Decides(c) /\ Primary = {}
                               /\ reservation = IF verdict = "accepted" THEN calls[c].event ELSE 0
    PROVE  GateInv'
<1> DEFINE r == [event |-> calls[c].event, role |-> role, reserved |-> verdict = "accepted",
                 verdict |-> verdict, digest |-> calls[c].digest]
           next == [calls[c] EXCEPT !.at = "persist", !.record = {r}]
<1>1. calls[c] \in CallRecord /\ calls[c].digest \in Contents /\ calls[c].event # 0
    BY DEF GateInv, GateRecords, OnItsWay
<1>2. r \in Records
    BY <1>1 DEF CallRecord, Records
<1>3. next \in CallRecord /\ next.at = "persist" /\ next.record = {r}
      /\ next.digest = calls[c].digest /\ next.event = calls[c].event
    BY <1>1, <1>2 DEF CallRecord
<1>4. calls' = [calls EXCEPT ![c] = next]
    BY DEF Sign
<1>5. role = "primary" => Agrees(r)
    BY DEF Agrees, GateInv, OnItsWay
<1> HIDE DEF next
<1> QED
    BY <1>2, <1>3, <1>4, <1>5, CallMoves DEF authority

LEMMA BindIngressStep ==
    ASSUME GateInv, NEW c \in Callers, NEW d \in Contents, BindIngress(c, d)
    PROVE  GateInv'
<1> DEFINE at == CASE ingress = "none" -> "load" [] ingress = d -> "existing" [] OTHER -> "conflict"
           next == [NoCall EXCEPT !.digest = d, !.event = events', !.at = at]
<1>1. /\ next \in CallRecord /\ next.digest = d /\ next.event = events' /\ next.event # 0 /\ next.at = at
      /\ events' \in 0..MaxCalls
    <2>1. NoCall \in CallRecord /\ events' \in 0..MaxCalls /\ events' # 0
        BY GateAssumption DEF BindIngress, NoCall, CallRecord, GateInv, GateRecords
    <2>2. at \in {"load", "existing", "conflict"}
        OBVIOUS
    <2> HIDE DEF at
    <2> QED BY <2>1, <2>2 DEF CallRecord
<1>2. /\ calls' \in [Callers -> CallRecord] /\ calls'[c] = next
      /\ \A e \in Callers : e # c => calls'[e] = calls[e]
      /\ calls[c].at = "none" /\ ingress' = IF ingress = "none" THEN d ELSE ingress
      /\ UNCHANGED <<stateVersion, permits, reservation, decisions, handles>>
    BY <1>1 DEF BindIngress, authority, GateInv, GateRecords
<1>3. d # "none" /\ at \in {"load", "existing", "conflict"} /\ (at = "load" <=> ingress = "none")
    BY GateAssumption
<1> HIDE DEF at, next
<1>4. /\ \A e \in Callers : e # c => (Decides(e)' <=> Decides(e))
      /\ Decides(c)' => ingress = "none"
      /\ Primary' = Primary
    BY <1>1, <1>2, <1>3 DEF Decides, Primary
<1>5. ingress # "none" => \A r : Agrees(r)' <=> Agrees(r)
    BY <1>2 DEF Agrees
<1>6. GateRecords'
    BY <1>1, <1>2 DEF GateInv, GateRecords
<1>7. OneDecides'
    BY <1>2, <1>3, <1>4 DEF GateInv, OneDecides
<1>8. Told'
    BY <1>2, <1>4, <1>5 DEF GateInv, Told, OneDecides
<1>9. OnItsWay'
    <2>1. CASE ingress = "none"
        <3>1. \A e \in Callers : ~Decides(e) /\ Primary = {} /\ reservation = 0
            BY <2>1 DEF GateInv, OneDecides
        <3> QED BY <1>1, <1>2, <1>3, <1>4, <2>1, <3>1 DEF GateInv, OnItsWay, Decides
    <2>2. CASE ingress # "none"
        BY <1>1, <1>2, <1>3, <1>4, <1>5, <2>2 DEF GateInv, OnItsWay
    <2> QED BY <2>1, <2>2
<1> QED
    BY <1>6, <1>7, <1>8, <1>9 DEF GateInv

LEMMA RefuseConflictStep ==
    ASSUME GateInv, NEW c \in Callers, RefuseConflict(c)
    PROVE  GateInv'
BY AnswersCall, SignsDecision DEF RefuseConflict

LEMMA LoadStateStep ==
    ASSUME GateInv, NEW c \in Callers, LoadState(c)
    PROVE  GateInv'
<1>1. Decides(c) /\ Primary = {} /\ reservation = 0 /\ calls[c].at # "none"
    BY DEF LoadState, Decides, GateInv, OnItsWay
<1>2. CASE calls' = [calls EXCEPT ![c].at = "advance", ![c].version = stateVersion]
    <2> DEFINE next == [calls[c] EXCEPT !.at = "advance", !.version = stateVersion]
    <2>1. next \in CallRecord /\ next.at = "advance" /\ next.digest = calls[c].digest /\ next.event = calls[c].event
        <3>1. calls[c] \in CallRecord /\ stateVersion \in 0..MaxStates
            BY GateAssumption DEF GateInv, GateRecords
        <3> QED BY <3>1 DEF CallRecord
    <2>2. calls' = [calls EXCEPT ![c] = next]
        BY <1>2
    <2> HIDE DEF next
    <2> QED BY <1>1, <2>1, <2>2, CallMoves DEF LoadState, authority
<1> QED
    BY <1>1, <1>2, AnswersCall, SignsDecision DEF LoadState

LEMMA AdvanceStateStep ==
    ASSUME GateInv, NEW c \in Callers, AdvanceState(c)
    PROVE  GateInv'
<1>1. Decides(c) /\ Primary = {} /\ reservation = 0 /\ calls[c].at # "none"
    BY DEF AdvanceState, Decides, GateInv, OnItsWay
<1>2. CASE Move(c, "lease")
    <2> DEFINE next == [calls[c] EXCEPT !.at = "lease"]
    <2>1. next \in CallRecord /\ next.at = "lease" /\ next.digest = calls[c].digest /\ next.event = calls[c].event
        BY DEF GateInv, GateRecords, CallRecord
    <2>2. calls' = [calls EXCEPT ![c] = next]
        BY <1>2 DEF Move
    <2> HIDE DEF next
    <2> QED BY <1>1, <2>1, <2>2, CallMoves DEF AdvanceState, authority
<1> QED
    BY <1>1, <1>2, AnswersCall, SignsDecision DEF AdvanceState

LEMMA ReserveUnderLeaseStep ==
    ASSUME GateInv, NEW c \in Callers, ReserveUnderLease(c)
    PROVE  GateInv'
<1>1. Decides(c) /\ Primary = {} /\ reservation = 0 /\ calls[c].at # "none" /\ calls[c].event # 0
      /\ calls[c].digest = ingress /\ calls[c] \in CallRecord
    BY DEF ReserveUnderLease, Decides, GateInv, OnItsWay, GateRecords
<1>2. CASE reservation' = calls[c].event /\ Move(c, "reserved")
    <2>1. /\ calls' \in [Callers -> CallRecord] /\ calls'[c].at = "reserved"
          /\ calls'[c].digest = calls[c].digest /\ calls'[c].event = calls[c].event
          /\ \A d \in Callers : d # c => calls'[d] = calls[d]
          /\ UNCHANGED <<ingress, authority, decisions, handles, events>> /\ reservation' \in 0..MaxCalls
        BY <1>1, <1>2 DEF ReserveUnderLease, Move, GateInv, GateRecords, CallRecord
    <2>2. Primary' = {} /\ Decides(c)' /\ \A d \in Callers : d # c => (Decides(d)' <=> Decides(d)) /\ ~Decides(d)
        BY <1>1, <2>1 DEF Primary, Decides, GateInv, OneDecides
    <2>3. GateRecords'
        BY <2>1 DEF GateInv, GateRecords, authority
    <2>4. OneDecides'
        BY <1>1, <2>1, <2>2 DEF GateInv, OneDecides
    <2>5. Told'
        BY <1>1, <2>1, <2>2 DEF GateInv, Told
    <2>6. OnItsWay'
        BY <1>1, <1>2, <2>1, <2>2 DEF GateInv, OnItsWay, Decides
    <2> QED BY <2>3, <2>4, <2>5, <2>6 DEF GateInv
<1> QED
    BY <1>1, <1>2, AnswersCall, SignsDecision DEF ReserveUnderLease

LEMMA SignAcceptedStep ==
    ASSUME GateInv, NEW c \in Callers, SignAccepted(c)
    PROVE  GateInv'
<1>1. Decides(c) /\ Primary = {} /\ reservation = calls[c].event /\ calls[c].at # "none"
    BY DEF SignAccepted, Decides, GateInv, OnItsWay
<1> QED
    BY <1>1, AnswersCall, SignsDecision DEF SignAccepted

LEMMA PersistDecisionStep ==
    ASSUME GateInv, NEW c \in Callers, PersistDecision(c)
    PROVE  GateInv'
<1>1. PICK r \in Records : calls[c].record = {r} /\ (r.role = "conflict" => r.verdict = "refused")
    BY DEF PersistDecision, GateInv, OnItsWay
<1>2. (CHOOSE q \in calls[c].record : TRUE) = r
    BY <1>1
<1>3. CASE UNCHANGED decisions /\ Answered(c)
    BY <1>3, AnswersCall DEF PersistDecision
<1>4. ASSUME NEW next \in CallRecord, calls' = [calls EXCEPT ![c] = next], decisions' = decisions \cup {r},
             next.at \in {"none", "verify"}, next.at = "verify" => next.record = {r} /\ next.digest = calls[c].digest
                                                                  /\ next.event = calls[c].event,
             r.role = "primary" => Primary = {}
      PROVE  GateInv'
    <2>1. /\ calls' \in [Callers -> CallRecord] /\ calls'[c] = next
          /\ \A d \in Callers : d # c => calls'[d] = calls[d]
          /\ UNCHANGED <<ingress, authority, reservation, handles, events>> /\ calls[c].at = "persist"
        BY <1>4 DEF PersistDecision, GateInv, GateRecords
    <2>2. /\ Primary' = IF r.role = "primary" THEN {r} ELSE Primary
          /\ \A q : Agrees(q)' <=> Agrees(q)
          /\ \A d \in Callers : d # c => (Decides(d)' <=> Decides(d))
          /\ Decides(c)' => Decides(c)
          /\ r.role = "primary" => Decides(c) /\ Agrees(r) /\ \A d \in Callers : d # c => ~Decides(d)
        <3>1. Primary' = IF r.role = "primary" THEN {r} ELSE Primary
            BY <1>4 DEF Primary
        <3>2. \A q : Agrees(q)' <=> Agrees(q)
            BY <2>1 DEF Agrees
        <3>3. Decides(c) <=> r.role = "primary"
            BY <1>1, <2>1 DEF Decides
        <3>4. Decides(c)' => Decides(c)
            BY <1>1, <1>4, <2>1 DEF Decides
        <3> QED BY <1>1, <2>1, <3>1, <3>2, <3>3, <3>4 DEF Decides, GateInv, OnItsWay, OneDecides
    <2>3. GateRecords'
        BY <1>4, <2>1 DEF GateInv, GateRecords, authority
    <2>4. OneDecides'
        BY <2>1, <2>2 DEF GateInv, OneDecides
    <2>5. Told'
        BY <1>4, <2>1, <2>2 DEF GateInv, Told
    <2>6. OnItsWay'
        <3>1. \A d \in Callers : calls[d].at \in {"load", "advance", "lease", "reserved"} => Decides(d)
            BY DEF Decides
        <3>2. ASSUME NEW d \in Callers, d # c
              PROVE  /\ Decides(d)' => calls'[d].digest = ingress /\ calls'[d].event # 0
                     /\ calls'[d].at # "none" => calls'[d].digest \in Contents /\ calls'[d].event # 0
                     /\ calls'[d].at \in {"load", "advance", "lease"} => Primary' = {} /\ reservation = 0
                     /\ calls'[d].at = "reserved" => Primary' = {} /\ reservation = calls'[d].event
                     /\ calls'[d].at = "persist" /\ Decides(d)' => Primary' = {} /\ \A q \in calls'[d].record : Agrees(q)
                     /\ calls'[d].at \in {"persist", "verify"} =>
                           \E q \in Records : calls'[d].record = {q} /\ (q.role = "conflict" => q.verdict = "refused")
            BY <2>1, <2>2, <3>1, <3>2 DEF GateInv, OnItsWay
        <3>3. /\ calls[c].digest \in Contents /\ calls[c].event # 0 /\ (Decides(c) => calls[c].digest = ingress)
              /\ Decides(c)' => calls'[c].at = "verify"
            BY <1>4, <2>1 DEF GateInv, OnItsWay, Decides
        <3> QED BY <1>1, <1>4, <2>1, <2>2, <3>2, <3>3 DEF OnItsWay
    <2> QED BY <2>3, <2>4, <2>5, <2>6 DEF GateInv
<1>5. NoCall \in CallRecord /\ NoCall.at = "none"
    BY GateAssumption DEF NoCall, CallRecord
<1>6. CASE decisions' = decisions \cup {r} /\ Answered(c) /\ (r.role = "primary" => Primary = {})
    BY <1>4, <1>5, <1>6 DEF Answered
<1>7. CASE decisions' = decisions \cup {r} /\ Move(c, "verify") /\ (r.role = "primary" => Primary = {})
    <2> DEFINE next == [calls[c] EXCEPT !.at = "verify"]
    <2>1. /\ next \in CallRecord /\ next.at = "verify" /\ next.digest = calls[c].digest /\ next.event = calls[c].event
          /\ next.record = {r}
        BY <1>1 DEF GateInv, GateRecords, CallRecord
    <2>2. calls' = [calls EXCEPT ![c] = next]
        BY <1>7 DEF Move
    <2> HIDE DEF next
    <2> QED BY <1>4, <1>7, <2>1, <2>2
<1> QED
    BY <1>2, <1>3, <1>6, <1>7 DEF PersistDecision

LEMMA VerifyIndexesStep ==
    ASSUME GateInv, NEW c \in Callers, VerifyIndexes(c)
    PROVE  GateInv'
<1>1. PICK r \in Records : calls[c].record = {r} /\ (r.role = "conflict" => r.verdict = "refused")
    BY DEF VerifyIndexes, GateInv, OnItsWay
<1>2. (CHOOSE q \in calls[c].record : TRUE) = r
    BY <1>1
<1>3. /\ \A e \in handles' : e \in handles \/ (e = r.event /\ r \in decisions /\ r.verdict = "accepted")
      /\ Answered(c) /\ UNCHANGED <<ingress, authority, reservation, decisions, events>>
    BY <1>2 DEF VerifyIndexes
<1>4. r \in decisions /\ r.verdict = "accepted" => r \in Primary
    BY <1>1 DEF Primary, Records
<1>5. NoCall \in CallRecord /\ NoCall.at = "none"
    BY GateAssumption DEF NoCall, CallRecord
<1>6. /\ calls' \in [Callers -> CallRecord] /\ calls'[c].at = "none"
      /\ \A d \in Callers : d # c => calls'[d] = calls[d]
      /\ Primary' = Primary
    BY <1>3, <1>5 DEF Answered, GateInv, GateRecords, Primary
<1>7. /\ \A d \in Callers : Decides(d)' => d # c /\ Decides(d)
      /\ \A q : Agrees(q)' <=> Agrees(q)
    BY <1>3, <1>6 DEF Decides, Agrees
<1>8. GateRecords'
    BY <1>3, <1>6 DEF GateInv, GateRecords, authority
<1>9. OneDecides'
    BY <1>3, <1>6, <1>7 DEF GateInv, OneDecides
<1>10. Told'
    BY <1>3, <1>4, <1>6, <1>7 DEF GateInv, Told
<1>11. OnItsWay'
    BY <1>3, <1>6, <1>7 DEF GateInv, OnItsWay
<1> QED
    BY <1>8, <1>9, <1>10, <1>11 DEF GateInv

LEMMA GateUntouched ==
    ASSUME GateInv, stateVersion' \in 1..MaxStates,
           UNCHANGED <<ingress, reservation, decisions, calls, handles, events>>
    PROVE  GateInv'
BY DEF GateInv, GateRecords, OneDecides, OnItsWay, Told, Decides, Agrees, Primary

LEMMA GateStep == ASSUME GateInv, [GateNext]_gateVars PROVE GateInv'
<1>1. CASE StateMoves
    BY <1>1, GateUntouched, GateAssumption DEF StateMoves, GateInv, GateRecords
<1>2. CASE UNCHANGED gateVars
    BY <1>2, GateUntouched DEF gateVars, GateInv, GateRecords
<1>3. ASSUME NEW c \in Callers,
             \/ \E d \in Contents : BindIngress(c, d)
             \/ AnswerExisting(c) \/ RefuseConflict(c) \/ LoadState(c) \/ AdvanceState(c)
             \/ ReserveUnderLease(c) \/ SignAccepted(c) \/ PersistDecision(c)
             \/ VerifyIndexes(c) \/ CallerDies(c)
      PROVE  GateInv'
    BY <1>3, AnswersCall, BindIngressStep, RefuseConflictStep, LoadStateStep, AdvanceStateStep, ReserveUnderLeaseStep,
       SignAcceptedStep, PersistDecisionStep, VerifyIndexesStep DEF AnswerExisting, CallerDies
<1> QED
    BY <1>1, <1>2, <1>3 DEF GateNext

(* However many callers ask, repeat, contradict and die, a claim is decided once: the     *)
(* one handle given out is backed by its reservation and by the one primary decision of    *)
(* the content that was bound first, and a refusal stands beside no reservation           *)
(* (decide() of gate.ts).                                                               *)
THEOREM ClaimsAreDecidedOnce == GateSpec => []ClaimsDecideOnce
<1>1. ASSUME GateInv
      PROVE  ClaimsDecideOnce
    <2>1. \A e \in handles : reservation = e /\ \E r \in Primary : r.event = e /\ r.verdict = "accepted" /\ r.digest = ingress
        BY <1>1 DEF GateInv, Told, Agrees
    <2>2. Cardinality(handles) <= 1
        <3>1. handles \subseteq {reservation}
            BY <2>1
        <3>2. IsFiniteSet({reservation}) /\ Cardinality({reservation}) = 1
            BY FS_Singleton
        <3> QED BY <3>1, <3>2, FS_Subset, FS_CardinalityType
    <2>3. RefusalUnreserved
        BY <1>1 DEF GateInv, GateRecords, Told, Agrees, RefusalUnreserved, Primary, Records
    <2> QED BY <2>1, <2>2, <2>3 DEF ClaimsDecideOnce, HandleBacked
<1> QED
    BY <1>1, GateStart, GateStep, PTL DEF GateSpec
-----------------------------------------------------------------------------
(* The decision store and its lock. *)

WriterRecord == [life : 0..MaxLives, at : Steps, claim : Claims \cup {"none"}, expected : -1..MaxLives,
                 read : SUBSET [event : 0..MaxLives, claim : Claims \cup {"none"}],
                 then : {"none", "acquire", "gone"}]

(* A writer under its lock: it reads or writes, or is about to let the lock go. *)
Owns(w) == \/ writer[w].at \in {"load", "persist"}
           \/ writer[w].at \in {"check", "rename"} /\ writer[w].then = "gone"

SinkRecords ==
    /\ lockDir \in -1..MaxLives /\ lives \in 0..MaxLives
    /\ writer \in [Writers -> WriterRecord]
    /\ store \subseteq [event : 0..MaxLives, claim : Claims \cup {"none"}]
    /\ \A w \in Writers : writer[w].life <= lives
    /\ \A w \in Writers : writer[w].at # "gone" => writer[w].life # 0
    /\ \A v, w \in Writers : writer[v].life = writer[w].life /\ writer[v].life # 0 => v = w

(* As long as no live owner was ousted, the lock names the one writer that owns it, and    *)
(* what that writer has read is what is in the file.                                     *)
SinkInv ==
    /\ SinkRecords
    /\ \A w \in Writers : writer[w].at \in {"check", "rename"} /\ writer[w].then = "gone" =>
          writer[w].expected = writer[w].life
    /\ ~ousted =>
          /\ \A w \in Writers : Owns(w) => lockDir = writer[w].life
          /\ \A w \in Writers : writer[w].at = "persist" => writer[w].read = store
          /\ acked \subseteq store

LEMMA SinkStart == ASSUME SinkInit PROVE SinkInv
<1>1. Gone \in WriterRecord
    BY SinkAssumption DEF Gone, WriterRecord, Steps
<1> QED
    BY <1>1, SinkAssumption DEF SinkInit, SinkInv, SinkRecords, Owns, Gone

(* A step of one writer that leaves the file alone and takes no lock from its owner. *)
LEMMA WriterMoves ==
    ASSUME SinkInv, NEW w \in Writers, NEW next \in WriterRecord, writer' = [writer EXCEPT ![w] = next],
           UNCHANGED <<store, acked, lives>>, lockDir' \in -1..MaxLives, ousted => ousted',
           next.life \in {0, writer[w].life}, next.at # "gone" => next.life # 0,
           next.at \in {"check", "rename"} /\ next.then = "gone" => next.expected = next.life,
           next.at = "persist" => next.read = store,
           ~ousted' => \/ lockDir' = lockDir
                       \/ \A v \in Writers : Owns(v) => v = w /\ ~Owns(w)',
           ~ousted' /\ Owns(w)' => lockDir' = next.life
    PROVE  SinkInv'
<1>1. /\ writer' \in [Writers -> WriterRecord] /\ writer'[w] = next
      /\ \A v \in Writers : v # w => writer'[v] = writer[v] /\ (Owns(v)' <=> Owns(v))
    BY DEF SinkInv, SinkRecords, Owns
<1>2. SinkRecords'
    BY <1>1 DEF SinkInv, SinkRecords
<1>3. \A v \in Writers : writer'[v].at \in {"check", "rename"} /\ writer'[v].then = "gone" =>
          writer'[v].expected = writer'[v].life
    BY <1>1 DEF SinkInv
<1>4. ~ousted' => \A v \in Writers : Owns(v)' => lockDir' = writer'[v].life
    BY <1>1 DEF SinkInv
<1>5. ~ousted' => \A v \in Writers : writer'[v].at = "persist" => writer'[v].read = store
    BY <1>1 DEF SinkInv
<1> QED
    BY <1>2, <1>3, <1>4, <1>5 DEF SinkInv

LEMMA SinkFacts ==
    ASSUME SinkInv, NEW w \in Writers
    PROVE  /\ writer[w] \in WriterRecord /\ writer[w].life \in 0..MaxLives /\ lockDir \in -1..MaxLives
           /\ MaxLives \in Nat /\ writer[w].life # -1 /\ 0 \in -1..MaxLives /\ -1 \in -1..MaxLives
           /\ Gone \in WriterRecord /\ Gone.life = 0 /\ Gone.at = "gone"
           /\ \A v \in Writers : Owns(v) => writer[v].at # "gone" /\ writer[v].life > 0 /\ Alive(writer[v].life)
           /\ ~ousted => \A v \in Writers : Owns(v) => lockDir = writer[v].life
BY SinkAssumption DEF SinkInv, SinkRecords, WriterRecord, Gone, Steps, Owns, Alive

LEMMA Proceeding ==
    ASSUME SinkInv, NEW w \in Writers, NEW step \in Steps, Proceed(w, step)
    PROVE  \E next \in WriterRecord :
              /\ writer' = [writer EXCEPT ![w] = next] /\ next.at = step /\ next.life = writer[w].life
              /\ next.then = writer[w].then /\ next.expected = writer[w].expected /\ next.read = writer[w].read
<1> DEFINE next == [writer[w] EXCEPT !.at = step]
<1>1. writer[w] \in WriterRecord
    BY SinkFacts
<1>2. next \in WriterRecord /\ next.at = step /\ next.life = writer[w].life
      /\ next.then = writer[w].then /\ next.expected = writer[w].expected /\ next.read = writer[w].read
    BY <1>1 DEF WriterRecord
<1>3. writer' = [writer EXCEPT ![w] = next]
    BY DEF Proceed
<1> HIDE DEF next
<1> QED BY <1>2, <1>3

LEMMA AppendStartStep ==
    ASSUME SinkInv, NEW w \in Writers, NEW c \in Claims, AppendStart(w, c)
    PROVE  SinkInv'
<1> DEFINE next == [Gone EXCEPT !.life = lives', !.at = "acquire", !.claim = c]
<1>1. lives' = lives + 1 /\ lives' \in 1..MaxLives /\ lives \in 0..MaxLives
    BY SinkAssumption DEF AppendStart, SinkInv, SinkRecords
<1>2. next \in WriterRecord /\ next.life = lives' /\ next.at = "acquire"
    <2>1. Gone \in WriterRecord /\ lives' \in 0..MaxLives /\ "acquire" \in Steps /\ c \in Claims \cup {"none"}
        BY <1>1, SinkFacts DEF Steps
    <2> QED BY <2>1 DEF WriterRecord
<1>3. writer' = [writer EXCEPT ![w] = next] /\ UNCHANGED <<lockDir, store, acked, ousted>>
    BY DEF AppendStart, sinkHistory
<1> HIDE DEF next
<1>4. /\ writer' \in [Writers -> WriterRecord] /\ writer'[w] = next
      /\ \A v \in Writers : v # w => writer'[v] = writer[v]
    BY <1>2, <1>3 DEF SinkInv, SinkRecords
<1>5. SinkRecords'
    <2>1. \A v \in Writers : writer[v].life \in 0..MaxLives /\ writer[v].life <= lives
        BY DEF SinkInv, SinkRecords, WriterRecord
    <2> QED BY <1>1, <1>2, <1>3, <1>4, <2>1 DEF SinkInv, SinkRecords
<1> QED
    BY <1>2, <1>3, <1>4, <1>5 DEF SinkInv, Owns

LEMMA AcquireLockDirStep ==
    ASSUME SinkInv, NEW w \in Writers, AcquireLockDir(w)
    PROVE  SinkInv'
<1>1. UNCHANGED <<store, acked, lives, ousted>> /\ writer[w].at = "acquire" /\ writer[w].life # 0 /\ ~Owns(w)
    BY DEF AcquireLockDir, sinkHistory, SinkInv, SinkRecords, Owns
<1>2. CASE lockDir = 0 /\ lockDir' = -1 /\ Proceed(w, "created")
    <2>1. PICK next \in WriterRecord :
              /\ writer' = [writer EXCEPT ![w] = next] /\ next.at = "created" /\ next.life = writer[w].life
        BY <1>2, Proceeding DEF Steps
    <2>2. writer'[w] = next /\ ~Owns(w)'
        BY <2>1 DEF Owns, SinkInv, SinkRecords
    <2>3. lockDir' \in -1..MaxLives /\ (~ousted => \A v \in Writers : ~Owns(v))
        BY <1>2, SinkFacts
    <2> QED BY <1>1, <2>1, <2>2, <2>3, WriterMoves
<1>3. CASE /\ lockDir > 0 /\ ~Alive(lockDir) /\ UNCHANGED lockDir
           /\ writer' = [writer EXCEPT ![w].at = "check", ![w].expected = lockDir, ![w].then = "acquire"]
    <2> DEFINE next == [writer[w] EXCEPT !.at = "check", !.expected = lockDir, !.then = "acquire"]
    <2>1. writer[w] \in WriterRecord /\ lockDir \in -1..MaxLives
        BY SinkFacts
    <2>2. next \in WriterRecord /\ next.at = "check" /\ next.then = "acquire" /\ next.life = writer[w].life
        BY <2>1 DEF WriterRecord, Steps
    <2>3. writer' = [writer EXCEPT ![w] = next]
        BY <1>3
    <2> HIDE DEF next
    <2>4. ~Owns(w)'
        BY <2>2, <2>3 DEF Owns, SinkInv, SinkRecords
    <2> QED BY <1>1, <1>3, <2>1, <2>2, <2>3, <2>4, WriterMoves
<1>4. CASE UNCHANGED lockDir /\ Proceed(w, "failed")
    <2>1. PICK next \in WriterRecord :
              /\ writer' = [writer EXCEPT ![w] = next] /\ next.at = "failed" /\ next.life = writer[w].life
        BY <1>4, Proceeding DEF Steps
    <2>2. writer'[w] = next /\ ~Owns(w)'
        BY <2>1 DEF Owns, SinkInv, SinkRecords
    <2>3. lockDir \in -1..MaxLives
        BY SinkFacts
    <2> QED BY <1>1, <1>4, <2>1, <2>2, <2>3, WriterMoves
<1> QED
    BY <1>2, <1>3, <1>4 DEF AcquireLockDir

LEMMA PublishOwnerStep ==
    ASSUME SinkInv, NEW w \in Writers, PublishOwner(w)
    PROVE  SinkInv'
<1>1. UNCHANGED <<store, acked, lives>> /\ writer[w].at = "created" /\ writer[w].life # 0 /\ ~Owns(w)
    BY DEF PublishOwner, SinkInv, SinkRecords, Owns
<1>2. CASE lockDir = -1 /\ lockDir' = writer[w].life /\ Proceed(w, "load") /\ UNCHANGED ousted
    <2>1. PICK next \in WriterRecord :
              /\ writer' = [writer EXCEPT ![w] = next] /\ next.at = "load" /\ next.life = writer[w].life
        BY <1>2, Proceeding DEF Steps
    <2>2. lockDir' \in -1..MaxLives /\ (~ousted => \A v \in Writers : ~Owns(v))
        BY <1>2, SinkFacts
    <2>3. /\ writer' \in [Writers -> WriterRecord] /\ writer'[w] = next
          /\ \A v \in Writers : v # w => writer'[v] = writer[v]
        BY <2>1 DEF SinkInv, SinkRecords
    <2>4. SinkRecords'
        BY <1>1, <2>1, <2>2, <2>3 DEF SinkInv, SinkRecords
    <2> QED BY <1>1, <1>2, <2>1, <2>2, <2>3, <2>4 DEF SinkInv, Owns
<1>3. CASE /\ lockDir' = 0 /\ Proceed(w, "failed") /\ ousted' = (ousted \/ (lockDir > 0 /\ Alive(lockDir)))
    <2>1. PICK next \in WriterRecord :
              /\ writer' = [writer EXCEPT ![w] = next] /\ next.at = "failed" /\ next.life = writer[w].life
        BY <1>3, Proceeding DEF Steps
    <2>2. writer'[w] = next /\ ~Owns(w)'
        BY <2>1 DEF Owns, SinkInv, SinkRecords
    <2>3. lockDir' \in -1..MaxLives /\ (~ousted' => \A v \in Writers : ~Owns(v))
        <3>1. ASSUME ~ousted', NEW v \in Writers, Owns(v)
              PROVE  FALSE
            <4>1. ~ousted /\ ~(lockDir > 0 /\ Alive(lockDir))
                BY <1>3, <3>1
            <4>2. lockDir = writer[v].life /\ writer[v].life > 0 /\ Alive(writer[v].life)
                BY <3>1, <4>1, SinkFacts
            <4> QED BY <4>1, <4>2
        <3> QED BY <1>3, <3>1, SinkFacts
    <2> QED BY <1>1, <1>3, <2>1, <2>2, <2>3, WriterMoves
<1> QED
    BY <1>2, <1>3 DEF PublishOwner

LEMMA CheckOwnerStep ==
    ASSUME SinkInv, NEW w \in Writers, CheckOwner(w)
    PROVE  SinkInv'
<1> DEFINE to == IF lockDir = writer[w].expected THEN "rename"
                 ELSE IF writer[w].then # "acquire" THEN "gone"
                 ELSE IF lockDir > 0 THEN "acquire" ELSE "failed"
<1>1. to \in {"rename", "acquire", "failed", "gone"} /\ Proceed(w, to)
    BY DEF CheckOwner
<1>2. PICK next \in WriterRecord :
          /\ writer' = [writer EXCEPT ![w] = next] /\ next.at = to /\ next.life = writer[w].life
          /\ next.then = writer[w].then /\ next.expected = writer[w].expected
    BY <1>1, Proceeding DEF Steps
<1>3. /\ UNCHANGED <<store, acked, lives, ousted, lockDir>> /\ lockDir \in -1..MaxLives
      /\ writer[w].at = "check" /\ writer[w].life # 0 /\ writer'[w] = next
    BY <1>2, SinkFacts DEF CheckOwner, sinkHistory, SinkInv, SinkRecords
<1> HIDE DEF to
<1>4. Owns(w)' => Owns(w)
    BY <1>1, <1>2, <1>3 DEF Owns
<1>5. next.at \in {"check", "rename"} /\ next.then = "gone" => next.expected = next.life
    BY <1>2, <1>3 DEF SinkInv
<1> QED
    BY <1>1, <1>2, <1>3, <1>4, <1>5, SinkFacts, WriterMoves

LEMMA RenameLockStep ==
    ASSUME SinkInv, NEW w \in Writers, RenameLock(w)
    PROVE  SinkInv'
<1>1. UNCHANGED <<store, acked, lives>> /\ writer[w].at = "rename" /\ writer[w].life # 0
    BY DEF RenameLock, SinkInv, SinkRecords
<1>2. CASE /\ lockDir = 0 /\ UNCHANGED <<lockDir, ousted>>
           /\ Proceed(w, IF writer[w].then = "acquire" THEN "failed" ELSE "gone")
    <2>1. PICK next \in WriterRecord :
              /\ writer' = [writer EXCEPT ![w] = next] /\ next.at \in {"failed", "gone"} /\ next.life = writer[w].life
        BY <1>2, Proceeding DEF Steps
    <2>2. writer'[w] = next /\ ~Owns(w)'
        BY <2>1 DEF Owns, SinkInv, SinkRecords
    <2> QED BY <1>1, <1>2, <2>1, <2>2, SinkFacts, WriterMoves
<1>3. CASE /\ lockDir # 0 /\ lockDir' = 0 /\ Proceed(w, "inspect")
           /\ ousted' = (ousted \/ lockDir = -1 \/ (lockDir # writer[w].life /\ Alive(lockDir)))
    <2>1. PICK next \in WriterRecord :
              /\ writer' = [writer EXCEPT ![w] = next] /\ next.at = "inspect" /\ next.life = writer[w].life
        BY <1>3, Proceeding DEF Steps
    <2>2. writer'[w] = next /\ ~Owns(w)'
        BY <2>1 DEF Owns, SinkInv, SinkRecords
    <2>3. ~ousted' => \A v \in Writers : Owns(v) => v = w
        BY <1>3, SinkFacts DEF SinkInv, SinkRecords
    <2>4. lockDir' \in -1..MaxLives
        BY <1>3, SinkFacts
    <2> QED BY <1>1, <1>3, <2>1, <2>2, <2>3, <2>4, WriterMoves
<1> QED
    BY <1>2, <1>3 DEF RenameLock

LEMMA InspectRenamedStep ==
    ASSUME SinkInv, aside \in [Writers -> -1..MaxLives], NEW w \in Writers, InspectRenamed(w)
    PROVE  SinkInv'
<1>1. UNCHANGED <<store, acked, lives>> /\ writer[w].at = "inspect" /\ writer[w].life # 0 /\ ~Owns(w)
    BY DEF InspectRenamed, SinkInv, SinkRecords, Owns
<1>2. PICK next \in WriterRecord :
          /\ writer' = [writer EXCEPT ![w] = next] /\ next.at \in {"acquire", "failed", "gone"}
          /\ next.life = writer[w].life
    BY Proceeding DEF Steps, InspectRenamed
<1>3. writer'[w] = next /\ ~Owns(w)'
    BY <1>2 DEF Owns, SinkInv, SinkRecords
<1>4. /\ lockDir' \in -1..MaxLives /\ (ousted => ousted')
      /\ ~ousted' => lockDir' = lockDir \/ lockDir = 0
    <2>1. aside[w] \in -1..MaxLives /\ lockDir \in -1..MaxLives
        BY SinkFacts
    <2>2. CASE UNCHANGED <<lockDir, ousted>>
        BY <2>1, <2>2
    <2>3. CASE /\ lockDir' = (IF aside[w] > 0 /\ lockDir <= 0 THEN aside[w] ELSE lockDir)
               /\ ousted' = (ousted \/ (aside[w] > 0 /\ lockDir = -1))
        <3>1. lockDir <= 0 => lockDir = -1 \/ lockDir = 0
            BY <2>1
        <3>2. lockDir' \in -1..MaxLives /\ (lockDir' = lockDir \/ (aside[w] > 0 /\ lockDir <= 0))
            BY <2>1, <2>3
        <3>3. (ousted => ousted') /\ (aside[w] > 0 /\ lockDir = -1 => ousted')
            BY <2>3
        <3> QED BY <3>1, <3>2, <3>3
    <2> QED BY <2>2, <2>3 DEF InspectRenamed
<1>5. ~ousted' /\ lockDir = 0 => \A v \in Writers : ~Owns(v)
    BY <1>4, SinkFacts
<1> QED
    BY <1>1, <1>2, <1>3, <1>4, <1>5, WriterMoves

LEMMA LoadStoreStep ==
    ASSUME SinkInv, NEW w \in Writers, LoadStore(w)
    PROVE  SinkInv'
<1> DEFINE leave == [writer[w] EXCEPT !.at = "check", !.expected = writer[w].life, !.then = "gone"]
           stay  == [writer[w] EXCEPT !.at = "persist", !.read = store]
<1>1. UNCHANGED <<store, acked, lives, lockDir, ousted>> /\ writer[w].at = "load" /\ writer[w].life # 0 /\ Owns(w)
      /\ lockDir \in -1..MaxLives /\ (~ousted => lockDir = writer[w].life)
    BY DEF LoadStore, sinkHistory, SinkInv, SinkRecords, Owns
<1>2. writer[w] \in WriterRecord /\ store \subseteq [event : 0..MaxLives, claim : Claims \cup {"none"}]
      /\ writer[w].life \in -1..MaxLives
    BY SinkFacts DEF SinkInv, SinkRecords
<1>3. /\ leave \in WriterRecord /\ leave.at = "check" /\ leave.expected = leave.life /\ leave.life = writer[w].life
      /\ stay \in WriterRecord /\ stay.at = "persist" /\ stay.read = store /\ stay.life = writer[w].life
    BY <1>2 DEF WriterRecord, Steps
<1>4. writer' = [writer EXCEPT ![w] = leave] \/ writer' = [writer EXCEPT ![w] = stay]
    BY DEF LoadStore
<1> HIDE DEF leave, stay
<1>5. CASE writer' = [writer EXCEPT ![w] = leave]
    BY <1>1, <1>3, <1>5, WriterMoves
<1>6. CASE writer' = [writer EXCEPT ![w] = stay]
    BY <1>1, <1>3, <1>6, WriterMoves
<1> QED
    BY <1>4, <1>5, <1>6

LEMMA PersistStoreStep ==
    ASSUME SinkInv, NEW w \in Writers, PersistStore(w)
    PROVE  SinkInv'
<1> DEFINE next == [writer[w] EXCEPT !.at = "check", !.expected = writer[w].life, !.then = "gone", !.read = {}]
<1>1. UNCHANGED <<lives, lockDir, ousted>> /\ writer[w].at = "persist" /\ writer[w].life # 0 /\ Owns(w)
      /\ store' = writer[w].read \cup {Record(w)} /\ acked' = acked \cup {Record(w)}
    BY DEF PersistStore, SinkInv, SinkRecords, Owns
<1>2. writer[w] \in WriterRecord /\ writer[w].life \in -1..MaxLives
    BY SinkFacts
<1>3. next \in WriterRecord /\ next.at = "check" /\ next.expected = next.life /\ next.life = writer[w].life
    BY <1>2 DEF WriterRecord, Steps
<1>4. writer' = [writer EXCEPT ![w] = next]
    BY DEF PersistStore
<1> HIDE DEF next
<1>5. /\ writer' \in [Writers -> WriterRecord] /\ writer'[w] = next
      /\ \A v \in Writers : v # w => writer'[v] = writer[v]
    BY <1>3, <1>4 DEF SinkInv, SinkRecords
<1>6. store' \subseteq [event : 0..MaxLives, claim : Claims \cup {"none"}]
    BY <1>1, <1>2 DEF Record, WriterRecord
<1>7. SinkRecords'
    BY <1>1, <1>3, <1>5, <1>6 DEF SinkInv, SinkRecords
<1>8. ~ousted => store \subseteq store' /\ acked' \subseteq store' /\ \A v \in Writers : Owns(v) => v = w
    BY <1>1, SinkFacts DEF SinkInv, SinkRecords
<1> QED
    BY <1>1, <1>3, <1>5, <1>7, <1>8 DEF SinkInv, Owns

LEMMA WriterEnds ==
    ASSUME SinkInv, NEW w \in Writers, writer' = [writer EXCEPT ![w] = Gone],
           UNCHANGED <<lockDir, store, lives, acked, ousted>>
    PROVE  SinkInv'
<1>1. writer'[w] = Gone /\ ~Owns(w)'
    BY SinkFacts DEF SinkInv, SinkRecords, Owns
<1> QED
    BY <1>1, SinkFacts, WriterMoves

LEMMA AppendFailsStep ==
    ASSUME SinkInv, NEW w \in Writers, AppendFails(w)
    PROVE  SinkInv'
<1>1. UNCHANGED <<store, acked, lives, lockDir, ousted>> /\ writer[w].at = "failed" /\ writer[w].life # 0
    BY DEF AppendFails, sinkHistory, SinkInv, SinkRecords
<1>2. CASE Proceed(w, "acquire")
    <2>1. PICK next \in WriterRecord :
              /\ writer' = [writer EXCEPT ![w] = next] /\ next.at = "acquire" /\ next.life = writer[w].life
        BY <1>2, Proceeding DEF Steps
    <2>2. writer'[w] = next /\ ~Owns(w)'
        BY <2>1 DEF Owns, SinkInv, SinkRecords
    <2> QED BY <1>1, <2>1, <2>2, SinkFacts, WriterMoves
<1> QED
    BY <1>1, <1>2, WriterEnds DEF AppendFails

AsideOK == aside \in [Writers -> -1..MaxLives]

LEMMA SinkStep ==
    ASSUME SinkInv, AsideOK, [SinkNext]_sinkVars
    PROVE  SinkInv' /\ AsideOK'
<1>1. CASE UNCHANGED sinkVars
    BY <1>1 DEF sinkVars, SinkInv, SinkRecords, Owns, AsideOK
<1>2. ASSUME NEW w \in Writers,
             \/ \E c \in Claims : AppendStart(w, c)
             \/ AcquireLockDir(w) \/ PublishOwner(w) \/ CheckOwner(w) \/ RenameLock(w)
             \/ InspectRenamed(w) \/ LoadStore(w) \/ PersistStore(w) \/ AppendFails(w)
             \/ WriterDies(w)
      PROVE  SinkInv' /\ AsideOK'
    <2>1. SinkInv'
        BY <1>2, AppendStartStep, AcquireLockDirStep, PublishOwnerStep, CheckOwnerStep, RenameLockStep,
           InspectRenamedStep, LoadStoreStep, PersistStoreStep, AppendFailsStep, WriterEnds
           DEF WriterDies, AsideOK, sinkHistory
    <2>2. aside' = aside \/ (\E a \in -1..MaxLives : aside' = [aside EXCEPT ![w] = a])
        <3>1. lockDir \in -1..MaxLives /\ 0 \in -1..MaxLives
            BY SinkFacts
        <3>2. CASE RenameLock(w) \/ InspectRenamed(w)
            BY <3>1, <3>2 DEF RenameLock, InspectRenamed
        <3> QED BY <1>2, <3>2 DEF AppendStart, AcquireLockDir, PublishOwner, CheckOwner, LoadStore, PersistStore,
                                  AppendFails, WriterDies
    <2> QED BY <2>1, <2>2 DEF AsideOK
<1> QED
    BY <1>1, <1>2 DEF SinkNext

(* Whatever writers contend, die and take over the lock of a dead one, a decision that was *)
(* reported as appended stays in the file, unless a process took the lock of a live owner   *)
(* (append and retireOwnedLock of decision.ts).                                          *)
THEOREM AppendsStay == SinkSpec => []AppendedStays
<1>1. SinkInit => SinkInv /\ AsideOK
    <2>1. 0 \in -1..MaxLives
        BY SinkAssumption
    <2> QED BY <2>1, SinkStart DEF SinkInit, AsideOK
<1>2. SinkInv /\ AsideOK /\ [SinkNext]_sinkVars => (SinkInv /\ AsideOK)'
    BY SinkStep
<1>3. SinkInv => AppendedStays
    BY DEF SinkInv, AppendedStays
<1> QED
    BY <1>1, <1>2, <1>3, PTL DEF SinkSpec
-----------------------------------------------------------------------------
(* The calls of the local runtime. *)

Working == {"decide", "record", "commit", "publish", "send", "settle", "linkage", "diagnose", "diagnose-unsent"}
Serving == {"jobs", "invoke", "joined", "bind", "existing"} \cup Working
Answers == AcceptedStates \cup {"none", "authentication-required", "job-authority-refused", "request-id-conflict",
                                "gate-unavailable", "refused", "decision-missing", "dispatch-unavailable",
                                "not-found", "status-unavailable"}

RequestRecord == [at : Serving \cup {"rest", "resolve", "status-ingress", "status-decision", "status-linkage",
                                     "answered"},
                  asks : Semantics \cup {"none", "status"}, late : BOOLEAN, answer : Answers]

RuledOut == FALSE \in diagnostics
Possible == TRUE \in diagnostics

Works(c) == request[c].at \in Working

CallRecords ==
    /\ request \in [Requesters -> RequestRecord]
    /\ boundTo \in Semantics \cup {"none"} /\ decided \in {"none", "accepted", "refused"}
    /\ effectState \in AcceptedStates \cup {"none"}
    /\ carriedOut \in BOOLEAN /\ told \in BOOLEAN /\ unrecorded \in BOOLEAN

(* The stores agree with each other and with what was told. *)
StoresAgree ==
    /\ boundTo = "none" => decided = "none" /\ effectState = "none"
    /\ decided = "none" => effectState \in {"none", "reserved"}
    /\ decided = "refused" => effectState = "none"
    /\ decided = "accepted" => effectState # "none"
    /\ decided # "accepted" => ~carriedOut /\ ~told /\ diagnostics = {}
    /\ carriedOut => effectState \in {"dispatched", "ambiguous", "acknowledged"}

(* Where the one call stands that works on the id's decision and dispatch. *)
OnTheJob(c) ==
    /\ request[c].at = "decide" => decided = "none" /\ effectState = "none"
    /\ request[c].at = "record" => decided = "none"
    /\ request[c].at \in {"commit", "publish", "send", "settle", "linkage", "diagnose", "diagnose-unsent"} =>
          decided = "accepted"
    /\ request[c].at = "commit" => effectState = "reserved"
    /\ request[c].at \in {"publish", "send", "settle", "diagnose-unsent"} => effectState = "dispatched"
    /\ request[c].at = "linkage" => effectState \in {"ambiguous", "acknowledged", "definitive-failure"}
    /\ request[c].at \in {"commit", "publish", "send", "diagnose-unsent"} => ~carriedOut
    /\ ~RuledOut

OneWorks ==
    /\ \A c, d \in Requesters : Works(c) /\ Works(d) => c = d
    /\ \A c \in Requesters : Works(c) => OnTheJob(c) /\ boundTo # "none"

Mentioned ==
    /\ RuledOut => ~carriedOut
    /\ carriedOut => \/ told \/ unrecorded
                     \/ \E c \in Requesters : request[c].at \in {"settle", "linkage", "diagnose"}
    /\ carriedOut /\ effectState = "dispatched" =>
          \/ Possible \/ unrecorded
          \/ \E c \in Requesters : request[c].at \in {"settle", "diagnose"}

Asked ==
    \A c \in Requesters :
       /\ request[c].at \in Serving => request[c].asks \in Semantics \ {"status"}
       /\ request[c].at = "resolve" => request[c].asks \in Semantics \cup {"status"}
       /\ request[c].at \in {"status-ingress", "status-decision", "status-linkage"} => request[c].asks = "status"
       /\ request[c].at = "status-linkage" => decided = "accepted"
       /\ request[c].late => told
       /\ request[c].late /\ request[c].asks = "status" => request[c].answer \notin {"not-found", "refused"}

CallInv == CallRecords /\ StoresAgree /\ OneWorks /\ Mentioned /\ Asked

LEMMA CallsStart == ASSUME CallsInit PROVE CallInv
<1>1. NoRequest \in RequestRecord
    BY DEF NoRequest, RequestRecord, Answers
<1> QED
    BY <1>1 DEF CallsInit, CallInv, CallRecords, StoresAgree, OneWorks, Mentioned, Asked, Works, Working, Serving,
                NoRequest, RuledOut, Possible

(* A step of requests that do not work on the decision. *)
LEMMA Bystanding ==
    ASSUME CallInv, request' \in [Requesters -> RequestRecord],
           UNCHANGED <<ledger, carriedOut, diagnostics, unrecorded>>, told' \in BOOLEAN,
           told => told', told' => told \/ decided = "accepted",
           \A d \in Requesters :
              \/ request'[d] = request[d]
              \/ /\ ~Works(d) /\ ~Works(d)'
                 /\ request'[d].at \in Serving => request'[d].asks \in Semantics \ {"status"}
                 /\ request'[d].at = "resolve" => request'[d].asks \in Semantics \cup {"status"}
                 /\ request'[d].at \in {"status-ingress", "status-decision", "status-linkage"} =>
                       request'[d].asks = "status"
                 /\ request'[d].at = "status-linkage" => decided = "accepted"
                 /\ request'[d].late => told'
                 /\ request'[d].late /\ request'[d].asks = "status" => request'[d].answer \notin {"not-found", "refused"}
    PROVE  CallInv'
<1>1. \A d \in Requesters : (Works(d)' <=> Works(d)) /\ (Works(d) => request'[d] = request[d])
    BY DEF Works
<1>2. /\ boundTo' = boundTo /\ decided' = decided /\ effectState' = effectState
      /\ UNCHANGED <<carriedOut, diagnostics, unrecorded>>
      /\ (RuledOut' <=> RuledOut) /\ (Possible' <=> Possible)
    BY DEF ledger, RuledOut, Possible
<1>3. CallRecords'
    BY <1>2 DEF CallInv, CallRecords
<1>4. StoresAgree'
    BY <1>2 DEF CallInv, CallRecords, StoresAgree
<1>5. OneWorks'
    <2>1. ASSUME NEW d \in Requesters, Works(d)'
          PROVE  OnTheJob(d)' /\ boundTo' # "none" /\ Works(d)
        <3>1. Works(d) /\ request'[d] = request[d] /\ OnTheJob(d) /\ boundTo # "none"
            BY <1>1, <2>1 DEF CallInv, OneWorks
        <3> QED BY <1>2, <3>1 DEF OnTheJob
    <2>2. \A c, d \in Requesters : Works(c) /\ Works(d) => c = d
        BY DEF CallInv, OneWorks
    <2> QED BY <2>1, <2>2 DEF OneWorks
<1>6. Mentioned'
    <2>1. \A c \in Requesters : request[c].at \in {"settle", "linkage", "diagnose"} => request'[c] = request[c]
        <3>1. ASSUME NEW c \in Requesters, request[c].at \in {"settle", "linkage", "diagnose"}
              PROVE  Works(c)
            BY <3>1 DEF Works, Working
        <3> QED BY <1>1, <3>1
    <2>2. CASE carriedOut
        BY <1>2, <2>1, <2>2 DEF CallInv, Mentioned
    <2> QED BY <1>2, <2>1, <2>2 DEF CallInv, Mentioned
<1>7. Asked'
    BY <1>2 DEF CallInv, Asked
<1> QED
    BY <1>3, <1>4, <1>5, <1>6, <1>7 DEF CallInv

(* What an answer does to the requests. *)
LEMMA Answering ==
    ASSUME CallInv, NEW c \in Requesters, NEW answer \in Answers, Answer(c, answer), request[c].at # "joined"
    PROVE  /\ request' \in [Requesters -> RequestRecord] /\ told' \in BOOLEAN /\ (told => told')
           /\ told' => told \/ answer \in AcceptedStates \cup {"dispatch-unavailable"}
           /\ answer \in AcceptedStates \cup {"dispatch-unavailable"} => told'
           /\ request'[c].at = "answered" /\ request'[c].asks = request[c].asks
           /\ request'[c].late = request[c].late /\ request'[c].answer = answer
           /\ \A d \in Requesters : d # c =>
                 \/ request'[d] = request[d]
                 \/ /\ request[d].at = "joined" /\ request'[d].at = "answered" /\ request'[d].asks = request[d].asks
                    /\ request'[d].late = request[d].late
<1>1. \A d \in Requesters : request[d] \in RequestRecord
    BY DEF CallInv, CallRecords
<1> DEFINE next(d) == [request[d] EXCEPT !.at = "answered", !.answer = answer]
<1>2. \A d \in Requesters :
        /\ next(d) \in RequestRecord /\ next(d).at = "answered" /\ next(d).asks = request[d].asks
        /\ next(d).late = request[d].late /\ next(d).answer = answer
    BY <1>1 DEF RequestRecord
<1>3. request' = [d \in Requesters |-> IF d = c \/ (request[d].at = "joined" /\ flight = c) THEN next(d) ELSE request[d]]
    BY DEF Answer, Is
<1> HIDE DEF next
<1>4. /\ request'[c] = next(c)
      /\ \A d \in Requesters : d # c => request'[d] = request[d] \/ (request'[d] = next(d) /\ request[d].at = "joined")
    BY <1>3
<1>5. request' \in [Requesters -> RequestRecord]
    BY <1>1, <1>2, <1>3
<1>6. told' = (told \/ answer \in AcceptedStates \cup {"dispatch-unavailable"}) /\ told \in BOOLEAN
    BY DEF Answer, CallInv, CallRecords
<1>7. told' \in BOOLEAN /\ (told => told') /\ (told' => told \/ answer \in AcceptedStates \cup {"dispatch-unavailable"})
      /\ (answer \in AcceptedStates \cup {"dispatch-unavailable"} => told')
    BY <1>6
<1> QED
    BY <1>2, <1>4, <1>5, <1>7

LEMMA GoingOn ==
    ASSUME CallInv, NEW c \in Requesters, NEW at, at \in Serving \cup {"status-ingress", "status-decision", "status-linkage"},
           GoOn(c, at)
    PROVE  /\ request' \in [Requesters -> RequestRecord]
           /\ request'[c].at = at /\ request'[c].asks = request[c].asks
           /\ request'[c].late = request[c].late /\ request'[c].answer = request[c].answer
           /\ \A d \in Requesters : d # c => request'[d] = request[d]
<1>1. request[c] \in RequestRecord /\ request \in [Requesters -> RequestRecord]
    BY DEF CallInv, CallRecords
<1>2. /\ [request[c] EXCEPT !.at = at] \in RequestRecord /\ [request[c] EXCEPT !.at = at].at = at
      /\ [request[c] EXCEPT !.at = at].asks = request[c].asks /\ [request[c] EXCEPT !.at = at].late = request[c].late
      /\ [request[c] EXCEPT !.at = at].answer = request[c].answer
    BY <1>1 DEF RequestRecord
<1> QED
    BY <1>1, <1>2 DEF GoOn

LEMMA AnswersBeside ==
    ASSUME CallInv, NEW c \in Requesters, NEW answer \in Answers, Answer(c, answer), ~Works(c), request[c].at # "joined",
           UNCHANGED <<ledger, carriedOut, diagnostics, unrecorded>>,
           answer \in AcceptedStates => decided = "accepted", answer # "dispatch-unavailable",
           request[c].late /\ request[c].asks = "status" => answer \notin {"not-found", "refused"}
    PROVE  CallInv'
<1>1. \A d \in Requesters : request[d].at = "joined" => ~Works(d) /\ request[d].asks # "status"
    BY DEF CallInv, Asked, Serving, Works, Working
<1>2. \A d \in Requesters : request'[d].at = "answered" => ~Works(d)' /\ request'[d].at \notin Serving
                            /\ request'[d].at \notin {"resolve", "status-ingress", "status-decision", "status-linkage"}
    BY DEF Works, Working, Serving
<1>3. \A d \in Requesters : request[d].late => told
    BY DEF CallInv, Asked
<1> QED
    BY <1>1, <1>2, <1>3, Answering, Bystanding

LEMMA GoesBeside ==
    ASSUME CallInv, NEW c \in Requesters, NEW at, GoOn(c, at), UNCHANGED <<told, ledger, carriedOut, diagnostics, unrecorded>>,
           ~Works(c), at \in (Serving \ Working) \cup {"status-ingress", "status-decision", "status-linkage"},
           at = "status-linkage" => decided = "accepted",
           request[c].asks \in IF at \in Serving THEN Semantics \ {"status"} ELSE {"status"}
    PROVE  CallInv'
<1>1. at \in Serving \cup {"status-ingress", "status-decision", "status-linkage"} /\ at \notin Working /\ at # "resolve"
    BY DEF Working, Serving
<1>2. at \in {"status-ingress", "status-decision", "status-linkage"} => at \notin Serving
    BY DEF Serving, Working
<1>3. \A d \in Requesters : request[d].late => told
    BY DEF CallInv, Asked
<1>4. request[c].late /\ request[c].asks = "status" => request[c].answer \notin {"not-found", "refused"}
    BY DEF CallInv, Asked
<1>5. told \in BOOLEAN /\ told' = told
    BY DEF CallInv, CallRecords
<1> QED
    BY <1>1, <1>2, <1>3, <1>4, <1>5, GoingOn, Bystanding DEF Works
(* A step of the one call that works on the decision, and of those that wait for its answer. *)
LEMMA WorkingOn ==
    ASSUME CallInv, NEW c \in Requesters, request' \in [Requesters -> RequestRecord],
           Works(c) \/ \A d \in Requesters : ~Works(d),
           Works(c)' \/ request'[c].at = "answered", request[c].asks \in Semantics \ {"status"},
           request'[c].asks = request[c].asks, request'[c].late = request[c].late,
           \A d \in Requesters : d # c =>
              \/ request'[d] = request[d]
              \/ /\ request[d].at = "joined" /\ request'[d].at = "answered" /\ request'[d].asks = request[d].asks
                 /\ request'[d].late = request[d].late,
           boundTo' \in Semantics, decided' \in {"none", "accepted", "refused"},
           effectState' \in AcceptedStates \cup {"none"},
           carriedOut' \in BOOLEAN, told' \in BOOLEAN, unrecorded' \in BOOLEAN, told => told',
           decided = "accepted" => decided' = "accepted",
           StoresAgree', Works(c)' => OnTheJob(c)', Mentioned'
    PROVE  CallInv'
<1>1. CallRecords'
    BY DEF CallRecords
<1>2. \A d \in Requesters : d # c => ~Works(d) /\ ~Works(d)'
    <2>1. ASSUME NEW d \in Requesters, d # c
          PROVE  ~Works(d) /\ ~Works(d)'
        <3>1. ~Works(d)
            BY <2>1 DEF CallInv, OneWorks
        <3> QED BY <2>1, <3>1 DEF Works, Working
    <2> QED BY <2>1
<1>3. OneWorks'
    <2>1. boundTo' # "none"
        BY CallsAssumption
    <2> QED BY <1>2, <2>1 DEF OneWorks
<1>4. Asked'
    <2>1. \A d \in Requesters : request[d].at = "joined" => request[d].asks \in Semantics \ {"status"}
        BY DEF CallInv, Asked, Serving
    <2>2. request'[c].at \notin {"resolve", "status-ingress", "status-decision", "status-linkage"}
        BY DEF Works, Working
    <2>3. "answered" \notin Serving
        BY DEF Serving, Working
    <2> QED BY <2>1, <2>2, <2>3 DEF CallInv, Asked
<1> QED
    BY <1>1, <1>3, <1>4 DEF CallInv

(* What is known of the call that works. *)
LEMMA Working1 ==
    ASSUME CallInv, NEW c \in Requesters, Works(c)
    PROVE  /\ OnTheJob(c) /\ boundTo \in Semantics /\ request[c].asks \in Semantics \ {"status"} /\ request[c].at \in Working
           /\ request[c].at # "joined" /\ \A d \in Requesters : Works(d) => d = c
           /\ decided \in {"none", "accepted", "refused"} /\ effectState \in AcceptedStates \cup {"none"}
           /\ carriedOut \in BOOLEAN /\ told \in BOOLEAN /\ unrecorded \in BOOLEAN
BY DEF CallInv, CallRecords, OneWorks, Asked, Works, Working, Serving

LEMMA GateUnavailableStep ==
    ASSUME CallInv, NEW c \in Requesters, GateUnavailable(c)
    PROVE  CallInv'
<1>1. /\ Answer(c, "gate-unavailable") /\ UNCHANGED <<ledger, carriedOut, diagnostics, unrecorded>>
      /\ request[c].at \in {"bind", "existing", "decide", "record"} /\ "gate-unavailable" \in Answers
      /\ "gate-unavailable" \notin AcceptedStates \cup {"dispatch-unavailable"}
    BY DEF GateUnavailable, Answers, AcceptedStates
<1>2. CASE ~Works(c)
    BY <1>1, <1>2, AnswersBeside
<1>3. CASE Works(c)
    <2>1. /\ boundTo' = boundTo /\ decided' = decided /\ effectState' = effectState /\ diagnostics' = diagnostics
          /\ carriedOut' = carriedOut /\ unrecorded' = unrecorded
          /\ (RuledOut' <=> RuledOut) /\ (Possible' <=> Possible)
        BY <1>1 DEF ledger, RuledOut, Possible
    <2>2. told' => told
        BY <1>1, Answering
    <2>3. told \in BOOLEAN /\ told' \in BOOLEAN /\ (told => told')
        BY <1>1, Answering, <1>3, Working1
    <2>4. StoresAgree' /\ ~carriedOut /\ decided # "accepted"
        <3>1. request[c].at \in {"decide", "record"}
            BY <1>1, <1>3 DEF Works, Working
        <3>2. decided = "none"
            BY <1>3, <3>1, Working1 DEF OnTheJob
        <3>3. ~carriedOut /\ ~told /\ diagnostics = {}
            BY <3>2 DEF CallInv, StoresAgree
        <3> QED BY <2>1, <2>2, <3>2, <3>3 DEF CallInv, StoresAgree
    <2>5. Mentioned'
        BY <2>1, <2>4 DEF Mentioned
    <2>6. request'[c].at = "answered" /\ ~Works(c)'
        BY <1>1, Answering DEF Works, Working
    <2> QED
        BY <1>1, <1>3, <2>1, <2>3, <2>4, <2>5, <2>6, Answering, Working1, WorkingOn
<1> QED
    BY <1>2, <1>3

LEMMA GateBindStep ==
    ASSUME CallInv, NEW c \in Requesters, GateBind(c)
    PROVE  CallInv'
<1>1. /\ request[c].at = "bind" /\ ~Works(c) /\ request[c].asks \in Semantics \ {"status"}
      /\ UNCHANGED <<decided, effectState, carriedOut, diagnostics, unrecorded>>
      /\ boundTo' = IF boundTo = "none" THEN request[c].asks ELSE boundTo
    BY DEF GateBind, Is, Works, Working, CallInv, Asked, Serving
<1>2. CASE boundTo = "none" /\ Goes(c, "decide")
    <2>1. GoOn(c, "decide") /\ UNCHANGED told /\ "decide" \in Serving
        BY <1>2 DEF Goes, Serving, Working
    <2>2. /\ request' \in [Requesters -> RequestRecord] /\ request'[c].at = "decide"
          /\ request'[c].asks = request[c].asks /\ request'[c].late = request[c].late
          /\ \A d \in Requesters : d # c => request'[d] = request[d]
        BY <2>1, GoingOn
    <2>3. /\ decided = "none" /\ effectState = "none" /\ ~carriedOut /\ ~told /\ diagnostics = {}
          /\ \A d \in Requesters : ~Works(d)
        BY <1>2 DEF CallInv, StoresAgree, OneWorks
    <2>4. boundTo' \in Semantics /\ ~RuledOut' /\ told' \in BOOLEAN /\ carriedOut' \in BOOLEAN /\ unrecorded' \in BOOLEAN
        BY <1>1, <1>2, <2>1, <2>3 DEF RuledOut, CallInv, CallRecords
    <2>5. StoresAgree' /\ OnTheJob(c)' /\ Mentioned'
        BY <1>1, <2>1, <2>2, <2>3, <2>4, CallsAssumption DEF StoresAgree, OnTheJob, Mentioned
    <2>6. Works(c)'
        BY <2>2 DEF Works, Working
    <2> QED
        BY <1>1, <2>1, <2>2, <2>3, <2>4, <2>5, <2>6, WorkingOn
<1>3. CASE boundTo # "none" /\ (Goes(c, "existing") \/ Answer(c, "refused"))
    <2>1. UNCHANGED <<ledger, carriedOut, diagnostics, unrecorded>>
        BY <1>1, <1>3 DEF ledger
    <2>2. CASE Goes(c, "existing")
        BY <1>1, <2>1, <2>2, GoesBeside DEF Goes, Serving, Working
    <2>3. CASE Answer(c, "refused")
        BY <1>1, <2>1, <2>3, AnswersBeside DEF Answers, AcceptedStates
    <2> QED BY <1>3, <2>2, <2>3
<1> QED
    <2>1. boundTo = "none" => Goes(c, "decide")
        BY <1>1, CallsAssumption DEF GateBind
    <2>2. boundTo # "none" /\ boundTo = request[c].asks => Goes(c, "existing")
        BY DEF GateBind
    <2>3. boundTo # "none" /\ boundTo # request[c].asks => Answer(c, "refused")
        BY DEF GateBind
    <2> QED BY <1>2, <1>3, <2>1, <2>2, <2>3

LEMMA GateExistingStep ==
    ASSUME CallInv, NEW c \in Requesters, GateExisting(c)
    PROVE  CallInv'
<1> DEFINE answer == CASE decided = "none" -> "decision-missing" [] decided = "refused" -> "refused"
                       [] OTHER -> effectState
<1>1. /\ Answer(c, answer) /\ UNCHANGED <<ledger, carriedOut, diagnostics, unrecorded>>
      /\ request[c].at = "existing" /\ ~Works(c) /\ request[c].asks # "status"
    BY DEF GateExisting, Is, Works, Working, CallInv, Asked, Serving
<1>2. /\ answer \in Answers /\ answer # "dispatch-unavailable"
      /\ answer \in AcceptedStates => decided = "accepted"
    <2>1. decided \in {"none", "accepted", "refused"} /\ effectState \in AcceptedStates \cup {"none"}
        BY DEF CallInv, CallRecords
    <2>2. CASE decided = "none"
        BY <2>2 DEF Answers, AcceptedStates
    <2>3. CASE decided = "refused"
        BY <2>3 DEF Answers, AcceptedStates
    <2>4. CASE decided = "accepted"
        BY <2>1, <2>4 DEF Answers, AcceptedStates
    <2> QED BY <2>1, <2>2, <2>3, <2>4
<1> HIDE DEF answer
<1> QED
    BY <1>1, <1>2, AnswersBeside

LEMMA GateReserveStep ==
    ASSUME CallInv, NEW c \in Requesters, GateReserve(c)
    PROVE  CallInv'
<1>1. /\ Works(c) /\ request[c].at = "decide" /\ effectState' \in {"none", "reserved"} /\ GoOn(c, "record")
      /\ UNCHANGED <<told, boundTo, decided, carriedOut, diagnostics, unrecorded>>
    BY DEF GateReserve, Is, Works, Working, Goes
<1>2. decided = "none" /\ ~carriedOut /\ ~told /\ diagnostics = {}
    BY <1>1, Working1 DEF OnTheJob, CallInv, StoresAgree
<1>3. /\ request' \in [Requesters -> RequestRecord] /\ request'[c].at = "record" /\ request'[c].asks = request[c].asks
      /\ request'[c].late = request[c].late /\ \A d \in Requesters : d # c => request'[d] = request[d]
    BY <1>1, GoingOn DEF Serving, Working
<1>4. effectState' \in AcceptedStates \cup {"none"} /\ ~RuledOut' /\ Works(c)' /\ boundTo # "none"
    BY <1>1, <1>2, <1>3, Working1, CallsAssumption DEF AcceptedStates, RuledOut, Works, Working
<1>5. StoresAgree' /\ OnTheJob(c)' /\ Mentioned'
    BY <1>1, <1>2, <1>3, <1>4 DEF StoresAgree, OnTheJob, Mentioned
<1> QED
    BY <1>1, <1>2, <1>3, <1>4, <1>5, Working1, WorkingOn

LEMMA GateRecordStep ==
    ASSUME CallInv, NEW c \in Requesters, GateRecord(c)
    PROVE  CallInv'
<1>1. /\ Works(c) /\ request[c].at = "record" /\ boundTo # "none"
      /\ decided' = (IF effectState = "none" THEN "refused" ELSE "accepted")
      /\ UNCHANGED <<boundTo, effectState, carriedOut, diagnostics, unrecorded>>
    BY Working1, CallsAssumption DEF GateRecord, Is, Works, Working
<1>2. decided = "none" /\ ~carriedOut /\ ~told /\ diagnostics = {} /\ effectState \in {"none", "reserved"}
    BY <1>1, Working1 DEF OnTheJob, CallInv, StoresAgree
<1>3. CASE effectState = "none" /\ Answer(c, "refused")
    <2>1. "refused" \in Answers /\ "refused" \notin AcceptedStates \cup {"dispatch-unavailable"}
        BY DEF Answers, AcceptedStates
    <2>2. ~told' /\ told' \in BOOLEAN
        BY <1>1, <1>2, <1>3, <2>1, Answering, Working1
    <2>3. request'[c].at = "answered" /\ ~Works(c)'
        BY <1>1, <1>3, <2>1, Answering, Working1 DEF Works, Working
    <2>4. StoresAgree' /\ Mentioned'
        <3>1. ~RuledOut'
            BY <1>1, <1>2 DEF RuledOut
        <3> QED BY <1>1, <1>2, <1>3, <2>2, <3>1 DEF StoresAgree, Mentioned
    <2> QED
        BY <1>1, <1>2, <1>3, <2>1, <2>2, <2>3, <2>4, Answering, Working1, WorkingOn
<1>4. CASE effectState # "none" /\ Goes(c, "commit")
    <2>1. /\ request' \in [Requesters -> RequestRecord] /\ request'[c].at = "commit" /\ request'[c].asks = request[c].asks
          /\ request'[c].late = request[c].late /\ \A d \in Requesters : d # c => request'[d] = request[d]
          /\ told' = told /\ Works(c)'
        BY <1>4, GoingOn DEF Serving, Working, Goes, Works
    <2>2. ~RuledOut'
        BY <1>1, <1>2 DEF RuledOut
    <2>3. StoresAgree' /\ OnTheJob(c)' /\ Mentioned'
        BY <1>1, <1>2, <1>4, <2>1, <2>2 DEF StoresAgree, OnTheJob, Mentioned
    <2> QED
        BY <1>1, <1>2, <1>4, <2>1, <2>3, Working1, WorkingOn
<1> QED
    BY <1>3, <1>4 DEF GateRecord

(* The steps of a dispatch that go on to another. *)
LEMMA DispatchGoesOn ==
    ASSUME CallInv, NEW c \in Requesters, NEW to, to \in {"publish", "send", "settle", "linkage", "diagnose", "diagnose-unsent"},
           request[c].at \in Dispatching, Goes(c, to), UNCHANGED <<boundTo, decided, diagnostics, unrecorded>>,
           effectState' \in AcceptedStates, carriedOut' \in BOOLEAN,
           carriedOut' => effectState' \in {"dispatched", "ambiguous", "acknowledged"} /\ to \in {"settle", "linkage", "diagnose"},
           to \in {"publish", "send", "settle", "diagnose-unsent"} => effectState' = "dispatched",
           to = "linkage" => effectState' \in {"ambiguous", "acknowledged", "definitive-failure"}
    PROVE  CallInv'
<1>1. Works(c) /\ boundTo # "none"
    BY Working1, CallsAssumption DEF Works, Working, Dispatching
<1>2. decided = "accepted" /\ ~RuledOut
    BY <1>1, Working1 DEF OnTheJob, Dispatching
<1>3. /\ request' \in [Requesters -> RequestRecord] /\ request'[c].at = to /\ request'[c].asks = request[c].asks
      /\ request'[c].late = request[c].late /\ \A d \in Requesters : d # c => request'[d] = request[d]
      /\ told' = told /\ Works(c)'
    BY GoingOn DEF Serving, Working, Goes, Works
<1>4. ~RuledOut' /\ effectState' # "none"
    BY <1>2 DEF RuledOut, AcceptedStates
<1>5. StoresAgree' /\ OnTheJob(c)' /\ Mentioned'
    BY <1>1, <1>2, <1>3, <1>4 DEF StoresAgree, OnTheJob, Mentioned
<1> QED
    BY <1>1, <1>2, <1>3, <1>5, Working1, WorkingOn

LEMMA DispatchSteps ==
    ASSUME CallInv, NEW c \in Requesters,
           CommitDispatch(c) \/ PublishReservation(c) \/ SendRequest(c) \/ SettleDispatch(c) \/ DispatchThrows(c)
    PROVE  CallInv'
<1>1. request[c].at \in Dispatching /\ Works(c) /\ effectState \in AcceptedStates \cup {"none"} /\ carriedOut \in BOOLEAN
    BY Working1 DEF CommitDispatch, PublishReservation, SendRequest, SettleDispatch, DispatchThrows, Is, Dispatching,
                    Works, Working
<1>2. /\ decided = "accepted" /\ effectState # "none" /\ OnTheJob(c)
      /\ carriedOut => effectState \in {"dispatched", "ambiguous", "acknowledged"}
    BY <1>1, Working1 DEF OnTheJob, Dispatching, CallInv, StoresAgree
<1>3. CASE CommitDispatch(c)
    BY <1>1, <1>2, <1>3, DispatchGoesOn DEF CommitDispatch, Is, OnTheJob, Dispatching, AcceptedStates
<1>4. CASE PublishReservation(c)
    BY <1>1, <1>2, <1>4, DispatchGoesOn DEF PublishReservation, Is, OnTheJob, Dispatching, AcceptedStates, ledger
<1>5. CASE SendRequest(c)
    BY <1>1, <1>2, <1>5, DispatchGoesOn DEF SendRequest, Is, OnTheJob, Dispatching, AcceptedStates, ledger
<1>6. CASE SettleDispatch(c)
    BY <1>1, <1>2, <1>6, DispatchGoesOn DEF SettleDispatch, Is, OnTheJob, Dispatching, AcceptedStates
<1>7. CASE DispatchThrows(c)
    <2> DEFINE to == IF Is(c, "publish") THEN "diagnose-unsent" ELSE "diagnose"
    <2>1. /\ Goes(c, to) /\ UNCHANGED <<boundTo, decided, carriedOut, diagnostics, unrecorded>>
          /\ effectState' \in IF Is(c, "commit") THEN {effectState, "dispatched"}
                              ELSE IF Is(c, "settle") THEN {effectState, "ambiguous"} ELSE {effectState}
        BY <1>7 DEF DispatchThrows
    <2>2. effectState' \in {effectState, "dispatched", "ambiguous"} /\ (Is(c, "publish") => effectState' = effectState)
        BY <2>1 DEF Is
    <2>3. /\ to \in {"diagnose", "diagnose-unsent"}
          /\ to = "diagnose-unsent" => effectState' = "dispatched" /\ ~carriedOut
        BY <1>2, <2>2 DEF Is, OnTheJob
    <2> HIDE DEF to
    <2> QED BY <1>1, <1>2, <2>1, <2>2, <2>3, DispatchGoesOn DEF AcceptedStates
<1> QED
    BY <1>3, <1>4, <1>5, <1>6, <1>7

LEMMA AnswerAcceptedStep ==
    ASSUME CallInv, NEW c \in Requesters, AnswerAccepted(c)
    PROVE  CallInv'
<1>1. /\ Works(c) /\ request[c].at = "linkage" /\ Answer(c, effectState) /\ boundTo # "none"
      /\ boundTo' = boundTo /\ decided' = decided /\ effectState' = effectState /\ carriedOut' = carriedOut
      /\ diagnostics' = diagnostics /\ unrecorded' = unrecorded
    BY Working1, CallsAssumption DEF AnswerAccepted, Is, Works, Working, ledger
<1>2. /\ decided = "accepted" /\ effectState \in {"ambiguous", "acknowledged", "definitive-failure"} /\ ~RuledOut
      /\ effectState \in Answers /\ effectState \in AcceptedStates
    BY <1>1, Working1 DEF OnTheJob, AcceptedStates, Answers
<1>3. told' /\ told' \in BOOLEAN /\ request'[c].at = "answered" /\ ~Works(c)'
    BY <1>1, <1>2, Answering DEF Works, Working
<1>4. ~RuledOut'
    BY <1>1, <1>2 DEF RuledOut
<1>5. StoresAgree' /\ Mentioned'
    BY <1>1, <1>2, <1>3, <1>4 DEF StoresAgree, Mentioned, CallInv
<1> QED
    BY <1>1, <1>2, <1>3, <1>5, Answering, Working1, WorkingOn

LEMMA RecordDiagnosticStep ==
    ASSUME CallInv, NEW c \in Requesters, RecordDiagnostic(c)
    PROVE  CallInv'
<1>1. /\ Works(c) /\ request[c].at \in {"diagnose", "diagnose-unsent"} /\ Answer(c, "dispatch-unavailable")
      /\ boundTo' = boundTo /\ decided' = decided /\ effectState' = effectState /\ carriedOut' = carriedOut
      /\ boundTo # "none" /\ "dispatch-unavailable" \in Answers
    BY Working1, CallsAssumption DEF RecordDiagnostic, Is, Works, Working, ledger, Answers
<1>2. /\ decided = "accepted" /\ ~RuledOut /\ (request[c].at = "diagnose-unsent" => ~carriedOut)
      /\ unrecorded \in BOOLEAN
    BY <1>1, Working1 DEF OnTheJob
<1>3. told' /\ told' \in BOOLEAN /\ request'[c].at = "answered" /\ ~Works(c)'
    BY <1>1, Answering DEF Works, Working
<1>4. \/ diagnostics' = diagnostics \cup {ProviderEffectPossible(c)} /\ unrecorded' = unrecorded
      \/ unrecorded' = TRUE /\ diagnostics' = diagnostics
    BY DEF RecordDiagnostic
<1>5. /\ RuledOut' => ~carriedOut
      /\ request[c].at = "diagnose" => Possible' \/ unrecorded'
      /\ unrecorded' \in BOOLEAN
    <2>1. CASE unrecorded' = TRUE /\ diagnostics' = diagnostics
        BY <1>2, <2>1 DEF RuledOut
    <2>2. CASE diagnostics' = diagnostics \cup {ProviderEffectPossible(c)} /\ unrecorded' = unrecorded
        <3>1. CASE request[c].at = "diagnose"
            <4>1. ProviderEffectPossible(c)
                BY <3>1 DEF ProviderEffectPossible, Is
            <4>2. diagnostics' = diagnostics \cup {TRUE}
                BY <2>2, <4>1
            <4> QED BY <1>2, <2>2, <3>1, <4>2 DEF RuledOut, Possible
        <3>2. CASE request[c].at = "diagnose-unsent"
            BY <1>2, <2>2, <3>2
        <3> QED BY <1>1, <3>1, <3>2
    <2> QED BY <1>4, <2>1, <2>2
<1>6. StoresAgree' /\ Mentioned'
    BY <1>1, <1>2, <1>3, <1>5 DEF StoresAgree, Mentioned, CallInv
<1> QED
    BY <1>1, <1>2, <1>3, <1>5, <1>6, Answering, Working1, WorkingOn

LEMMA StatusSteps ==
    ASSUME CallInv, NEW c \in Requesters, StatusIngress(c) \/ StatusDecision(c) \/ StatusLinkage(c)
    PROVE  CallInv'
<1>1. /\ request[c].at \in {"status-ingress", "status-decision", "status-linkage"} /\ ~Works(c)
      /\ request[c].asks = "status"
      /\ UNCHANGED <<ledger, carriedOut, diagnostics, unrecorded>>
    BY DEF StatusIngress, StatusDecision, StatusLinkage, Status, Is, Works, Working, CallInv, Asked
<1>2. request[c].late => decided = "accepted" /\ boundTo # "none" /\ effectState # "none"
    BY DEF CallInv, Asked, StoresAgree
<1>3. CASE Answer(c, "status-unavailable")
    BY <1>1, <1>3, AnswersBeside DEF Answers, AcceptedStates
<1>4. CASE Answer(c, "not-found") /\ (boundTo = "none" \/ decided = "none" \/ effectState = "none")
    BY <1>1, <1>2, <1>4, AnswersBeside DEF Answers, AcceptedStates
<1>5. CASE Answer(c, "refused") /\ decided = "refused"
    BY <1>1, <1>2, <1>5, AnswersBeside DEF Answers, AcceptedStates
<1>6. CASE Answer(c, effectState) /\ effectState # "none" /\ request[c].at = "status-linkage"
    <2>1. /\ effectState \in Answers /\ effectState # "dispatch-unavailable" /\ decided = "accepted"
          /\ effectState \notin {"not-found", "refused"}
        BY <1>6 DEF CallInv, CallRecords, Asked, Answers, AcceptedStates
    <2> QED BY <1>1, <1>6, <2>1, AnswersBeside
<1>7. ASSUME NEW to \in {"status-decision", "status-linkage"}, Goes(c, to), to = "status-linkage" => decided = "accepted"
      PROVE  CallInv'
    BY <1>1, <1>7, GoesBeside DEF Goes, Serving, Working
<1>8. decided \in {"none", "accepted", "refused"}
    BY DEF CallInv, CallRecords
<1> QED
    BY <1>3, <1>4, <1>5, <1>6, <1>7, <1>8 DEF StatusIngress, StatusDecision, StatusLinkage, Status, Is

LEMMA ArrivalSteps ==
    ASSUME CallInv, NEW c \in Requesters,
           RequestArrives(c) \/ ResolvePrincipal(c) \/ ResolveBoundJobs(c) \/ Invoke(c)
    PROVE  CallInv'
<1>1. CASE RequestArrives(c)
    <2>1. PICK asks \in Semantics \cup {"status"} :
              request' = [request EXCEPT ![c] = [NoRequest EXCEPT !.at = "resolve", !.asks = asks, !.late = told]]
        BY <1>1 DEF RequestArrives
    <2> DEFINE next == [NoRequest EXCEPT !.at = "resolve", !.asks = asks, !.late = told]
    <2>2. /\ next \in RequestRecord /\ next.at = "resolve" /\ next.asks = asks /\ next.late = told /\ next.answer = "none"
        <3>1. told \in BOOLEAN /\ NoRequest \in RequestRecord /\ NoRequest.answer = "none"
            BY DEF CallInv, CallRecords, NoRequest, RequestRecord, Answers
        <3> QED BY <3>1 DEF RequestRecord
    <2>3. /\ request' \in [Requesters -> RequestRecord] /\ request'[c] = next
          /\ \A d \in Requesters : d # c => request'[d] = request[d]
        BY <2>1, <2>2 DEF CallInv, CallRecords
    <2> HIDE DEF next
    <2>4. ~Works(c) /\ ~Works(c)' /\ "resolve" \notin Serving
        BY <1>1, <2>2, <2>3 DEF RequestArrives, Works, Working, Serving
    <2>5. UNCHANGED <<ledger, carriedOut, diagnostics, unrecorded, told>> /\ told \in BOOLEAN
        BY <1>1 DEF RequestArrives, CallInv, CallRecords
    <2> QED BY <2>2, <2>3, <2>4, <2>5, Bystanding
<1>2. CASE ResolvePrincipal(c)
    <2>1. /\ request[c].at = "resolve" /\ ~Works(c) /\ request[c].asks \in Semantics \cup {"status"}
          /\ UNCHANGED <<ledger, carriedOut, diagnostics, unrecorded>>
        BY <1>2 DEF ResolvePrincipal, Is, Works, Working, CallInv, Asked
    <2>2. CASE Answer(c, "authentication-required")
        BY <2>1, <2>2, AnswersBeside DEF Answers, AcceptedStates
    <2>3. CASE Goes(c, "status-ingress") /\ request[c].asks = "status"
        BY <2>1, <2>3, GoesBeside DEF Goes, Serving, Working
    <2>4. CASE Goes(c, "jobs") /\ request[c].asks # "status"
        BY <2>1, <2>4, GoesBeside DEF Goes, Serving, Working
    <2> QED BY <1>2, <2>2, <2>3, <2>4 DEF ResolvePrincipal
<1>3. CASE ResolveBoundJobs(c) \/ Invoke(c)
    <2>1. /\ request[c].at \in {"jobs", "invoke"} /\ ~Works(c) /\ request[c].asks \in Semantics \ {"status"}
          /\ UNCHANGED <<ledger, carriedOut, diagnostics, unrecorded>>
        BY <1>3 DEF ResolveBoundJobs, Invoke, Is, Works, Working, CallInv, Asked, Serving
    <2>2. CASE Answer(c, "job-authority-refused") \/ Answer(c, "request-id-conflict")
        BY <2>1, <2>2, AnswersBeside DEF Answers, AcceptedStates
    <2>3. ASSUME NEW to \in {"invoke", "bind", "joined"}, GoOn(c, to), UNCHANGED told
          PROVE  CallInv'
        BY <2>1, <2>3, GoesBeside DEF Serving, Working
    <2> QED BY <1>3, <2>2, <2>3 DEF ResolveBoundJobs, Invoke, Goes
<1> QED
    BY <1>1, <1>2, <1>3

LEMMA HostStopsStep ==
    ASSUME CallInv, HostStops
    PROVE  CallInv'
<1>1. NoRequest \in RequestRecord /\ NoRequest.at = "rest" /\ ~NoRequest.late
    BY DEF NoRequest, RequestRecord, Answers
<1>2. /\ request' \in [Requesters -> RequestRecord] /\ \A c \in Requesters : request'[c] = NoRequest
      /\ boundTo' = boundTo /\ decided' = decided /\ effectState' = effectState /\ carriedOut' = carriedOut
      /\ diagnostics' = diagnostics /\ told' = told /\ (RuledOut' <=> RuledOut) /\ (Possible' <=> Possible)
    BY <1>1 DEF HostStops, ledger, RuledOut, Possible
<1>3. /\ unrecorded' \in BOOLEAN /\ (unrecorded => unrecorded')
      /\ (\E c \in Requesters : request[c].at \in {"settle", "linkage", "diagnose"}) => unrecorded'
    BY DEF HostStops, CallInv, CallRecords, Dispatching
<1>4. \A c \in Requesters : ~Works(c)'
    BY <1>1, <1>2 DEF Works, Working
<1>5. CallRecords'
    BY <1>2, <1>3 DEF CallInv, CallRecords
<1>6. StoresAgree' /\ OneWorks'
    BY <1>2, <1>4 DEF CallInv, StoresAgree, OneWorks
<1>7. Mentioned'
    <2>1. CASE carriedOut
        BY <1>2, <1>3, <2>1 DEF CallInv, Mentioned
    <2>2. CASE ~carriedOut
        BY <1>2, <2>2 DEF Mentioned
    <2> QED BY <2>1, <2>2
<1>8. Asked'
    BY <1>1, <1>2 DEF Asked, Serving, Working
<1> QED
    BY <1>5, <1>6, <1>7, <1>8 DEF CallInv

LEMMA CallsStep == ASSUME CallInv, [CallsNext]_callVars PROVE CallInv'
<1>1. CASE CredentialRevoked \/ GrantRevoked \/ UNCHANGED callVars
    <2>1. UNCHANGED <<request, ledger, carriedOut, diagnostics, unrecorded, told>>
        BY <1>1 DEF CredentialRevoked, GrantRevoked, callVars, ledger
    <2>2. request \in [Requesters -> RequestRecord] /\ told \in BOOLEAN
        BY DEF CallInv, CallRecords
    <2> QED BY <2>1, <2>2, Bystanding
<1>2. ASSUME NEW c \in Requesters,
         \/ RequestArrives(c) \/ ResolvePrincipal(c) \/ ResolveBoundJobs(c) \/ Invoke(c)
         \/ GateUnavailable(c) \/ GateBind(c) \/ GateExisting(c) \/ GateReserve(c) \/ GateRecord(c)
         \/ CommitDispatch(c) \/ PublishReservation(c) \/ SendRequest(c) \/ SettleDispatch(c)
         \/ AnswerAccepted(c) \/ DispatchThrows(c) \/ RecordDiagnostic(c)
         \/ StatusIngress(c) \/ StatusDecision(c) \/ StatusLinkage(c)
      PROVE  CallInv'
    BY <1>2, ArrivalSteps, GateUnavailableStep, GateBindStep, GateExistingStep, GateReserveStep, GateRecordStep,
       DispatchSteps, AnswerAcceptedStep, RecordDiagnosticStep, StatusSteps
<1> QED
    BY <1>1, <1>2, HostStopsStep DEF CallsNext

(* Whatever requests of an id arrive, join, repeat and fail, and however often the host     *)
(* stops: a diagnostic that rules an effect out is right for ever, what somebody was told    *)
(* of a reservation is found by every later status request, and an effect carried out is    *)
(* acknowledged or called possible (outcome() and its catch, status()).                    *)
THEOREM CallersAreToldTheTruth == CallsSpec => []CallsAreTrue
<1>1. ASSUME CallInv
      PROVE  CallsAreTrue
    <2>1. DiagnosisIsHonest
        BY <1>1 DEF CallInv, Mentioned, RuledOut, DiagnosisIsHonest
    <2>2. ToldIsFound
        BY <1>1 DEF CallInv, Asked, ToldIsFound
    <2>3. EffectAccounted
        BY <1>1 DEF CallInv, StoresAgree, Mentioned, Possible, EffectAccounted
    <2> QED BY <2>1, <2>2, <2>3 DEF CallsAreTrue
<1> QED
    BY <1>1, CallsStart, CallsStep, PTL DEF CallsSpec
-----------------------------------------------------------------------------
(* The writes of a release. *)

RunRecord == [req : Requests \cup {"none"}, w : Writes \cup {"none"},
              at : {"idle", "read", "check", "final", "send", "confirm"}]

WritesOf(r)      == {FirstWrite[EffectOf[r]], LastWrite[EffectOf[r]]}
Crossed(r, w)    == Has(r, <<w, "dispatching">>)

SagaRecords ==
    /\ journal \in [Requests -> Seq(Phases)] /\ run \in RunRecord /\ writes \in [Writes -> Nat]

(* What an invocation that is at step x.at of a request knows about its write. *)
Underway(x) ==
    x.at # "idle" =>
        /\ x.req \in Requests /\ journal[x.req] # <<>> /\ x.w \in WritesOf(x.req)
        /\ x.at = "check" => ~Crossed(x.req, x.w)
        /\ x.at \in {"final", "send"} => Crossed(x.req, x.w) /\ writes[x.w] = 0

OneEach == \A q, r \in Requests :
               journal[q] # <<>> /\ journal[r] # <<>> /\ EffectOf[q] = EffectOf[r] => q = r

(* What was sent crossed the boundary in the journal of a request whose effect it is part of. *)
SentCrossed == \A w \in Writes : writes[w] > 0 => \E r \in Requests : w \in WritesOf(r) /\ Crossed(r, w)

SagaInv == SagaRecords /\ Underway(run) /\ OneEach /\ SentCrossed /\ WrittenOnce

LEMMA Appended ==
    ASSUME NEW S, NEW s \in Seq(S), NEW e \in S
    PROVE  /\ Append(s, e) \in Seq(S) /\ Append(s, e) # <<>>
           /\ \A x : Contains(Append(s, e), x) <=> Contains(s, x) \/ x = e
<1>1. /\ Append(s, e) \in Seq(S) /\ Len(Append(s, e)) = Len(s) + 1 /\ Len(s) \in Nat
      /\ \A i \in 1..Len(s) : Append(s, e)[i] = s[i]
      /\ Append(s, e)[Len(s) + 1] = e
    OBVIOUS
<1>2. Append(s, e) # <<>>
    BY <1>1
<1>3. ASSUME NEW x, Contains(Append(s, e), x), x # e
      PROVE  Contains(s, x)
    <2>1. PICK i \in 1..(Len(s) + 1) : Append(s, e)[i] = x
        BY <1>1, <1>3 DEF Contains
    <2>2. i \in 1..Len(s)
        BY <1>1, <1>3, <2>1
    <2>3. s[i] = x
        BY <1>1, <2>1, <2>2
    <2> QED
        BY <2>2, <2>3 DEF Contains
<1>4. ASSUME NEW x, Contains(s, x)
      PROVE  Contains(Append(s, e), x)
    <2>1. PICK i \in 1..Len(s) : s[i] = x
        BY <1>4 DEF Contains
    <2>2. i \in 1..(Len(s) + 1) /\ Append(s, e)[i] = x
        BY <1>1, <2>1
    <2> QED
        BY <1>1, <2>2 DEF Contains
<1>5. Contains(Append(s, e), e)
    <2>1. Len(s) + 1 \in 1..(Len(s) + 1)
        BY <1>1
    <2> QED
        BY <1>1, <2>1 DEF Contains
<1> QED
    BY <1>1, <1>2, <1>3, <1>4, <1>5

LEMMA SagaStart == SagaInit => SagaInv
<1> SUFFICES ASSUME SagaInit
             PROVE  SagaInv
    OBVIOUS
<1> QED
    BY DEF SagaInit, SagaInv, SagaRecords, RunRecord, Idle, Underway, OneEach, SentCrossed, WrittenOnce

LEMMA WritesKnown ==
    /\ \A r \in Requests : WritesOf(r) \subseteq Writes
    /\ \A q, r \in Requests : \A w : w \in WritesOf(q) /\ w \in WritesOf(r) => EffectOf[q] = EffectOf[r]
<1>1. /\ FirstWrite["candidate-branch"] = "branch" /\ FirstWrite["draft-pr"] = "pr"
      /\ FirstWrite["exact-sha-merge"] = "merge" /\ FirstWrite["non-force-tag"] = "tag"
      /\ DOMAIN FirstWrite = Effects /\ FirstWrite = [e \in Effects |-> FirstWrite[e]]
    BY DEF FirstWrite, Effects
<1>0. \A e \in Effects : LastWrite[e] = IF e = "draft-pr" THEN "pr-ready" ELSE FirstWrite[e]
    BY <1>1 DEF LastWrite
<1>2. /\ FirstWrite["candidate-branch"] = "branch" /\ LastWrite["candidate-branch"] = "branch"
      /\ FirstWrite["draft-pr"] = "pr" /\ LastWrite["draft-pr"] = "pr-ready"
      /\ FirstWrite["exact-sha-merge"] = "merge" /\ LastWrite["exact-sha-merge"] = "merge"
      /\ FirstWrite["non-force-tag"] = "tag" /\ LastWrite["non-force-tag"] = "tag"
    BY <1>0, <1>1 DEF Effects
<1>3. \A r \in Requests : EffectOf[r] \in Effects
    BY SagaAssumption
<1>4. \A e \in Effects : FirstWrite[e] \in Writes /\ LastWrite[e] \in Writes
    BY <1>2 DEF Effects, Writes
<1>5. \A d, e \in Effects : {FirstWrite[d], LastWrite[d]} \cap {FirstWrite[e], LastWrite[e]} # {} => d = e
    BY <1>2 DEF Effects
<1> QED
    BY <1>3, <1>4, <1>5 DEF WritesOf

(* An entry that is not a dispatching boundary is added to a journal that has begun. *)
Notes == \/ journal' = journal
         \/ \E r \in Requests, phase \in Phases :
               /\ journal[r] # <<>> /\ phase[2] # "dispatching"
               /\ journal' = [journal EXCEPT ![r] = Append(@, phase)]

(* The journals as a step leaves them that crosses no boundary. *)
LEMMA NotesCross ==
    ASSUME SagaInv, Notes
    PROVE  /\ journal' \in [Requests -> Seq(Phases)]
           /\ \A r \in Requests : journal'[r] # <<>> <=> journal[r] # <<>>
           /\ \A r \in Requests : \A w : Crossed(r, w)' <=> Crossed(r, w)
<1>0. journal \in [Requests -> Seq(Phases)]
    BY DEF SagaInv, SagaRecords
<1>1. CASE journal' = journal
    BY <1>0, <1>1 DEF Crossed, Has
<1>2. ASSUME NEW r \in Requests, NEW phase \in Phases, journal[r] # <<>>, phase[2] # "dispatching",
             journal' = [journal EXCEPT ![r] = Append(@, phase)]
      PROVE  /\ journal' \in [Requests -> Seq(Phases)]
             /\ \A q \in Requests : journal'[q] # <<>> <=> journal[q] # <<>>
             /\ \A q \in Requests : \A w : Crossed(q, w)' <=> Crossed(q, w)
    <2>1. /\ journal'[r] = Append(journal[r], phase) /\ journal[r] \in Seq(Phases)
          /\ \A q \in Requests : q # r => journal'[q] = journal[q]
        BY <1>0, <1>2
    <2>2. /\ journal'[r] \in Seq(Phases) /\ journal'[r] # <<>>
          /\ \A x : Contains(journal'[r], x) <=> Contains(journal[r], x) \/ x = phase
        BY <2>1, Appended
    <2>3. \A w : <<w, "dispatching">> # phase
        BY <1>2
    <2>4. journal' \in [Requests -> Seq(Phases)]
        BY <1>0, <1>2, <2>1, <2>2
    <2>5. \A q \in Requests : \A w : Crossed(q, w)' <=> Crossed(q, w)
        BY <2>1, <2>2, <2>3 DEF Crossed, Has
    <2> QED
        BY <1>2, <2>1, <2>2, <2>4, <2>5
<1> QED
    BY <1>1, <1>2 DEF Notes

LEMMA NothingCrosses ==
    ASSUME SagaInv, Notes, NEW next \in RunRecord, Underway(next), run' = next, writes' = writes
    PROVE  SagaInv'
<1>1. /\ journal' \in [Requests -> Seq(Phases)]
      /\ \A r \in Requests : journal'[r] # <<>> <=> journal[r] # <<>>
      /\ \A r \in Requests : \A w : Crossed(r, w)' <=> Crossed(r, w)
    BY NotesCross
<1>2. SagaRecords'
    BY <1>1 DEF SagaInv, SagaRecords
<1>3. Underway(run)'
    BY <1>1 DEF Underway
<1>4. OneEach' /\ SentCrossed' /\ WrittenOnce'
    BY <1>1 DEF SagaInv, OneEach, SentCrossed, WrittenOnce
<1> QED
    BY <1>2, <1>3, <1>4 DEF SagaInv

LEMMA IdleUnderway == Underway(Idle) /\ Idle \in RunRecord
BY DEF Underway, Idle, RunRecord

(* The phases that an invocation may note without crossing a boundary. *)
LEMMA PhasesKnown ==
    /\ {AUTHORIZED, EXPIRED, REFUSED, RECEIPTED} \subseteq Phases
    /\ {<<"content", "intent">>, <<"content", "confirmed">>} \subseteq Phases
    /\ \A w \in Writes : {<<w, "intent">>, <<w, "dispatching">>, <<w, "confirmed">>} \subseteq Phases
    /\ \A w : <<w, "intent">>[2] # "dispatching" /\ <<w, "confirmed">>[2] # "dispatching"
    /\ EXPIRED[2] # "dispatching" /\ REFUSED[2] # "dispatching" /\ RECEIPTED[2] # "dispatching"
BY DEF AUTHORIZED, EXPIRED, REFUSED, RECEIPTED, Phases

(* Every way an invocation ends leaves notes at most. *)
LEMMA EndingNotes ==
    ASSUME SagaInv, run.at # "idle", ReadFails \/ Expires \/ Throws \/ Refuses \/ Uncertain
    PROVE  Notes /\ run' = Idle
<1>1. run.req \in Requests /\ journal[run.req] # <<>>
    BY DEF SagaInv, Underway
<1> QED
    BY <1>1, PhasesKnown DEF ReadFails, Expires, Throws, Refuses, Uncertain, Notes, Report, Append1

LEMMA InvocationEnds ==
    ASSUME SagaInv, run.at # "idle", ReadFails \/ Expires \/ Throws \/ Refuses \/ Uncertain,
           writes' = writes
    PROVE  SagaInv'
BY EndingNotes, NothingCrosses, IdleUnderway

LEMMA StepNotes ==
    ASSUME SagaInv, run.at # "idle", NEW phase \in Phases, phase[2] # "dispatching", Step(phase)
    PROVE  Notes
<1>1. run.req \in Requests /\ journal[run.req] # <<>>
    BY DEF SagaInv, Underway
<1> QED
    BY <1>1 DEF Step, Append1, Notes

(* Going on to read or to confirm, nothing need be known of the write. *)
LEMMA RidesOn ==
    ASSUME SagaInv, run.at # "idle", NEW step \in {"read", "confirm"}
    PROVE  /\ run.req \in Requests /\ journal[run.req] # <<>> /\ run.w \in WritesOf(run.req) /\ run.w \in Writes
           /\ LastWrite[EffectOf[run.req]] \in Writes
           /\ \A w \in WritesOf(run.req) :
                  LET next == [run EXCEPT !.at = step, !.w = w] IN next \in RunRecord /\ Underway(next)
           /\ [run EXCEPT !.at = step] \in RunRecord /\ Underway([run EXCEPT !.at = step])
<1>1. /\ run \in RunRecord /\ run.req \in Requests /\ journal[run.req] # <<>>
      /\ run.w \in WritesOf(run.req) /\ run.w \in Writes
    BY WritesKnown DEF SagaInv, SagaRecords, Underway
<1>2. ASSUME NEW w \in WritesOf(run.req)
      PROVE  LET next == [run EXCEPT !.at = step, !.w = w] IN next \in RunRecord /\ Underway(next)
    <2> DEFINE next == [run EXCEPT !.at = step, !.w = w]
    <2>1. next.at = step /\ next.w = w /\ next.req = run.req /\ w \in Writes
        BY <1>1, WritesKnown DEF RunRecord
    <2>2. next \in RunRecord
        BY <1>1, <2>1 DEF RunRecord
    <2>3. Underway(next)
        <3> HIDE DEF next
        <3> QED
            BY <1>1, <1>2, <2>1 DEF Underway
    <2> QED
        BY <2>2, <2>3
<1>3. [run EXCEPT !.at = step] \in RunRecord /\ Underway([run EXCEPT !.at = step])
    <2>1. [run EXCEPT !.at = step] = [run EXCEPT !.at = step, !.w = run.w]
        BY <1>1 DEF RunRecord
    <2> QED
        BY <1>1, <1>2, <2>1
<1>4. LastWrite[EffectOf[run.req]] \in Writes
    BY <1>1, WritesKnown DEF WritesOf
<1> QED
    BY <1>1, <1>2, <1>3, <1>4

LEMMA EnterUnderway ==
    ASSUME SagaInv, NEW r \in Requests
    PROVE  LET next == [req |-> r, at |-> "read", w |-> FirstWrite[EffectOf[r]]]
           IN  next \in RunRecord /\ (journal[r] # <<>> => Underway(next))
<1>1. FirstWrite[EffectOf[r]] \in WritesOf(r) /\ FirstWrite[EffectOf[r]] \in Writes
    BY WritesKnown DEF WritesOf
<1> QED
    BY <1>1 DEF RunRecord, Underway

LEMMA Invoking ==
    ASSUME SagaInv, NEW r \in Requests, Execute(r) \/ Reconcile(r) \/ ConfirmPublication(r)
    PROVE  SagaInv'
<1>0. journal \in [Requests -> Seq(Phases)] /\ run \in RunRecord /\ Underway(run) /\ OneEach
    BY DEF SagaInv, SagaRecords
<1>1. CASE Execute(r) /\ UNCHANGED <<journal, run>>
    BY <1>0, <1>1, NothingCrosses DEF Execute, Notes, provider
<1>2. CASE Execute(r) /\ ~Allocated(r) /\ journal' = [journal EXCEPT ![r] = <<AUTHORIZED>>] /\ Enter(r)
    <2>1. journal[r] = <<>> /\ writes' = writes
        BY <1>2 DEF Execute, provider
    <2>2. /\ journal'[r] = <<AUTHORIZED>> /\ <<AUTHORIZED>> \in Seq(Phases)
          /\ \A q \in Requests : q # r => journal'[q] = journal[q]
        BY <1>0, <1>2, PhasesKnown
    <2>3. /\ <<AUTHORIZED>> = Append(<<>>, AUTHORIZED) /\ <<>> \in Seq(Phases)
          /\ AUTHORIZED \in Phases
        BY PhasesKnown
    <2>4. /\ <<AUTHORIZED>> # <<>>
          /\ \A x : Contains(<<AUTHORIZED>>, x) <=> Contains(<<>>, x) \/ x = AUTHORIZED
        <3> DEFINE none == journal[r]
        <3>1. <<AUTHORIZED>> = Append(none, AUTHORIZED) /\ none \in Seq(Phases) /\ none = <<>>
            BY <2>1, <2>3
        <3> HIDE DEF none
        <3>2. /\ Append(none, AUTHORIZED) # <<>>
              /\ \A x : Contains(Append(none, AUTHORIZED), x) <=> Contains(none, x) \/ x = AUTHORIZED
            BY <2>3, <3>1, Appended
        <3> QED
            BY <3>1, <3>2
    <2>5. \A w : <<w, "dispatching">> # AUTHORIZED
        BY DEF AUTHORIZED
    <2>6. \A q \in Requests : \A w : Crossed(q, w)' <=> Crossed(q, w)
        BY <2>1, <2>2, <2>4, <2>5 DEF Crossed, Has
    <2>7. journal' \in [Requests -> Seq(Phases)]
        BY <1>0, <1>2, <2>2
    <2>8. run' \in RunRecord /\ Underway(run)'
        <3>1. FirstWrite[EffectOf[r]] \in WritesOf(r) /\ FirstWrite[EffectOf[r]] \in Writes
            BY WritesKnown DEF WritesOf
        <3>2. run' = [req |-> r, at |-> "read", w |-> FirstWrite[EffectOf[r]]]
            BY <1>2 DEF Enter
        <3>3. run'.at = "read" /\ run'.req = r /\ run'.w \in WritesOf(r) /\ journal'[r] # <<>>
            BY <2>2, <2>4, <3>1, <3>2
        <3>4. run' \in RunRecord
            BY <3>1, <3>2 DEF RunRecord
        <3> QED
            BY <3>3, <3>4 DEF Underway
    <2>9. OneEach'
        BY <1>0, <1>2, <2>1, <2>2 DEF OneEach, Allocated
    <2> QED
        BY <2>1, <2>6, <2>7, <2>8, <2>9 DEF SagaInv, SagaRecords, SentCrossed, WrittenOnce
<1>3. CASE Reconcile(r)
    <2>1. journal' = journal /\ writes' = writes
        BY <1>3 DEF Reconcile, provider
    <2>2. run' = run \/ (Enter(r) /\ journal[r] # <<>>)
        BY <1>3 DEF Reconcile
    <2>3. CASE run' = run
        BY <1>0, <2>1, <2>3, NothingCrosses DEF Notes
    <2>4. CASE Enter(r) /\ journal[r] # <<>>
        BY <2>1, <2>4, EnterUnderway, NothingCrosses DEF Notes, Enter
    <2> QED
        BY <2>2, <2>3, <2>4
<1>4. CASE ConfirmPublication(r)
    <2>1. journal[r] # <<>>
        <3>1. Contains(journal[r], <<LastWrite[EffectOf[r]], "confirmed">>)
            BY <1>4 DEF ConfirmPublication, Verified, Has
        <3>2. Len(journal[r]) # 0
            BY <3>1, <1>0 DEF Contains
        <3> QED
            BY <1>0, <3>2
    <2>2. Notes /\ run' = run /\ writes' = writes
        BY <1>4, <2>1, PhasesKnown DEF ConfirmPublication, Notes, provider
    <2> QED
        BY <1>0, <2>2, NothingCrosses
<1> QED
    BY <1>1, <1>2, <1>3, <1>4 DEF Execute

LEMMA Reading ==
    ASSUME SagaInv, WriteContent \/ ReadState
    PROVE  SagaInv'
<1>0. run.at = "read" /\ writes' = writes /\ run \in RunRecord /\ Underway(run)
    BY DEF WriteContent, ReadState, At, provider, SagaInv, SagaRecords
<1>1. CASE ReadFails \/ Expires \/ Throws \/ Refuses \/ Uncertain
    BY <1>0, <1>1, InvocationEnds
<1>2. CASE (Append1(<<"content", "intent">>) \/ Append1(<<"content", "confirmed">>)) /\ run' = run
    <2>1. run.req \in Requests /\ journal[run.req] # <<>>
        BY <1>0 DEF Underway
    <2>2. Notes
        BY <1>2, <2>1, PhasesKnown DEF Append1, Notes
    <2> QED
        BY <1>0, <1>2, <2>2, NothingCrosses
<1>3. CASE Go("confirm") /\ journal' = journal
    BY <1>0, <1>3, RidesOn, NothingCrosses DEF Go, Notes
<1>4. CASE Go("check") /\ (journal' = journal \/ Step(<<run.w, "intent">>)) /\ ~Crossed(run.req, run.w)
    <2>1. run.w \in Writes /\ run.req \in Requests /\ journal[run.req] # <<>> /\ run.w \in WritesOf(run.req)
        BY <1>0, RidesOn
    <2>2. Notes
        BY <1>0, <1>4, <2>1, StepNotes, PhasesKnown DEF Notes
    <2> DEFINE next == [run EXCEPT !.at = "check"]
    <2>3. next \in RunRecord /\ next.at = "check" /\ next.req = run.req /\ next.w = run.w
        BY <1>0 DEF RunRecord
    <2>4. run' = next
        BY <1>4 DEF Go
    <2> HIDE DEF next
    <2>5. Underway(next)
        BY <1>4, <2>1, <2>3 DEF Underway
    <2> QED
        BY <1>0, <2>2, <2>3, <2>4, <2>5, NothingCrosses
<1>5. CASE WriteContent
    BY <1>1, <1>2, <1>5 DEF WriteContent
<1>6. CASE ReadState
    BY <1>1, <1>3, <1>4, <1>6 DEF ReadState, Crossed
<1> QED
    BY <1>5, <1>6

LEMMA Checking ==
    ASSUME SagaInv, CheckIntent \/ CheckDispatching
    PROVE  SagaInv'
<1>0. /\ run.at \in {"check", "final"} /\ writes' = writes
      /\ journal \in [Requests -> Seq(Phases)] /\ run \in RunRecord /\ Underway(run)
      /\ run.req \in Requests /\ journal[run.req] # <<>> /\ run.w \in WritesOf(run.req) /\ run.w \in Writes
      /\ writes \in [Writes -> Nat] /\ OneEach /\ SentCrossed /\ WrittenOnce
    BY RidesOn DEF CheckIntent, CheckDispatching, At, provider, SagaInv, SagaRecords
<1>1. CASE ReadFails \/ Expires \/ Throws
    BY <1>0, <1>1, InvocationEnds
<1>2. CASE Go("confirm") /\ journal' = journal
    BY <1>0, <1>2, RidesOn, NothingCrosses DEF Go, Notes
<1>3. CASE At("final") /\ Go("send") /\ journal' = journal
    <2> DEFINE next == [run EXCEPT !.at = "send"]
    <2>1. next \in RunRecord /\ next.at = "send" /\ next.req = run.req /\ next.w = run.w /\ run' = next
        BY <1>0, <1>3 DEF RunRecord, Go
    <2> HIDE DEF next
    <2>2. Underway(next)
        BY <1>0, <1>3, <2>1 DEF Underway, At
    <2> QED
        BY <1>0, <1>3, <2>1, <2>2, NothingCrosses DEF Notes
<1>4. CASE At("check") /\ Step(<<run.w, "dispatching">>) /\ Go("final")
    <2> DEFINE phase == <<run.w, "dispatching">>
    <2>1. ~Crossed(run.req, run.w)
        BY <1>0, <1>4 DEF Underway, At
    <2>2. journal' = [journal EXCEPT ![run.req] = Append(@, phase)] /\ phase \in Phases
        BY <1>0, <1>4, <2>1, PhasesKnown DEF Step, Append1, Crossed
    <2> DEFINE next == [run EXCEPT !.at = "final"]
    <2>3. next \in RunRecord /\ next.at = "final" /\ next.req = run.req /\ next.w = run.w /\ run' = next
        BY <1>0, <1>4 DEF RunRecord, Go
    <2>4. /\ \A w : <<w, "dispatching">> = phase <=> w = run.w
        OBVIOUS
    <2> HIDE DEF next, phase
    <2>5. /\ journal'[run.req] = Append(journal[run.req], phase) /\ journal[run.req] \in Seq(Phases)
          /\ \A q \in Requests : q # run.req => journal'[q] = journal[q]
        BY <1>0, <2>2
    <2>6. /\ journal'[run.req] \in Seq(Phases) /\ journal'[run.req] # <<>>
          /\ \A x : Contains(journal'[run.req], x) <=> Contains(journal[run.req], x) \/ x = phase
        BY <2>2, <2>5, Appended
    <2>7. journal' \in [Requests -> Seq(Phases)]
        BY <1>0, <2>2, <2>6
    <2>8. /\ \A q \in Requests : \A w : Crossed(q, w) => Crossed(q, w)'
          /\ Crossed(run.req, run.w)'
        <3>1. ASSUME NEW q \in Requests, NEW w, Contains(journal[q], <<w, "dispatching">>)
              PROVE  Contains(journal'[q], <<w, "dispatching">>)
            <4>1. CASE q = run.req
                BY <2>6, <3>1, <4>1
            <4>2. CASE q # run.req
                BY <2>5, <3>1, <4>2
            <4> QED
                BY <4>1, <4>2
        <3>2. Contains(journal'[run.req], <<run.w, "dispatching">>)
            BY <2>4, <2>6
        <3> QED
            BY <2>3, <3>1, <3>2 DEF Crossed, Has
    <2>9. writes[run.w] = 0
        (* Otherwise the request that crossed the boundary is of the same effect, hence this one. *)
        <3>1. SUFFICES ASSUME writes[run.w] > 0
                       PROVE  FALSE
            BY <1>0
        <3>2. PICK r \in Requests : run.w \in WritesOf(r) /\ Crossed(r, run.w)
            BY <1>0, <3>1 DEF SentCrossed
        <3>3. journal[r] # <<>>
            <4>1. Contains(journal[r], <<run.w, "dispatching">>) /\ journal[r] \in Seq(Phases)
                BY <1>0, <3>2 DEF Crossed, Has
            <4>2. Len(journal[r]) # 0
                BY <4>1 DEF Contains
            <4> QED
                BY <4>2
        <3>4. r = run.req
            BY <1>0, <3>2, <3>3, WritesKnown DEF OneEach
        <3> QED
            BY <2>1, <3>2, <3>4
    <2>10. Underway(run)'
        BY <1>0, <2>3, <2>6, <2>8, <2>9 DEF Underway
    <2>11. OneEach'
        BY <1>0, <2>5 DEF OneEach
    <2>12. SentCrossed' /\ WrittenOnce'
        BY <1>0, <2>8 DEF SentCrossed, WrittenOnce
    <2> QED
        BY <1>0, <2>3, <2>7, <2>10, <2>11, <2>12 DEF SagaInv, SagaRecords
<1>5. CASE CheckIntent
    BY <1>1, <1>2, <1>4, <1>5 DEF CheckIntent
<1>6. CASE CheckDispatching
    BY <1>1, <1>3, <1>6 DEF CheckDispatching
<1> QED
    BY <1>5, <1>6

LEMMA Sending ==
    ASSUME SagaInv, Send
    PROVE  SagaInv'
<1>0. /\ run.at = "send" /\ run \in RunRecord /\ Underway(run) /\ run.req \in Requests
      /\ run.w \in WritesOf(run.req) /\ run.w \in Writes
      /\ Crossed(run.req, run.w) /\ writes[run.w] = 0
      /\ writes \in [Writes -> Nat] /\ OneEach /\ SentCrossed /\ WrittenOnce
    BY RidesOn DEF Send, At, SagaInv, SagaRecords, Underway
<1>1. CASE Expires /\ writes' = writes
    BY <1>0, <1>1, InvocationEnds
<1>2. CASE writes' = [writes EXCEPT ![run.w] = @ + 1] /\ Notes
              /\ (run' = Idle \/ run' = [run EXCEPT !.at = "confirm"])
    <2>1. /\ journal' \in [Requests -> Seq(Phases)]
          /\ \A r \in Requests : journal'[r] # <<>> <=> journal[r] # <<>>
          /\ \A r \in Requests : \A w : Crossed(r, w)' <=> Crossed(r, w)
        BY <1>2, NotesCross
    <2>2. /\ writes' \in [Writes -> Nat] /\ writes'[run.w] = 1
          /\ \A w \in Writes : w # run.w => writes'[w] = writes[w]
        BY <1>0, <1>2
    <2>3. run' \in RunRecord /\ run'.at \in {"idle", "confirm"}
          /\ (run'.at # "idle" => run'.req = run.req /\ run'.w = run.w)
        BY <1>0, <1>2 DEF RunRecord, Idle
    <2>4. journal[run.req] # <<>>
        BY <1>0 DEF Underway
    <2>5. Underway(run)'
        BY <1>0, <2>1, <2>3, <2>4 DEF Underway
    <2>6. OneEach'
        BY <1>0, <2>1 DEF OneEach
    <2>7. SentCrossed'
        <3> SUFFICES ASSUME NEW w \in Writes, writes'[w] > 0
                     PROVE  \E r \in Requests : w \in WritesOf(r) /\ Crossed(r, w)'
            BY DEF SentCrossed
        <3>1. CASE w = run.w
            BY <1>0, <2>1, <3>1
        <3>2. CASE w # run.w
            BY <1>0, <2>1, <2>2, <3>2 DEF SentCrossed
        <3> QED
            BY <3>1, <3>2
    <2>8. WrittenOnce'
        BY <1>0, <2>2 DEF WrittenOnce
    <2> QED
        BY <2>1, <2>2, <2>3, <2>5, <2>6, <2>7, <2>8 DEF SagaInv, SagaRecords
<1>3. Refuses => Notes /\ run' = Idle
    BY <1>0, EndingNotes
<1>4. Go("confirm") /\ UNCHANGED journal => Notes /\ run' = [run EXCEPT !.at = "confirm"]
    BY DEF Go, Notes
<1> QED
    BY <1>1, <1>2, <1>3, <1>4 DEF Send, provider

LEMMA Confirming ==
    ASSUME SagaInv, Confirm
    PROVE  SagaInv'
<1>0. run.at = "confirm" /\ writes' = writes /\ run \in RunRecord /\ run.w \in Writes
    BY RidesOn DEF Confirm, At, provider, SagaInv, SagaRecords
<1>1. CASE Throws \/ Refuses \/ Uncertain
    BY <1>0, <1>1, InvocationEnds
<1>2. ASSUME Step(<<run.w, "confirmed">>)
      PROVE  Notes
    BY <1>0, <1>2, StepNotes, PhasesKnown
<1>3. CASE Step(<<run.w, "confirmed">>) /\ Report("verified")
    BY <1>0, <1>2, <1>3, IdleUnderway, NothingCrosses DEF Report
<1>4. CASE Step(<<run.w, "confirmed">>)
              /\ run' = [run EXCEPT !.at = "read", !.w = LastWrite[EffectOf[run.req]]]
    <2>1. LastWrite[EffectOf[run.req]] \in WritesOf(run.req)
        BY DEF WritesOf
    <2> QED
        BY <1>0, <1>2, <1>4, <2>1, RidesOn, NothingCrosses
<1> QED
    BY <1>1, <1>3, <1>4 DEF Confirm

LEMMA SagaStep ==
    ASSUME SagaInv, [SagaNext]_sagaVars
    PROVE  SagaInv'
<1>1. CASE InvocationDies
    BY <1>1, IdleUnderway, NothingCrosses DEF InvocationDies, Report, Notes, provider
<1>2. CASE Expire \/ (\E w \in Writes : Arrive(w) \/ Lost(w) \/ Foreign(w)) \/ UNCHANGED sagaVars
    <2>1. journal' = journal /\ run' = run /\ writes' = writes
        BY <1>2 DEF Expire, Arrive, Lost, Foreign, provider, sagaVars
    <2> QED
        BY <2>1, NothingCrosses DEF Notes, SagaInv, SagaRecords
<1> QED
    BY <1>1, <1>2, Invoking, Reading, Checking, Sending, Confirming DEF SagaNext

(* Under one authorization no consequential write of a release is sent twice, for any   *)
(* number of requests, deaths and changes by others (github-release-runner.ts, the      *)
(* dispatching boundary of each write).                                                 *)
THEOREM ReleaseWritesOnce == SagaSpec => []WrittenOnce
<1>1. ASSUME SagaInv
      PROVE  WrittenOnce
    BY <1>1 DEF SagaInv
<1> QED
    BY <1>1, SagaStart, SagaStep, PTL DEF SagaSpec
-----------------------------------------------------------------------------
(* The grants of a delegation: what is counted and what is listed. *)

Task == [root : BOOLEAN, children : SUBSET Grants, revoked : BOOLEAN]
InquirySteps == Locked \cup {"rest", "ensure", "install", "lock", "flag"}
InquiryRecord == [host : Hosts \cup {"none"}, op : {"none", "root", "child", "revoke"},
                  child : Grants \cup {"none"}, at : InquirySteps, file : Task, current : BOOLEAN]

DelegationRecords ==
    /\ registry \in Task /\ accounts \in Task /\ registryLock \in BOOLEAN
    /\ memory \in [Hosts -> Task] /\ inquiries \in [Inquirers -> InquiryRecord]
    /\ slow \in Nat /\ lateLoad \in BOOLEAN

(* Which step a call of each kind may be at. *)
InItsPlace(x) ==
    /\ x.at # "rest" => x.host \in Hosts /\ x.op # "none" /\ x.child \in Grants
    /\ x.at \in {"ensure", "install", "flag"} => x.op = "revoke"
    /\ x.at \in {"read", "reload"} => x.op # "revoke"
    /\ x.at = "rest" => ~x.current

(* What a call is about to list has been counted. *)
Backed(x) ==
    /\ Within(x.file)
    /\ x.op = "root" /\ x.at = "serialize" => accounts.root
    /\ x.op = "child" /\ x.at = "serialize" => x.child \in accounts.children
    /\ x.op = "revoke" /\ x.at \in {"flag", "lock", "serialize", "write", "unlock"} => accounts.revoked

CountedInv ==
    /\ DelegationRecords
    /\ \A i \in Inquirers : InItsPlace(inquiries[i]) /\ Backed(inquiries[i])
    /\ ListedIsCounted

LEMMA RestingFits ==
    /\ NoTask \in Task /\ Within(NoTask) /\ Resting \in InquiryRecord
    /\ Resting.at = "rest" /\ Resting.file = NoTask /\ Resting.op = "none" /\ ~Resting.current
    /\ InItsPlace(Resting) /\ Backed(Resting)
<1>1. NoTask \in Task /\ Within(NoTask)
    BY DEF NoTask, Task, Within
<1>2. /\ Resting.at = "rest" /\ Resting.file = NoTask /\ Resting.op = "none" /\ ~Resting.current
      /\ Resting \in InquiryRecord
    BY <1>1 DEF Resting, InquiryRecord, InquirySteps
<1> QED
    BY <1>1, <1>2 DEF InItsPlace, Backed

LEMMA CountedStart == DelegationInit => CountedInv
<1> SUFFICES ASSUME DelegationInit
             PROVE  CountedInv
    OBVIOUS
<1>1. DelegationRecords
    BY RestingFits DEF DelegationInit, DelegationRecords
<1>2. ListedIsCounted
    BY RestingFits DEF DelegationInit, ListedIsCounted
<1> QED
    BY <1>1, <1>2, RestingFits DEF DelegationInit, CountedInv

Counts == /\ accounts' \in Task
          /\ accounts.root => accounts'.root
          /\ accounts.children \subseteq accounts'.children
          /\ accounts.revoked => accounts'.revoked

(* Of the other calls nothing changes, except that their records may be orphaned. *)
OthersStay(i) ==
    \A j \in Inquirers \ {i} :
        /\ inquiries'[j] \in InquiryRecord
        /\ inquiries'[j].host = inquiries[j].host /\ inquiries'[j].op = inquiries[j].op
        /\ inquiries'[j].child = inquiries[j].child /\ inquiries'[j].at = inquiries[j].at
        /\ inquiries'[j].file = inquiries[j].file
        /\ inquiries'[j].current => inquiries[j].current

LEMMA WithinStays ==
    ASSUME Counts
    PROVE  /\ \A copy \in Task : Within(copy) => Within(copy)'
           /\ \A x \in InquiryRecord : Backed(x) => Backed(x)'
<1>1. \A copy \in Task : Within(copy) => Within(copy)'
    BY DEF Counts, Within
<1> QED
    BY <1>1 DEF Counts, Backed, InquiryRecord

(* A step of one call keeps the counts when what it lists next is counted. *)
LEMMA CountedKept ==
    ASSUME CountedInv, Counts, NEW i \in Inquirers, NEW next \in InquiryRecord,
           DOMAIN inquiries' = Inquirers, inquiries' = [j \in Inquirers |-> inquiries'[j]],
           OthersStay(i), inquiries'[i] = next, InItsPlace(next), \A x : x = next => Backed(x)',
           registry' \in Task, Within(registry)', memory' \in [Hosts -> Task],
           \A h \in Hosts : Within(memory[h])',
           registryLock' \in BOOLEAN, slow' \in Nat, lateLoad' \in BOOLEAN
    PROVE  CountedInv'
<1>1. inquiries' \in [Inquirers -> InquiryRecord]
    BY DEF OthersStay
<1>2. DelegationRecords'
    BY <1>1 DEF DelegationRecords, Counts
<1>3. ASSUME NEW j \in Inquirers
      PROVE  InItsPlace(inquiries[j])' /\ Backed(inquiries[j])'
    <2>1. CASE j = i
        BY <2>1 DEF InItsPlace
    <2>2. CASE j # i
        <3>1. InItsPlace(inquiries[j]) /\ Backed(inquiries[j]) /\ inquiries[j] \in InquiryRecord
            BY DEF CountedInv, DelegationRecords
        <3>2. Backed(inquiries[j])'
            BY <2>2, <3>1, WithinStays DEF OthersStay, Backed, Counts, InquiryRecord
        <3>3. InItsPlace(inquiries[j])'
            BY <2>2, <3>1 DEF OthersStay, InItsPlace
        <3> QED
            BY <3>2, <3>3
    <2> QED
        BY <2>1, <2>2
<1> QED
    BY <1>2, <1>3 DEF CountedInv, ListedIsCounted

LEMMA OneMoves ==
    ASSUME CountedInv, NEW i \in Inquirers, NEW next \in InquiryRecord,
           inquiries' = [inquiries EXCEPT ![i] = next]
    PROVE  /\ DOMAIN inquiries' = Inquirers /\ inquiries' = [j \in Inquirers |-> inquiries'[j]]
           /\ OthersStay(i) /\ inquiries'[i] = next
           /\ \A j \in Inquirers : j # i => inquiries'[j] = inquiries[j]
BY DEF CountedInv, DelegationRecords, OthersStay

(* What holds of the call that takes a step. *)
LEMMA Taken ==
    ASSUME CountedInv, NEW i \in Inquirers
    PROVE  /\ inquiries[i] \in InquiryRecord /\ InItsPlace(inquiries[i]) /\ Backed(inquiries[i])
           /\ registry \in Task /\ accounts \in Task /\ Within(registry)
           /\ registryLock \in BOOLEAN /\ slow \in Nat /\ lateLoad \in BOOLEAN
           /\ memory \in [Hosts -> Task] /\ \A h \in Hosts : memory[h] \in Task /\ Within(memory[h])
BY DEF CountedInv, DelegationRecords, ListedIsCounted

(* A call goes on to another step; what it holds stays. *)
LEMMA Onward ==
    ASSUME CountedInv, NEW i \in Inquirers, NEW at \in InquirySteps
    PROVE  LET next == [inquiries[i] EXCEPT !.at = at]
           IN  /\ next \in InquiryRecord /\ next.at = at /\ next.host = inquiries[i].host
               /\ next.op = inquiries[i].op /\ next.child = inquiries[i].child
               /\ next.file = inquiries[i].file /\ next.current = inquiries[i].current
BY Taken DEF InquiryRecord

(* A step of a call that leaves both stores and every copy as they are. *)
LEMMA AsideCounts ==
    ASSUME CountedInv, NEW i \in Inquirers, NEW next \in InquiryRecord,
           inquiries' = [inquiries EXCEPT ![i] = next], InItsPlace(next), Backed(next),
           UNCHANGED <<stores, memory>>, registryLock' \in BOOLEAN, slow' \in Nat, lateLoad' \in BOOLEAN
    PROVE  CountedInv'
<1>1. Counts /\ \A x : Backed(x) => Backed(x)'
    BY Taken DEF Counts, stores, Backed, Within
<1>2. Within(registry)' /\ \A h \in Hosts : Within(memory[h])'
    BY Taken DEF stores, Within
<1>3. registry' = registry /\ memory' = memory
    BY DEF stores
<1>4. registry' \in Task /\ memory' \in [Hosts -> Task]
    BY <1>3, Taken
<1>5. \A x : x = next => Backed(x)'
    BY <1>1
<1> QED
    BY <1>1, <1>2, <1>4, <1>5, OneMoves, CountedKept, ZenonT(60)

LEMMA InquireCounts ==
    ASSUME CountedInv, NEW i \in Inquirers, Inquire(i)
    PROVE  CountedInv'
<1>1. PICK h \in Hosts, op \in {"root", "child", "revoke"}, child \in Grants :
          inquiries' = [inquiries EXCEPT ![i] =
             [Resting EXCEPT !.host = h, !.op = op, !.child = child,
                             !.at = IF op = "revoke" THEN "ensure" ELSE "lock"]]
    BY DEF Inquire
<1> DEFINE next == [Resting EXCEPT !.host = h, !.op = op, !.child = child,
                                   !.at = IF op = "revoke" THEN "ensure" ELSE "lock"]
<1>2. /\ next \in InquiryRecord /\ next.host = h /\ next.op = op /\ next.child = child /\ next.file = NoTask
      /\ next.at = (IF op = "revoke" THEN "ensure" ELSE "lock")
    BY RestingFits DEF Resting, InquiryRecord, InquirySteps
<1> HIDE DEF next
<1>3. InItsPlace(next) /\ Backed(next)
    BY <1>2, RestingFits DEF InItsPlace, Backed
<1> QED
    BY <1>1, <1>2, <1>3, AsideCounts, Taken DEF Inquire, next, histories

LEMMA AsidesCount ==
    ASSUME CountedInv, NEW i \in Inquirers,
           \/ EnsureLoaded(i) \/ LookUp(i) \/ AcquireRegistryLock(i) \/ ReadRegistry(i)
           \/ ReleaseRegistryLock(i)
    PROVE  CountedInv'
<1>0. UNCHANGED <<stores, memory>> /\ registryLock' \in BOOLEAN /\ slow' \in Nat /\ lateLoad' \in BOOLEAN
    BY Taken DEF EnsureLoaded, LookUp, AcquireRegistryLock, ReadRegistry, ReleaseRegistryLock, histories
<1>1. CASE Done(i)
    BY <1>0, <1>1, RestingFits, AsideCounts DEF Done
<1>2. CASE EnsureLoaded(i)
    <2> DEFINE next == [inquiries[i] EXCEPT !.file = registry, !.at = "install"]
    <2>1. /\ next \in InquiryRecord /\ next.at = "install" /\ next.file = registry
          /\ next.op = inquiries[i].op /\ next.host = inquiries[i].host /\ next.child = inquiries[i].child
        BY Taken DEF InquiryRecord, InquirySteps
    <2>2. inquiries' = [inquiries EXCEPT ![i] = next]
        BY <1>2, Taken DEF EnsureLoaded, CountedInv, DelegationRecords
    <2> HIDE DEF next
    <2>3. InItsPlace(next) /\ Backed(next)
        BY <1>2, <2>1, Taken DEF InItsPlace, Backed, EnsureLoaded, Reached
    <2> QED
        BY <1>0, <2>1, <2>2, <2>3, AsideCounts
<1>3. CASE ReadRegistry(i)
    <2> DEFINE next == [inquiries[i] EXCEPT !.file = registry, !.at = "reload"]
    <2>1. /\ next \in InquiryRecord /\ next.at = "reload" /\ next.file = registry
          /\ next.op = inquiries[i].op /\ next.host = inquiries[i].host /\ next.child = inquiries[i].child
        BY Taken DEF InquiryRecord, InquirySteps, Locked
    <2>2. inquiries' = [inquiries EXCEPT ![i] = next]
        BY <1>3, Taken DEF ReadRegistry, CountedInv, DelegationRecords
    <2> HIDE DEF next
    <2>3. InItsPlace(next) /\ Backed(next)
        BY <1>3, <2>1, Taken DEF InItsPlace, Backed, ReadRegistry, Reached
    <2> QED
        BY <1>0, <2>1, <2>2, <2>3, AsideCounts
<1>4. CASE LookUp(i) /\ ~Done(i)
    <2> DEFINE next == [inquiries[i] EXCEPT !.at = "account", !.current = TRUE]
    <2>1. /\ next \in InquiryRecord /\ next.at = "account" /\ next.file = inquiries[i].file
          /\ next.op = inquiries[i].op /\ next.host = inquiries[i].host /\ next.child = inquiries[i].child
        BY Taken DEF InquiryRecord, InquirySteps, Locked
    <2>2. inquiries' = [inquiries EXCEPT ![i] = next]
        BY <1>4, Taken DEF LookUp, CountedInv, DelegationRecords
    <2> HIDE DEF next
    <2>3. InItsPlace(next) /\ Backed(next)
        BY <1>4, <2>1, Taken DEF InItsPlace, Backed, LookUp, Reached
    <2> QED
        BY <1>0, <2>1, <2>2, <2>3, AsideCounts
<1>5. CASE AcquireRegistryLock(i) /\ ~Done(i)
    <2> DEFINE at == IF inquiries[i].op = "revoke" THEN "serialize" ELSE "read"
               next == [inquiries[i] EXCEPT !.at = at]
    <2>1. inquiries' = [inquiries EXCEPT ![i] = next] /\ inquiries[i].at = "lock" /\ at \in InquirySteps
        BY <1>5, Taken DEF AcquireRegistryLock, Forward, CountedInv, DelegationRecords, Reached, InquirySteps,
                           Locked
    <2>2. /\ next \in InquiryRecord /\ next.at = at /\ next.file = inquiries[i].file
          /\ next.op = inquiries[i].op /\ next.host = inquiries[i].host /\ next.child = inquiries[i].child
        BY <2>1, Onward
    <2> HIDE DEF next
    <2>3. InItsPlace(next) /\ Backed(next)
        BY <2>1, <2>2, Taken DEF InItsPlace, Backed
    <2> QED
        BY <1>0, <2>1, <2>2, <2>3, AsideCounts
<1> QED
    BY <1>1, <1>2, <1>3, <1>4, <1>5 DEF ReleaseRegistryLock

LEMMA RemovalCounts ==
    ASSUME CountedInv, NEW i \in Inquirers, RemoveOldLock(i)
    PROVE  CountedInv'
<1>1. UNCHANGED <<registry, accounts, memory, inquiries, lateLoad>> /\ registryLock' \in BOOLEAN
    BY DEF RemoveOldLock, stores, histories
<1>2. slow' \in Nat
    BY Taken DEF RemoveOldLock
<1>3. DelegationRecords'
    BY <1>1, <1>2 DEF CountedInv, DelegationRecords
<1>4. ListedIsCounted'
    BY <1>1 DEF CountedInv, ListedIsCounted, Within
<1>5. ASSUME NEW j \in Inquirers
      PROVE  InItsPlace(inquiries[j])' /\ Backed(inquiries[j])'
    BY <1>1 DEF CountedInv, InItsPlace, Backed, Within
<1> QED
    BY <1>3, <1>4, <1>5 DEF CountedInv

(* The copy that a call replaces its process's with is the file it read. *)
LEMMA ReplacementCounts ==
    ASSUME CountedInv, NEW i \in Inquirers, NEW at \in {"ensure", "account", "unlock"}, Replace(i, at),
           ~Reached(i, "rest"), at = "ensure" => inquiries[i].op = "revoke",
           inquiries[i].op = "revoke" => at = "ensure",
           UNCHANGED <<stores, registryLock, slow>>, lateLoad' \in BOOLEAN
    PROVE  CountedInv'
<1> DEFINE next == [inquiries[i] EXCEPT !.at = at, !.current = TRUE]
<1>1. /\ next \in InquiryRecord /\ next.at = at /\ next.file = inquiries[i].file
      /\ next.op = inquiries[i].op /\ next.host = inquiries[i].host /\ next.child = inquiries[i].child
    BY Taken DEF InquiryRecord, InquirySteps, Locked
<1>2. /\ inquiries'[i] = next /\ DOMAIN inquiries' = Inquirers
      /\ inquiries' = [j \in Inquirers |-> inquiries'[j]]
      /\ \A j \in Inquirers : j # i =>
            inquiries'[j] = [inquiries[j] EXCEPT !.current = @ /\ On(j) # On(i)]
    BY DEF Replace
<1>3. OthersStay(i)
    <2> SUFFICES ASSUME NEW j \in Inquirers \ {i}
                 PROVE  /\ inquiries'[j] \in InquiryRecord
                        /\ inquiries'[j].host = inquiries[j].host /\ inquiries'[j].op = inquiries[j].op
                        /\ inquiries'[j].child = inquiries[j].child /\ inquiries'[j].at = inquiries[j].at
                        /\ inquiries'[j].file = inquiries[j].file
                        /\ inquiries'[j].current => inquiries[j].current
        BY DEF OthersStay
    <2>1. inquiries[j] \in InquiryRecord
        BY Taken
    <2> DEFINE v == inquiries[j].current /\ On(j) # On(i)
    <2>2. v \in BOOLEAN /\ (v => inquiries[j].current)
        OBVIOUS
    <2>3. inquiries'[j] = [inquiries[j] EXCEPT !.current = v]
        BY <1>2
    <2> HIDE DEF v
    <2> QED
        BY <2>1, <2>2, <2>3 DEF InquiryRecord
<1> HIDE DEF next
<1>4. InItsPlace(next)
    BY <1>1, Taken DEF InItsPlace, Reached
<1>5. Counts /\ \A x : Backed(x) => Backed(x)'
    BY Taken DEF Counts, stores, Backed, Within
<1>6. Backed(next)
    BY <1>1, Taken DEF Backed, InItsPlace, Reached
<1>7. inquiries[i].host \in Hosts /\ Within(inquiries[i].file) /\ inquiries[i].file \in Task
    BY Taken DEF InItsPlace, Backed, Reached, InquiryRecord
<1>8. memory' \in [Hosts -> Task] /\ \A h \in Hosts : Within(memory[h])'
    BY <1>7, Taken DEF Replace, On, stores, Within
<1>9. Within(registry)' /\ registry' \in Task /\ registryLock' \in BOOLEAN /\ slow' \in Nat
    BY Taken DEF stores, Within
<1> QED
    BY <1>1, <1>2, <1>3, <1>4, <1>5, <1>6, <1>8, <1>9, CountedKept

LEMMA ReplacementsCount ==
    ASSUME CountedInv, NEW i \in Inquirers, InstallFirstLoad(i) \/ Reload(i)
    PROVE  CountedInv'
<1>1. CASE InstallFirstLoad(i)
    BY <1>1, Taken, ReplacementCounts DEF InstallFirstLoad, InItsPlace, Reached
<1>2. CASE Reload(i)
    <2>1. \E at \in {"account", "unlock"} : Replace(i, at)
        BY <1>2 DEF Reload
    <2> QED
        BY <1>2, <2>1, Taken, ReplacementCounts DEF Reload, InItsPlace, Reached, histories
<1> QED
    BY <1>1, <1>2

LEMMA AccountingCounts ==
    ASSUME CountedInv, NEW i \in Inquirers, Account(i)
    PROVE  CountedInv'
<1>0. /\ UNCHANGED <<registry, registryLock, memory, slow, lateLoad>> /\ inquiries[i].at = "account"
      /\ inquiries[i].op \in {"root", "child", "revoke"} /\ inquiries[i].child \in Grants
      /\ accounts \in Task
    BY Taken DEF Account, histories, Reached, InItsPlace, InquiryRecord
<1> DEFINE Next(at) == [inquiries[i] EXCEPT !.at = at]
<1>1. \A at \in {"serialize", "flag", "unlock"} :
          /\ Next(at) \in InquiryRecord /\ Next(at).at = at /\ Next(at).host = inquiries[i].host
          /\ Next(at).op = inquiries[i].op /\ Next(at).child = inquiries[i].child
          /\ Next(at).file = inquiries[i].file
    BY Onward DEF InquirySteps, Locked
<1>2. \A at : Forward(i, at) => inquiries' = [inquiries EXCEPT ![i] = Next(at)]
    BY Taken DEF Forward, CountedInv, DelegationRecords
<1>3. Counts /\ \E at \in {"serialize", "flag", "unlock"} :
                    /\ Forward(i, at)
                    /\ at = "serialize" => inquiries[i].op # "revoke"
                    /\ at = "flag" => inquiries[i].op = "revoke"
                    /\ at = "unlock" => inquiries[i].op = "child"
                    /\ inquiries[i].op = "root" /\ at = "serialize" => accounts'.root
                    /\ inquiries[i].op = "child" /\ at = "serialize" =>
                          inquiries[i].child \in accounts'.children
                    /\ inquiries[i].op = "revoke" => accounts'.revoked
    <2>1. CASE inquiries[i].op = "root"
        <3>1. accounts' = [accounts EXCEPT !.root = TRUE] /\ Forward(i, "serialize")
            BY <2>1 DEF Account
        <3> QED
            BY <1>0, <2>1, <3>1 DEF Counts, Task
    <2>2. CASE inquiries[i].op = "revoke"
        <3>1. accounts' = [accounts EXCEPT !.revoked = TRUE] /\ Forward(i, "flag")
            BY <2>2 DEF Account
        <3> QED
            BY <1>0, <2>2, <3>1 DEF Counts, Task
    <2>3. CASE inquiries[i].op = "child" /\ accounts.revoked
        <3>1. accounts' = accounts /\ Forward(i, "unlock")
            BY <2>3 DEF Account
        <3> QED
            BY <1>0, <2>3, <3>1 DEF Counts
    <2>4. CASE inquiries[i].op = "child" /\ ~accounts.revoked
        <3>1. accounts' = [accounts EXCEPT !.children = @ \cup {inquiries[i].child}] /\ Forward(i, "serialize")
            BY <2>4 DEF Account
        <3> QED
            BY <1>0, <2>4, <3>1 DEF Counts, Task
    <2> QED
        BY <1>0, <2>1, <2>2, <2>3, <2>4
<1>4. PICK at \in {"serialize", "flag", "unlock"} :
                    /\ Forward(i, at)
                    /\ at = "serialize" => inquiries[i].op # "revoke"
                    /\ at = "flag" => inquiries[i].op = "revoke"
                    /\ at = "unlock" => inquiries[i].op = "child"
                    /\ inquiries[i].op = "root" /\ at = "serialize" => accounts'.root
                    /\ inquiries[i].op = "child" /\ at = "serialize" =>
                          inquiries[i].child \in accounts'.children
                    /\ inquiries[i].op = "revoke" => accounts'.revoked
    BY <1>3
<1> DEFINE next == Next(at)
<1>5. /\ next \in InquiryRecord /\ next.at = at /\ next.host = inquiries[i].host
      /\ next.op = inquiries[i].op /\ next.child = inquiries[i].child /\ next.file = inquiries[i].file
      /\ inquiries' = [inquiries EXCEPT ![i] = next]
    BY <1>1, <1>2, <1>4
<1> HIDE DEF Next, next
<1>6. InItsPlace(next)
    BY <1>0, <1>4, <1>5, Taken DEF InItsPlace
<1>7. Within(registry)' /\ \A h \in Hosts : Within(memory[h])'
    BY <1>0, <1>3, Taken DEF Within, Counts
<1>8. ASSUME NEW x, x = next
      PROVE  Backed(x)'
    <2>1. Within(x.file)'
        <3>1. Within(x.file) /\ x.file \in Task
            BY <1>5, <1>8, Taken DEF Backed, InquiryRecord
        <3> QED
            BY <1>3, <3>1, WithinStays
    <2> QED
        BY <1>4, <1>5, <1>8, <2>1 DEF Backed
<1> QED
    BY <1>0, <1>3, <1>5, <1>6, <1>7, <1>8, OneMoves, Taken, CountedKept

(* What the registry of a process is written out as. *)
LEMMA RecordedIsCounted ==
    ASSUME CountedInv, NEW i \in Inquirers, Reached(i, "serialize")
    PROVE  Recorded(i) \in Task /\ Within(Recorded(i))
<1>1. /\ memory[On(i)] \in Task /\ Within(memory[On(i)]) /\ inquiries[i].child \in Grants
      /\ inquiries[i].op \in {"root", "child", "revoke"}
    BY Taken DEF On, InItsPlace, Reached, InquiryRecord
<1>2. CASE inquiries[i].op = "root"
    <2>1. Recorded(i) = [NoTask EXCEPT !.root = TRUE]
        BY <1>2 DEF Recorded
    <2>2. accounts.root
        BY <1>2, Taken DEF Backed, Reached
    <2>3. /\ [NoTask EXCEPT !.root = TRUE].root = TRUE /\ [NoTask EXCEPT !.root = TRUE].children = {}
          /\ [NoTask EXCEPT !.root = TRUE].revoked = FALSE
        BY DEF NoTask
    <2>4. [NoTask EXCEPT !.root = TRUE] \in Task
        BY DEF NoTask, Task
    <2> QED
        BY <2>1, <2>2, <2>3, <2>4 DEF Within
<1>3. CASE inquiries[i].op = "child" /\ inquiries[i].current
    <2> DEFINE copy == [memory[On(i)] EXCEPT !.children = @ \cup {inquiries[i].child}]
    <2>1. Recorded(i) = copy
        BY <1>3 DEF Recorded
    <2>2. inquiries[i].child \in accounts.children
        BY <1>3, Taken DEF Backed, Reached
    <2>3. /\ copy \in Task /\ copy.root = memory[On(i)].root /\ copy.revoked = memory[On(i)].revoked
          /\ copy.children = memory[On(i)].children \cup {inquiries[i].child}
        BY <1>1 DEF Task
    <2> HIDE DEF copy
    <2> QED
        BY <1>1, <2>1, <2>2, <2>3 DEF Within
<1>4. CASE inquiries[i].op # "root" /\ ~(inquiries[i].op = "child" /\ inquiries[i].current)
    <2>1. Recorded(i) = memory[On(i)]
        BY <1>4 DEF Recorded
    <2> QED
        BY <1>1, <2>1
<1> QED
    BY <1>2, <1>3, <1>4

LEMMA FlaggingCounts ==
    ASSUME CountedInv, NEW i \in Inquirers, FlagRevoked(i)
    PROVE  CountedInv'
<1>0. /\ UNCHANGED <<registry, accounts, registryLock, slow, lateLoad>> /\ inquiries[i].at = "flag"
      /\ inquiries[i].op = "revoke" /\ On(i) \in Hosts /\ accounts.revoked
    BY Taken DEF FlagRevoked, stores, histories, Reached, InItsPlace, Backed, On
<1> DEFINE next == [inquiries[i] EXCEPT !.at = "lock"]
<1>1. /\ next \in InquiryRecord /\ next.at = "lock" /\ next.host = inquiries[i].host
      /\ next.op = inquiries[i].op /\ next.child = inquiries[i].child /\ next.file = inquiries[i].file
    BY Onward DEF InquirySteps
<1>2. inquiries' = [inquiries EXCEPT ![i] = next]
    BY Taken DEF FlagRevoked, Forward, CountedInv, DelegationRecords
<1> HIDE DEF next
<1>3. InItsPlace(next) /\ Backed(next)
    BY <1>0, <1>1, Taken DEF InItsPlace, Backed
<1>4. Counts /\ \A x : Backed(x) => Backed(x)'
    BY <1>0, Taken DEF Counts, Backed, Within
<1>5. /\ [memory[On(i)] EXCEPT !.revoked = TRUE] \in Task
      /\ [memory[On(i)] EXCEPT !.revoked = TRUE].root = memory[On(i)].root
      /\ [memory[On(i)] EXCEPT !.revoked = TRUE].children = memory[On(i)].children
    BY <1>0, Taken DEF Task
<1>6. memory' \in [Hosts -> Task] /\ \A h \in Hosts : Within(memory[h])'
    <2>1. CASE memory' = memory
        BY <1>0, <2>1, Taken DEF Within
    <2>2. CASE memory' = [memory EXCEPT ![On(i)].revoked = TRUE]
        <3>1. /\ memory' \in [Hosts -> Task]
              /\ memory'[On(i)] = [memory[On(i)] EXCEPT !.revoked = TRUE]
              /\ \A h \in Hosts : h # On(i) => memory'[h] = memory[h]
            BY <1>0, <1>5, <2>2, Taken
        <3>2. Within(memory[On(i)]) /\ \A h \in Hosts : Within(memory[h])
            BY <1>0, Taken
        <3> QED
            BY <1>0, <1>5, <3>1, <3>2 DEF Within
    <2> QED
        BY <2>1, <2>2 DEF FlagRevoked
<1>7. Within(registry)'
    BY <1>0, Taken DEF Within
<1> QED
    BY <1>0, <1>1, <1>2, <1>3, <1>4, <1>6, <1>7, OneMoves, Taken, CountedKept

LEMMA PersistingCounts ==
    ASSUME CountedInv, NEW i \in Inquirers, PersistRegistry(i)
    PROVE  CountedInv'
<1>0. UNCHANGED <<accounts, registryLock, slow, lateLoad>> /\ On(i) \in Hosts
    BY Taken DEF PersistRegistry, histories, Reached, InItsPlace, On
<1>1. CASE Reached(i, "serialize")
    <2> DEFINE copy == Recorded(i)
    <2>1. copy \in Task /\ Within(copy)
        BY <1>1, RecordedIsCounted
    <2>2. /\ memory' = [memory EXCEPT ![On(i)] = copy] /\ UNCHANGED registry
          /\ inquiries' = [inquiries EXCEPT ![i].file = copy, ![i].at = "write"]
        BY <1>1 DEF PersistRegistry, Reached
    <2> HIDE DEF copy
    <2> DEFINE next == [inquiries[i] EXCEPT !.file = copy, !.at = "write"]
    <2>3. /\ next \in InquiryRecord /\ next.at = "write" /\ next.host = inquiries[i].host
          /\ next.op = inquiries[i].op /\ next.child = inquiries[i].child /\ next.file = copy
        BY <2>1, Taken DEF InquiryRecord, InquirySteps, Locked
    <2>4. inquiries' = [inquiries EXCEPT ![i] = next]
        BY <2>2, Taken DEF CountedInv, DelegationRecords
    <2> HIDE DEF next
    <2>5. InItsPlace(next) /\ Backed(next)
        BY <1>1, <2>1, <2>3, Taken DEF InItsPlace, Backed, Reached
    <2>6. Counts /\ \A x : Backed(x) => Backed(x)'
        BY <1>0, Taken DEF Counts, Backed, Within
    <2>7. memory' \in [Hosts -> Task] /\ \A h \in Hosts : Within(memory[h])'
        BY <1>0, <2>1, <2>2, Taken DEF Within
    <2>8. Within(registry)'
        BY <1>0, <2>2, Taken DEF Within
    <2>9. /\ DOMAIN inquiries' = Inquirers /\ inquiries' = [j \in Inquirers |-> inquiries'[j]]
          /\ OthersStay(i) /\ inquiries'[i] = next
        BY <2>3, <2>4, OneMoves
    <2>10. /\ registry' \in Task /\ registryLock' \in BOOLEAN /\ slow' \in Nat /\ lateLoad' \in BOOLEAN
           /\ \A x : x = next => Backed(x)'
        BY <1>0, <2>2, <2>5, <2>6, Taken
    <2> QED
        BY <2>3, <2>5, <2>6, <2>7, <2>8, <2>9, <2>10, CountedKept
<1>2. CASE Reached(i, "write")
    <2> DEFINE next == [inquiries[i] EXCEPT !.at = "unlock"]
    <2>1. /\ next \in InquiryRecord /\ next.at = "unlock" /\ next.host = inquiries[i].host
          /\ next.op = inquiries[i].op /\ next.child = inquiries[i].child /\ next.file = inquiries[i].file
        BY Onward DEF InquirySteps, Locked
    <2>2. inquiries' = [inquiries EXCEPT ![i] = next] /\ memory' = memory /\ registry' = inquiries[i].file
        BY <1>2, Taken DEF PersistRegistry, Forward, CountedInv, DelegationRecords, Reached
    <2> HIDE DEF next
    <2>3. InItsPlace(next) /\ Backed(next)
        BY <1>2, <2>1, Taken DEF InItsPlace, Backed, Reached
    <2>4. Counts /\ \A x : Backed(x) => Backed(x)'
        BY <1>0, Taken DEF Counts, Backed, Within
    <2>5. \A h \in Hosts : Within(memory[h])'
        BY <1>0, <2>2, Taken DEF Within
    <2>6. registry' \in Task /\ Within(registry)'
        <3>1. inquiries[i].file \in Task /\ Within(inquiries[i].file)
            BY Taken DEF Backed, InquiryRecord
        <3> QED
            BY <1>0, <2>2, <3>1 DEF Within
    <2> QED
        BY <1>0, <2>1, <2>2, <2>3, <2>4, <2>5, <2>6, OneMoves, Taken, CountedKept, ZenonT(60)
<1> QED
    BY <1>1, <1>2 DEF PersistRegistry

LEMMA DeathCounts ==
    ASSUME CountedInv, NEW h \in Hosts, HostDies(h)
    PROVE  CountedInv'
<1>1. /\ UNCHANGED <<registry, accounts, registryLock, slow, lateLoad>>
      /\ memory' = [memory EXCEPT ![h] = NoTask]
      /\ inquiries' = [i \in Inquirers |-> IF On(i) = h THEN Resting ELSE inquiries[i]]
    BY DEF HostDies, stores, histories
<1>2. \A i \in Inquirers : inquiries'[i] = inquiries[i] \/ inquiries'[i] = Resting
    BY <1>1
<1>3. DelegationRecords'
    <2>1. memory' \in [Hosts -> Task]
        BY <1>1, RestingFits, Taken DEF CountedInv, DelegationRecords
    <2>2. inquiries' \in [Inquirers -> InquiryRecord]
        BY <1>1, RestingFits DEF CountedInv, DelegationRecords
    <2> QED
        BY <1>1, <2>1, <2>2 DEF CountedInv, DelegationRecords
<1>4. ListedIsCounted'
    <2>1. \A g \in Hosts : memory'[g] = NoTask \/ memory'[g] = memory[g]
        BY <1>1 DEF CountedInv, DelegationRecords
    <2>2. \A copy : Within(copy) => Within(copy)'
        BY <1>1 DEF Within
    <2> QED
        BY <1>1, <2>1, <2>2, RestingFits DEF CountedInv, ListedIsCounted, Within
<1>5. ASSUME NEW i \in Inquirers
      PROVE  InItsPlace(inquiries[i])' /\ Backed(inquiries[i])'
    <2>1. \A x : Backed(x) => Backed(x)'
        BY <1>1 DEF Backed, Within
    <2>2. InItsPlace(inquiries'[i]) /\ Backed(inquiries'[i])
        BY <1>2, RestingFits DEF CountedInv
    <2> QED
        BY <1>1, <2>2 DEF InItsPlace, Backed, Within
<1> QED
    BY <1>3, <1>4, <1>5 DEF CountedInv

LEMMA CountedStep ==
    ASSUME CountedInv, [DelegationNext]_delegationVars
    PROVE  CountedInv'
<1>1. CASE UNCHANGED delegationVars
    BY <1>1 DEF delegationVars, CountedInv, DelegationRecords, ListedIsCounted, InItsPlace, Backed, Within
<1> QED
    BY <1>1, InquireCounts, AsidesCount, RemovalCounts, ReplacementsCount, AccountingCounts, FlaggingCounts,
       PersistingCounts, DeathCounts DEF DelegationNext

InLock(x) == x.at \in Locked /\ ~(x.op = "revoke" /\ x.at = "account")

OneHolds == \A i \in Inquirers :
                InLock(inquiries[i]) => registryLock /\ \A j \in Inquirers : InLock(inquiries[j]) => i = j

(* What a call knows while nobody takes its lock and no first load comes late. *)
RootUnderway(x)  == x.op = "root" /\ x.at \in {"account", "serialize", "write"}
ChildUnderway(x) == x.op = "child" /\ x.at \in {"account", "serialize"}
Revoking(x)      == x.op = "revoke" /\ x.at \in {"account", "flag", "lock", "serialize"}
Writing(x, op)   == x.op = op /\ x.at = "write"

Fresh(x) ==
    /\ x.at = "reload" => x.file = registry
    /\ RootUnderway(x) => x.current /\ ~registry.root
    /\ Writing(x, "root") => x.file.root
    /\ ChildUnderway(x) =>
          x.current /\ memory[x.host].root /\ memory[x.host].children = registry.children
    /\ Writing(x, "child") => x.file.root /\ x.file.children = registry.children \cup {x.child}
    /\ x.op = "child" /\ x.at \in {"serialize", "write"} => answered \subseteq registry.children
    /\ Revoking(x) => memory[x.host].root
    /\ Writing(x, "revoke") => x.file.root

(* A copy knows of the root only once the registry does, or is about to. *)
RootListed(h) == registry.root \/ \E i \in Inquirers : On(i) = h /\ Writing(inquiries[i], "root")

AnswersListed ==
    /\ ~accounts.revoked => answered \subseteq registry.children
    /\ answered # {} => registry.root
    /\ losers \subseteq {"revoke"}

QuietInv ==
    /\ OneHolds
    /\ \A i \in Inquirers : Fresh(inquiries[i])
    /\ \A h \in Hosts : memory[h].root => RootListed(h)
    /\ AnswersListed

Quiet == slow = 0 /\ ~lateLoad

LEMMA QuietStart == DelegationInit => QuietInv
<1> SUFFICES ASSUME DelegationInit
             PROVE  QuietInv
    OBVIOUS
<1>1. \A i \in Inquirers : inquiries[i] = Resting
    BY DEF DelegationInit
<1>2. ~InLock(Resting) /\ Fresh(Resting)
    BY RestingFits DEF InLock, Locked, Fresh, RootUnderway, ChildUnderway, Revoking, Writing
<1>3. \A h \in Hosts : ~memory[h].root
    BY DEF DelegationInit, NoTask
<1> QED
    BY <1>1, <1>2, <1>3 DEF DelegationInit, QuietInv, OneHolds, AnswersListed

LEMMA HoldsKept ==
    ASSUME CountedInv, OneHolds, NEW i \in Inquirers, NEW next, OthersStay(i), inquiries'[i] = next,
           registryLock' \in BOOLEAN,
           InLock(next) => registryLock' /\ (InLock(inquiries[i]) \/ ~registryLock),
           registryLock => registryLock' \/ \A j \in Inquirers : InLock(inquiries[j]) => j = i
    PROVE  OneHolds'
<1>1. \A j \in Inquirers : j # i => (InLock(inquiries'[j]) <=> InLock(inquiries[j]))
    BY DEF OthersStay, InLock
<1>2. \A j \in Inquirers : InLock(inquiries'[j]) <=> InLock(inquiries[j])'
    BY DEF InLock
<1>3. registryLock \in BOOLEAN
    BY Taken
<1> SUFFICES ASSUME NEW j \in Inquirers, InLock(inquiries'[j])
             PROVE  registryLock' /\ \A k \in Inquirers : InLock(inquiries'[k]) => j = k
    BY <1>2 DEF OneHolds
<1>4. CASE j = i
    BY <1>1, <1>3, <1>4 DEF OneHolds
<1>5. CASE j # i
    BY <1>1, <1>3, <1>5 DEF OneHolds
<1> QED
    BY <1>4, <1>5

(* The other calls know what they knew: no copy and no file changed in what they depend on. *)
LEMMA OthersFresh ==
    ASSUME CountedInv, QuietInv, NEW j \in Inquirers, inquiries'[j] = inquiries[j],
           registry' = registry, answered' = answered,
           \A h \in Hosts : memory'[h].root = memory[h].root /\ memory'[h].children = memory[h].children
    PROVE  Fresh(inquiries[j])'
<1>1. Fresh(inquiries[j]) /\ InItsPlace(inquiries[j])
    BY Taken DEF QuietInv
<1>2. inquiries[j].at # "rest" => inquiries[j].host \in Hosts
    BY <1>1 DEF InItsPlace
<1> QED
    BY <1>1, <1>2 DEF Fresh, RootUnderway, ChildUnderway, Revoking, Writing

LEMMA AsideQuiet ==
    ASSUME CountedInv, QuietInv, NEW i \in Inquirers, NEW next \in InquiryRecord,
           inquiries' = [inquiries EXCEPT ![i] = next],
           UNCHANGED <<registry, answered, losers>>, accounts.revoked => accounts'.revoked,
           \A h \in Hosts : memory'[h].root = memory[h].root /\ memory'[h].children = memory[h].children,
           registryLock' \in BOOLEAN,
           InLock(next) => registryLock' /\ (InLock(inquiries[i]) \/ ~registryLock),
           registryLock => registryLock' \/ \A j \in Inquirers : InLock(inquiries[j]) => j = i,
           \A x : x = next => Fresh(x)', ~Writing(inquiries[i], "root")
    PROVE  QuietInv'
<1>1. OthersStay(i) /\ inquiries'[i] = next /\ \A j \in Inquirers : j # i => inquiries'[j] = inquiries[j]
    BY OneMoves
<1>2. OneHolds'
    BY <1>1, HoldsKept DEF QuietInv
<1>3. ASSUME NEW j \in Inquirers
      PROVE  Fresh(inquiries[j])'
    <2>1. CASE j = i
        BY <1>1, <2>1 DEF Fresh, RootUnderway, ChildUnderway, Revoking, Writing
    <2>2. CASE j # i
        BY <1>1, <2>2, OthersFresh
    <2> QED
        BY <2>1, <2>2
<1>4. ASSUME NEW h \in Hosts, memory'[h].root
      PROVE  RootListed(h)'
    <2>1. RootListed(h)
        BY <1>4 DEF QuietInv
    <2>2. \A j \in Inquirers : Writing(inquiries[j], "root") => inquiries'[j] = inquiries[j]
        BY <1>1
    <2> QED
        BY <2>1, <2>2 DEF RootListed, Writing, On
<1>5. AnswersListed'
    BY DEF QuietInv, AnswersListed
<1> QED
    BY <1>2, <1>3, <1>4, <1>5 DEF QuietInv

LEMMA AsidesQuiet ==
    ASSUME CountedInv, QuietInv, NEW i \in Inquirers,
           \/ Inquire(i) \/ EnsureLoaded(i) \/ LookUp(i) \/ AcquireRegistryLock(i) \/ ReadRegistry(i)
           \/ ReleaseRegistryLock(i)
    PROVE  QuietInv'
<1>0. /\ UNCHANGED <<registry, accounts, memory, answered, losers>>
      /\ registryLock \in BOOLEAN /\ registryLock' \in BOOLEAN
      /\ inquiries \in [Inquirers -> InquiryRecord] /\ inquiries[i] \in InquiryRecord /\ InItsPlace(inquiries[i])
      /\ Fresh(inquiries[i])
    BY Taken DEF Inquire, EnsureLoaded, LookUp, AcquireRegistryLock, ReadRegistry, ReleaseRegistryLock,
                 stores, histories, CountedInv, DelegationRecords, QuietInv
<1>1. \A x : Fresh(x) => Fresh(x)'
    BY <1>0 DEF Fresh, RootUnderway, ChildUnderway, Revoking, Writing
<1>2. inquiries[i].at # "write"
    BY DEF Inquire, EnsureLoaded, LookUp, AcquireRegistryLock, ReadRegistry, ReleaseRegistryLock, Reached
<1>3. ASSUME NEW next \in InquiryRecord, inquiries' = [inquiries EXCEPT ![i] = next], Fresh(next),
             InLock(next) => registryLock' /\ (InLock(inquiries[i]) \/ ~registryLock),
             registryLock => registryLock' \/ \A j \in Inquirers : InLock(inquiries[j]) => j = i
      PROVE  QuietInv'
    BY <1>0, <1>1, <1>2, <1>3, AsideQuiet DEF Writing
<1>4. /\ Resting \in InquiryRecord /\ Fresh(Resting) /\ ~InLock(Resting)
    BY RestingFits DEF Fresh, RootUnderway, ChildUnderway, Revoking, Writing, InLock, Locked
<1>5. CASE Done(i) /\ registryLock' = registryLock
    BY <1>0, <1>3, <1>4, <1>5 DEF Done
<1>6. CASE ReleaseRegistryLock(i)
    <2>1. \A j \in Inquirers : InLock(inquiries[j]) => j = i
        BY <1>6 DEF ReleaseRegistryLock, QuietInv, OneHolds, InLock, Locked, Reached
    <2> QED
        BY <1>3, <1>4, <1>6, <2>1 DEF ReleaseRegistryLock, Done
<1>7. CASE Inquire(i)
    <2>1. PICK h \in Hosts, op \in {"root", "child", "revoke"}, child \in Grants :
              inquiries' = [inquiries EXCEPT ![i] =
                 [Resting EXCEPT !.host = h, !.op = op, !.child = child,
                                 !.at = IF op = "revoke" THEN "ensure" ELSE "lock"]]
        BY <1>7 DEF Inquire
    <2> DEFINE next == [Resting EXCEPT !.host = h, !.op = op, !.child = child,
                                       !.at = IF op = "revoke" THEN "ensure" ELSE "lock"]
    <2>2. next \in InquiryRecord /\ next.op = op /\ next.at = (IF op = "revoke" THEN "ensure" ELSE "lock")
        BY RestingFits DEF Resting, InquiryRecord, InquirySteps
    <2>3. inquiries' = [inquiries EXCEPT ![i] = next] /\ registryLock' = registryLock
        BY <1>7, <2>1 DEF Inquire
    <2> HIDE DEF next
    <2>4. Fresh(next) /\ ~InLock(next)
        BY <2>2 DEF Fresh, RootUnderway, ChildUnderway, Revoking, Writing, InLock, Locked
    <2> QED
        BY <1>0, <1>3, <2>2, <2>3, <2>4
<1>8. CASE EnsureLoaded(i)
    <2> DEFINE next == [inquiries[i] EXCEPT !.file = registry, !.at = "install"]
    <2>1. next \in InquiryRecord /\ next.at = "install"
        BY <1>0, Taken DEF InquiryRecord, InquirySteps
    <2>2. inquiries' = [inquiries EXCEPT ![i] = next] /\ registryLock' = registryLock
        BY <1>0, <1>8 DEF EnsureLoaded
    <2> HIDE DEF next
    <2>3. Fresh(next) /\ ~InLock(next)
        BY <2>1 DEF Fresh, RootUnderway, ChildUnderway, Revoking, Writing, InLock, Locked
    <2> QED
        BY <1>0, <1>3, <2>1, <2>2, <2>3
<1>9. CASE ReadRegistry(i)
    <2> DEFINE next == [inquiries[i] EXCEPT !.file = registry, !.at = "reload"]
    <2>1. next \in InquiryRecord /\ next.at = "reload" /\ next.file = registry
        BY <1>0, Taken DEF InquiryRecord, InquirySteps, Locked
    <2>2. inquiries' = [inquiries EXCEPT ![i] = next] /\ registryLock' = registryLock /\ InLock(inquiries[i])
        BY <1>0, <1>9 DEF ReadRegistry, InLock, Locked, Reached
    <2>3. registryLock
        BY <2>2 DEF QuietInv, OneHolds
    <2> HIDE DEF next
    <2>4. Fresh(next)
        BY <2>1 DEF Fresh, RootUnderway, ChildUnderway, Revoking, Writing
    <2> QED
        BY <1>0, <1>3, <2>1, <2>2, <2>3, <2>4
<1>10. CASE LookUp(i) /\ ~Done(i)
    <2> DEFINE next == [inquiries[i] EXCEPT !.at = "account", !.current = TRUE]
    <2>1. /\ next \in InquiryRecord /\ next.at = "account" /\ next.op = "revoke" /\ next.host = On(i)
          /\ memory[On(i)].root
        BY <1>0, <1>10 DEF InquiryRecord, InquirySteps, Locked, LookUp, InItsPlace, Reached, On
    <2>2. inquiries' = [inquiries EXCEPT ![i] = next] /\ registryLock' = registryLock
        BY <1>0, <1>10 DEF LookUp
    <2> HIDE DEF next
    <2>3. Fresh(next) /\ ~InLock(next)
        BY <2>1 DEF Fresh, RootUnderway, ChildUnderway, Revoking, Writing, InLock, Locked
    <2> QED
        BY <1>0, <1>3, <2>1, <2>2, <2>3
<1>11. CASE AcquireRegistryLock(i) /\ ~registryLock
    <2> DEFINE at == IF inquiries[i].op = "revoke" THEN "serialize" ELSE "read"
               next == [inquiries[i] EXCEPT !.at = at]
    <2>1. /\ inquiries' = [inquiries EXCEPT ![i] = next] /\ inquiries[i].at = "lock" /\ at \in InquirySteps
          /\ ~registryLock /\ registryLock'
        BY <1>0, <1>11 DEF AcquireRegistryLock, Forward, Reached, InquirySteps, Locked
    <2>2. /\ next \in InquiryRecord /\ next.at = at /\ next.op = inquiries[i].op /\ next.host = inquiries[i].host
        BY <2>1, Onward
    <2> HIDE DEF next
    <2>3. Fresh(next)
        BY <1>0, <2>1, <2>2 DEF Fresh, RootUnderway, ChildUnderway, Revoking, Writing
    <2> QED
        BY <1>0, <1>3, <2>1, <2>2, <2>3
<1> QED
    BY <1>0, <1>5, <1>6, <1>7, <1>8, <1>9, <1>10, <1>11 DEF LookUp, AcquireRegistryLock

LEMMA RemovalQuiet ==
    ASSUME CountedInv, QuietInv, NEW i \in Inquirers, RemoveOldLock(i), slow' = 0
    PROVE  QuietInv'
<1>1. /\ UNCHANGED <<registry, accounts, memory, inquiries, answered, losers>> /\ registryLock' = FALSE
      /\ \A j \in Inquirers : ~HeldBy(j)
    BY Taken DEF RemoveOldLock, stores, histories
<1>2. \A j \in Inquirers : ~InLock(inquiries[j])
    BY <1>1 DEF HeldBy, InLock, Reached
<1>3. OneHolds'
    BY <1>1, <1>2 DEF OneHolds, InLock
<1>4. \A j \in Inquirers : Fresh(inquiries[j])'
    BY <1>1 DEF QuietInv, Fresh, RootUnderway, ChildUnderway, Revoking, Writing
<1>5. \A h \in Hosts : memory'[h].root => RootListed(h)'
    BY <1>1 DEF QuietInv, RootListed, Writing, On
<1>6. AnswersListed'
    BY <1>1 DEF QuietInv, AnswersListed
<1> QED
    BY <1>3, <1>4, <1>5, <1>6 DEF QuietInv

LEMMA AccountingQuiet ==
    ASSUME CountedInv, QuietInv, NEW i \in Inquirers, Account(i)
    PROVE  QuietInv'
<1>0. /\ UNCHANGED <<registry, registryLock, memory, answered, losers>> /\ inquiries[i].at = "account"
      /\ registryLock \in BOOLEAN /\ inquiries \in [Inquirers -> InquiryRecord] /\ Fresh(inquiries[i])
      /\ inquiries[i].op \in {"root", "child", "revoke"} /\ accounts \in Task
    BY Taken DEF Account, histories, Reached, CountedInv, DelegationRecords, QuietInv, InItsPlace, InquiryRecord
<1>1. PICK at \in {"serialize", "flag", "unlock"} :
          /\ Forward(i, at) /\ (accounts.revoked => accounts'.revoked)
          /\ inquiries[i].op = "revoke" <=> at = "flag"
          /\ inquiries[i].op = "child" /\ at = "serialize" => ~accounts.revoked
          /\ inquiries[i].op = "root" => at = "serialize"
    BY <1>0 DEF Account, Task
<1> DEFINE next == [inquiries[i] EXCEPT !.at = at]
<1>2. /\ next \in InquiryRecord /\ next.at = at /\ next.host = inquiries[i].host
      /\ next.op = inquiries[i].op /\ next.child = inquiries[i].child /\ next.file = inquiries[i].file
      /\ next.current = inquiries[i].current
    BY Onward DEF InquirySteps, Locked
<1>3. inquiries' = [inquiries EXCEPT ![i] = next]
    BY <1>0, <1>1 DEF Forward
<1> HIDE DEF next
<1>4. inquiries[i].op # "revoke" => InLock(inquiries[i]) /\ registryLock
    BY <1>0 DEF InLock, Locked, QuietInv, OneHolds
<1>5. InLock(next) => InLock(inquiries[i]) /\ registryLock
    BY <1>1, <1>2, <1>4 DEF InLock, Locked
<1>6. Fresh(next)
    BY <1>0, <1>1, <1>2 DEF Fresh, RootUnderway, ChildUnderway, Revoking, Writing, QuietInv, AnswersListed
<1>7. \A x : Fresh(x) => Fresh(x)'
    BY <1>0 DEF Fresh, RootUnderway, ChildUnderway, Revoking, Writing
<1> QED
    BY <1>0, <1>1, <1>2, <1>3, <1>5, <1>6, <1>7, AsideQuiet DEF Writing

LEMMA FlaggingQuiet ==
    ASSUME CountedInv, QuietInv, NEW i \in Inquirers, FlagRevoked(i)
    PROVE  QuietInv'
<1>0. /\ UNCHANGED <<registry, accounts, registryLock, answered, losers>> /\ inquiries[i].at = "flag"
      /\ registryLock \in BOOLEAN /\ inquiries \in [Inquirers -> InquiryRecord] /\ Fresh(inquiries[i])
      /\ inquiries[i].op = "revoke" /\ On(i) \in Hosts /\ memory[On(i)] \in Task
    BY Taken DEF FlagRevoked, stores, histories, Reached, CountedInv, DelegationRecords, QuietInv, InItsPlace, On
<1>1. \A h \in Hosts : memory'[h].root = memory[h].root /\ memory'[h].children = memory[h].children
    BY <1>0, Taken DEF FlagRevoked, Task
<1> DEFINE next == [inquiries[i] EXCEPT !.at = "lock"]
<1>2. /\ next \in InquiryRecord /\ next.at = "lock" /\ next.host = On(i) /\ next.op = "revoke"
    BY <1>0, Onward DEF InquirySteps, On
<1>3. inquiries' = [inquiries EXCEPT ![i] = next]
    BY <1>0 DEF FlagRevoked, Forward
<1> HIDE DEF next
<1>4. memory[On(i)].root
    BY <1>0 DEF Fresh, Revoking, On
<1>5. ASSUME NEW x, x = next
      PROVE  Fresh(x)'
    BY <1>0, <1>1, <1>2, <1>4, <1>5 DEF Fresh, RootUnderway, ChildUnderway, Revoking, Writing
<1>6. ~InLock(next)
    BY <1>2 DEF InLock, Locked
<1> QED
    BY <1>0, <1>1, <1>2, <1>3, <1>5, <1>6, AsideQuiet DEF Writing

(* When a process takes the registry itself for its copy, no other call of it depends on *)
(* what was there before.                                                               *)
LEMMA ReplacementQuiet ==
    ASSUME CountedInv, QuietInv, NEW i \in Inquirers, NEW at \in {"ensure", "account", "unlock"}, Replace(i, at),
           On(i) \in Hosts, inquiries[i].file = registry,
           UNCHANGED <<registry, accounts, registryLock, answered, losers>>,
           \A j \in Inquirers \ {i} : On(j) = On(i) =>
               ~RootUnderway(inquiries[j]) /\ ~ChildUnderway(inquiries[j]),
           ~Writing(inquiries[i], "root"),
           at # "ensure" => InLock(inquiries[i]),
           at = "account" => inquiries[i].op \in {"root", "child"} /\
                             (inquiries[i].op = "root" => ~registry.root) /\
                             (inquiries[i].op = "child" => registry.root)
    PROVE  QuietInv'
<1> DEFINE next == [inquiries[i] EXCEPT !.at = at, !.current = TRUE]
<1>1. /\ next.at = at /\ next.op = inquiries[i].op /\ next.host = On(i) /\ next.current
    BY Taken DEF InquiryRecord, On
<1>2. /\ inquiries'[i] = next
      /\ \A j \in Inquirers : j # i =>
            inquiries'[j] = [inquiries[j] EXCEPT !.current = @ /\ On(j) # On(i)]
    BY DEF Replace
<1> HIDE DEF next
<1>3. \A j \in Inquirers : j # i =>
         /\ inquiries'[j] \in InquiryRecord
         /\ inquiries'[j].host = inquiries[j].host /\ inquiries'[j].op = inquiries[j].op
         /\ inquiries'[j].child = inquiries[j].child /\ inquiries'[j].at = inquiries[j].at
         /\ inquiries'[j].file = inquiries[j].file
         /\ inquiries'[j].current <=> inquiries[j].current /\ On(j) # On(i)
    <2> SUFFICES ASSUME NEW j \in Inquirers, j # i
                 PROVE  /\ inquiries'[j] \in InquiryRecord
                        /\ inquiries'[j].host = inquiries[j].host /\ inquiries'[j].op = inquiries[j].op
                        /\ inquiries'[j].child = inquiries[j].child /\ inquiries'[j].at = inquiries[j].at
                        /\ inquiries'[j].file = inquiries[j].file
                        /\ inquiries'[j].current <=> inquiries[j].current /\ On(j) # On(i)
        OBVIOUS
    <2> DEFINE v == inquiries[j].current /\ On(j) # On(i)
    <2>1. v \in BOOLEAN
        OBVIOUS
    <2>2. inquiries'[j] = [inquiries[j] EXCEPT !.current = v] /\ inquiries[j] \in InquiryRecord
        BY <1>2, Taken
    <2> HIDE DEF v
    <2>3. /\ inquiries'[j] \in InquiryRecord
          /\ inquiries'[j].host = inquiries[j].host /\ inquiries'[j].op = inquiries[j].op
          /\ inquiries'[j].child = inquiries[j].child /\ inquiries'[j].at = inquiries[j].at
          /\ inquiries'[j].file = inquiries[j].file /\ inquiries'[j].current = v
        BY <2>1, <2>2 DEF InquiryRecord
    <2> QED
        BY <2>3 DEF v
<1>4. OthersStay(i)
    BY <1>3 DEF OthersStay
<1>5. OneHolds'
    <2>1. InLock(next) => registryLock /\ InLock(inquiries[i])
        BY <1>1 DEF InLock, Locked, QuietInv, OneHolds
    <2> QED
        BY <1>2, <1>4, <2>1, Taken, HoldsKept DEF QuietInv
<1>6. memory'[On(i)] = registry /\ \A h \in Hosts : h # On(i) => memory'[h] = memory[h]
    BY Taken DEF Replace
<1>7. memory[On(i)].root => registry.root
    <2>1. ~registry.root => \A j \in Inquirers : ~(On(j) = On(i) /\ Writing(inquiries[j], "root"))
        BY DEF RootUnderway, Writing
    <2> QED
        BY <2>1 DEF QuietInv, RootListed
<1>8. ASSUME NEW j \in Inquirers
      PROVE  Fresh(inquiries[j])'
    <2>1. CASE j = i
        BY <1>1, <1>2, <1>6, <2>1 DEF Fresh, RootUnderway, ChildUnderway, Revoking, Writing
    <2>2. CASE j # i /\ On(j) # On(i)
        <3>1. Fresh(inquiries[j]) /\ (inquiries[j].at # "rest" => inquiries[j].host \in Hosts)
            BY Taken DEF QuietInv, InItsPlace
        <3>2. inquiries[j].host \in Hosts => memory'[inquiries[j].host] = memory[inquiries[j].host]
            BY <1>6, <2>2 DEF On
        <3> QED
            BY <1>3, <2>2, <3>1, <3>2 DEF Fresh, RootUnderway, ChildUnderway, Revoking, Writing
    <2>3. CASE j # i /\ On(j) = On(i)
        <3>1. Fresh(inquiries[j]) /\ ~RootUnderway(inquiries[j]) /\ ~ChildUnderway(inquiries[j])
            BY <2>3 DEF QuietInv
        <3>2. Revoking(inquiries[j]) => memory'[inquiries[j].host].root
            BY <1>6, <1>7, <2>3, <3>1 DEF Fresh, On
        <3> QED
            BY <1>3, <2>3, <3>1, <3>2 DEF Fresh, RootUnderway, ChildUnderway, Revoking, Writing
    <2> QED
        BY <2>1, <2>2, <2>3
<1>9. ASSUME NEW h \in Hosts, memory'[h].root
      PROVE  RootListed(h)'
    <2>1. CASE h = On(i)
        BY <1>6, <1>9, <2>1 DEF RootListed
    <2>2. CASE h # On(i)
        <3>1. RootListed(h)
            BY <1>6, <1>9, <2>2 DEF QuietInv
        <3> QED
            BY <1>3, <2>2, <3>1 DEF RootListed, Writing, On
    <2> QED
        BY <2>1, <2>2
<1>10. AnswersListed'
    BY DEF QuietInv, AnswersListed
<1> QED
    BY <1>5, <1>8, <1>9, <1>10 DEF QuietInv

LEMMA ReplacementsQuiet ==
    ASSUME CountedInv, QuietInv, NEW i \in Inquirers, InstallFirstLoad(i) \/ Reload(i), ~lateLoad'
    PROVE  QuietInv'
<1>0. /\ UNCHANGED <<registry, accounts, registryLock, answered, losers>> /\ On(i) \in Hosts
      /\ inquiries[i].at \in {"install", "reload"}
    BY Taken DEF InstallFirstLoad, Reload, stores, histories, InItsPlace, Reached, On
<1>1. CASE InstallFirstLoad(i)
    <2>1. inquiries[i].file = registry /\ \A j \in Inquirers : On(j) = On(i) => ~inquiries[j].current
        BY <1>1 DEF InstallFirstLoad
    <2>2. \A j \in Inquirers : On(j) = On(i) => ~RootUnderway(inquiries[j]) /\ ~ChildUnderway(inquiries[j])
        BY <2>1 DEF QuietInv, Fresh
    <2> QED
        BY <1>0, <1>1, <2>1, <2>2, ReplacementQuiet DEF InstallFirstLoad, Writing
<1>2. CASE Reload(i)
    <2>1. inquiries[i].file = registry /\ InLock(inquiries[i]) /\ inquiries[i].op \in {"root", "child"}
        BY <1>2, Taken DEF QuietInv, Fresh, InLock, Locked, Reload, Reached, InItsPlace, InquiryRecord
    <2>2. \A j \in Inquirers \ {i} : ~RootUnderway(inquiries[j]) /\ ~ChildUnderway(inquiries[j])
        BY <2>1 DEF QuietInv, OneHolds, RootUnderway, ChildUnderway, InLock, Locked
    <2>3. \E at \in {"account", "unlock"} :
             /\ Replace(i, at)
             /\ at = "account" => (inquiries[i].op = "root" => ~registry.root) /\
                                  (inquiries[i].op = "child" => registry.root)
        BY <1>2, <2>1 DEF Reload
    <2> QED
        BY <1>0, <1>2, <2>1, <2>2, <2>3, ReplacementQuiet DEF Writing, Reload, Reached
<1> QED
    BY <1>1, <1>2

LEMMA SerializingQuiet ==
    ASSUME CountedInv, QuietInv, NEW i \in Inquirers, Reached(i, "serialize"), PersistRegistry(i)
    PROVE  QuietInv'
<1> DEFINE copy == Recorded(i)
           next == [inquiries[i] EXCEPT !.file = copy, !.at = "write"]
<1>0. /\ UNCHANGED <<registry, accounts, registryLock, answered, losers>> /\ On(i) \in Hosts
      /\ memory' = [memory EXCEPT ![On(i)] = copy] /\ inquiries' = [inquiries EXCEPT ![i] = next]
      /\ inquiries[i].op \in {"root", "child", "revoke"} /\ inquiries[i].at = "serialize"
    BY Taken DEF PersistRegistry, histories, Reached, InItsPlace, On, InquiryRecord, CountedInv, DelegationRecords
<1>1. copy \in Task /\ memory[On(i)] \in Task /\ registry \in Task /\ inquiries[i].child \in Grants
    BY <1>0, RecordedIsCounted, Taken DEF InItsPlace
<1>2. /\ inquiries[i].op = "root" => copy.root
      /\ inquiries[i].op = "child" => /\ copy.root = memory[On(i)].root
                                      /\ copy.children = memory[On(i)].children \cup {inquiries[i].child}
      /\ inquiries[i].op = "revoke" => copy = memory[On(i)]
    <2>1. CASE inquiries[i].op = "root"
        BY <2>1 DEF Recorded, NoTask
    <2>2. CASE inquiries[i].op = "child"
        <3>1. inquiries[i].current
            BY <1>0, <2>2 DEF QuietInv, Fresh, ChildUnderway
        <3>2. copy = [memory[On(i)] EXCEPT !.children = @ \cup {inquiries[i].child}]
            BY <2>2, <3>1 DEF Recorded
        <3> QED
            BY <1>1, <2>2, <3>2 DEF Task
    <2>3. CASE inquiries[i].op = "revoke"
        BY <2>3 DEF Recorded
    <2> QED
        BY <1>0, <2>1, <2>2, <2>3
<1> HIDE DEF copy
<1>3. /\ next \in InquiryRecord /\ next.at = "write" /\ next.host = On(i) /\ next.op = inquiries[i].op
      /\ next.child = inquiries[i].child /\ next.file = copy /\ next.current = inquiries[i].current
    BY <1>1, Taken DEF InquiryRecord, InquirySteps, Locked, On
<1> HIDE DEF next
<1>4. InLock(inquiries[i]) /\ registryLock /\ \A j \in Inquirers \ {i} : ~InLock(inquiries[j])
    BY <1>0 DEF InLock, Locked, QuietInv, OneHolds
<1>5. /\ OthersStay(i) /\ inquiries'[i] = next
      /\ \A j \in Inquirers : j # i => inquiries'[j] = inquiries[j]
    BY <1>0, <1>3, OneMoves
<1>6. OneHolds'
    BY <1>0, <1>4, <1>5, HoldsKept, Taken DEF QuietInv
<1>7. memory'[On(i)] = copy /\ \A h \in Hosts : h # On(i) => memory'[h] = memory[h]
    BY <1>0, Taken
<1>8. memory[On(i)].root => copy.root
    BY <1>0, <1>2
<1>9. Fresh(inquiries[i]) /\ (inquiries[i].op \in {"child", "revoke"} => memory[On(i)].root)
    BY <1>0 DEF QuietInv, Fresh, ChildUnderway, Revoking, On
<1>10. ASSUME NEW j \in Inquirers
      PROVE  Fresh(inquiries[j])'
    <2>1. CASE j = i
        <3>1. copy.root
            BY <1>0, <1>2, <1>8, <1>9
        <3>2. inquiries[i].op = "child" => /\ copy.children = registry.children \cup {inquiries[i].child}
                                          /\ answered \subseteq registry.children
            BY <1>0, <1>2, <1>9 DEF Fresh, ChildUnderway, On
        <3>3. inquiries[i].op = "root" => inquiries[i].current /\ ~registry.root
            BY <1>0, <1>9 DEF Fresh, RootUnderway
        <3> QED
            BY <1>0, <1>3, <1>5, <2>1, <3>1, <3>2, <3>3
               DEF Fresh, RootUnderway, ChildUnderway, Revoking, Writing
    <2>2. CASE j # i
        <3>1. /\ Fresh(inquiries[j]) /\ (inquiries[j].at # "rest" => inquiries[j].host \in Hosts)
              /\ ~InLock(inquiries[j]) /\ inquiries[j].op \in {"none", "root", "child", "revoke"}
            BY <1>4, <2>2, Taken DEF QuietInv, InItsPlace, InquiryRecord
        <3>2. Revoking(inquiries[j]) => memory'[inquiries[j].host].root
            BY <1>7, <1>8, <3>1 DEF Fresh, Revoking
        <3> QED
            BY <1>5, <2>2, <3>1, <3>2 DEF Fresh, RootUnderway, ChildUnderway, Revoking, Writing, InLock, Locked
    <2> QED
        BY <2>1, <2>2
<1>11. ASSUME NEW h \in Hosts, memory'[h].root
      PROVE  RootListed(h)'
    <2>1. CASE h = On(i) /\ inquiries[i].op = "root"
        BY <1>3, <1>5, <2>1 DEF RootListed, Writing, On
    <2>2. CASE ~(h = On(i) /\ inquiries[i].op = "root")
        <3>1. memory[h].root
            BY <1>0, <1>7, <1>9, <1>11, <2>2
        <3>2. RootListed(h)
            BY <3>1 DEF QuietInv
        <3>3. \A j \in Inquirers : ~Writing(inquiries[j], "root")
            BY <1>0, <1>4 DEF Writing, InLock, Locked
        <3> QED
            BY <1>0, <3>2, <3>3 DEF RootListed
    <2> QED
        BY <2>1, <2>2
<1>12. AnswersListed'
    BY <1>0 DEF QuietInv, AnswersListed
<1> QED
    BY <1>6, <1>10, <1>11, <1>12 DEF QuietInv

LEMMA WritingQuiet ==
    ASSUME CountedInv, QuietInv, NEW i \in Inquirers, Reached(i, "write"), PersistRegistry(i)
    PROVE  QuietInv'
<1> DEFINE next == [inquiries[i] EXCEPT !.at = "unlock"]
<1>0. /\ UNCHANGED <<accounts, memory, registryLock>> /\ inquiries' = [inquiries EXCEPT ![i] = next]
      /\ registry' = inquiries[i].file /\ inquiries[i].at = "write"
      /\ answered' = (IF inquiries[i].op = "child" THEN answered \cup {inquiries[i].child} ELSE answered)
      /\ losers' = (IF answered \subseteq inquiries[i].file.children THEN losers
                    ELSE losers \cup {inquiries[i].op})
      /\ inquiries[i].op \in {"root", "child", "revoke"}
    BY Taken DEF PersistRegistry, Reached, Forward, CountedInv, DelegationRecords, InItsPlace, InquiryRecord
<1>1. next \in InquiryRecord /\ next.at = "unlock" /\ next.op = inquiries[i].op
    BY Onward DEF InquirySteps, Locked
<1> HIDE DEF next
<1>2. InLock(inquiries[i]) /\ registryLock /\ \A j \in Inquirers \ {i} : ~InLock(inquiries[j])
    BY <1>0 DEF InLock, Locked, QuietInv, OneHolds
<1>3. /\ OthersStay(i) /\ inquiries'[i] = next
      /\ \A j \in Inquirers : j # i => inquiries'[j] = inquiries[j]
    BY <1>0, <1>1, OneMoves
<1>4. OneHolds'
    BY <1>0, <1>2, <1>3, HoldsKept, Taken DEF QuietInv
<1>5. Fresh(inquiries[i]) /\ AnswersListed /\ Backed(inquiries[i])
    BY Taken DEF QuietInv
<1>6. inquiries[i].file.root
    BY <1>0, <1>5 DEF Fresh, Writing
<1>7. ASSUME NEW j \in Inquirers
      PROVE  Fresh(inquiries[j])'
    <2>1. CASE j = i
        BY <1>1, <1>3, <2>1 DEF Fresh, RootUnderway, ChildUnderway, Revoking, Writing
    <2>2. CASE j # i
        <3>1. /\ Fresh(inquiries[j]) /\ ~InLock(inquiries[j])
              /\ inquiries[j].op \in {"none", "root", "child", "revoke"} /\ InItsPlace(inquiries[j])
            BY <1>2, <2>2, Taken DEF QuietInv, InquiryRecord
        <3> QED
            BY <1>0, <1>3, <2>2, <3>1
               DEF Fresh, RootUnderway, ChildUnderway, Revoking, Writing, InLock, Locked, InItsPlace
    <2> QED
        BY <2>1, <2>2
<1>8. \A h \in Hosts : RootListed(h)'
    BY <1>0, <1>6 DEF RootListed
<1>9. AnswersListed'
    <2>1. CASE inquiries[i].op = "root"
        <3>1. answered = {}
            BY <1>0, <1>5, <2>1 DEF Fresh, RootUnderway, AnswersListed
        <3> QED
            BY <1>0, <1>5, <2>1, <3>1 DEF AnswersListed
    <2>2. CASE inquiries[i].op = "child"
        <3>1. /\ answered \subseteq registry.children
              /\ inquiries[i].file.children = registry.children \cup {inquiries[i].child}
            BY <1>0, <1>5, <2>2 DEF Fresh, Writing
        <3> QED
            BY <1>0, <1>5, <1>6, <2>2, <3>1 DEF AnswersListed
    <2>3. CASE inquiries[i].op = "revoke"
        <3>1. accounts.revoked
            BY <1>0, <1>5, <2>3 DEF Backed
        <3> QED
            BY <1>0, <1>5, <1>6, <2>3, <3>1 DEF AnswersListed
    <2> QED
        BY <1>0, <2>1, <2>2, <2>3
<1> QED
    BY <1>4, <1>7, <1>8, <1>9 DEF QuietInv

LEMMA DeathQuiet ==
    ASSUME CountedInv, QuietInv, NEW h \in Hosts, HostDies(h)
    PROVE  QuietInv'
<1>1. /\ UNCHANGED <<registry, accounts, registryLock, answered, losers>>
      /\ memory' = [memory EXCEPT ![h] = NoTask]
      /\ inquiries' = [i \in Inquirers |-> IF On(i) = h THEN Resting ELSE inquiries[i]]
    BY DEF HostDies, stores, histories
<1>2. /\ \A i \in Inquirers : On(i) = h => inquiries'[i] = Resting
      /\ \A i \in Inquirers : On(i) # h => inquiries'[i] = inquiries[i]
      /\ \A g \in Hosts : g # h => memory'[g] = memory[g]
      /\ memory'[h] = NoTask
    BY <1>1 DEF CountedInv, DelegationRecords
<1>3. ~InLock(Resting)
    BY RestingFits DEF InLock, Locked
<1>4. \A i \in Inquirers : InLock(inquiries'[i]) => InLock(inquiries[i])
    BY <1>2, <1>3
<1>5. OneHolds'
    <2>1. \A i \in Inquirers : InLock(inquiries'[i]) <=> InLock(inquiries[i])'
        BY DEF InLock
    <2> QED
        BY <1>1, <1>4, <2>1 DEF QuietInv, OneHolds
<1>6. ASSUME NEW i \in Inquirers
      PROVE  Fresh(inquiries[i])'
    <2>1. CASE On(i) = h
        BY <1>2, <2>1, RestingFits DEF Fresh, RootUnderway, ChildUnderway, Revoking, Writing
    <2>2. CASE On(i) # h
        <3>1. Fresh(inquiries[i]) /\ (inquiries[i].at # "rest" => inquiries[i].host \in Hosts)
            BY Taken DEF QuietInv, InItsPlace
        <3>2. inquiries[i].host \in Hosts => memory'[inquiries[i].host] = memory[inquiries[i].host]
            BY <1>2, <2>2 DEF On
        <3> QED
            BY <1>1, <1>2, <2>2, <3>1, <3>2 DEF Fresh, RootUnderway, ChildUnderway, Revoking, Writing
    <2> QED
        BY <2>1, <2>2
<1>7. ASSUME NEW g \in Hosts, memory'[g].root
      PROVE  RootListed(g)'
    <2>1. g # h
        BY <1>2, <1>7 DEF NoTask
    <2>2. RootListed(g)
        BY <1>2, <1>7, <2>1 DEF QuietInv
    <2> QED
        BY <1>1, <1>2, <2>1, <2>2 DEF RootListed, Writing, On
<1>8. AnswersListed'
    BY <1>1 DEF QuietInv, AnswersListed
<1> QED
    BY <1>5, <1>6, <1>7, <1>8 DEF QuietInv

DelegationInv == CountedInv /\ (Quiet => QuietInv)

LEMMA DelegationStep ==
    ASSUME DelegationInv, [DelegationNext]_delegationVars
    PROVE  DelegationInv'
<1>1. CountedInv /\ CountedInv'
    BY CountedStep DEF DelegationInv
<1>2. Quiet' => Quiet
    <2>1. slow' = 0 => slow = 0
        <3>1. slow' = slow \/ slow' = slow + 1
            BY ZenonT(60) DEF DelegationNext, Inquire, EnsureLoaded, InstallFirstLoad, LookUp, AcquireRegistryLock,
               RemoveOldLock, ReadRegistry, Reload, Account, FlagRevoked, PersistRegistry, ReleaseRegistryLock,
               HostDies, delegationVars
        <3>2. slow \in Nat
            BY <1>1 DEF CountedInv, DelegationRecords
        <3> QED
            BY <3>1, <3>2
    <2>2. lateLoad => lateLoad'
        BY ZenonT(60) DEF DelegationNext, Inquire, EnsureLoaded, InstallFirstLoad, LookUp, AcquireRegistryLock,
           RemoveOldLock, ReadRegistry, Reload, Account, FlagRevoked, PersistRegistry, ReleaseRegistryLock,
           HostDies, delegationVars, histories
    <2> QED
        BY <2>1, <2>2 DEF Quiet
<1>3. ASSUME Quiet', UNCHANGED delegationVars
      PROVE  QuietInv'
    BY <1>2, <1>3 DEF DelegationInv, QuietInv, OneHolds, InLock, Fresh, RootUnderway, ChildUnderway, Revoking,
       Writing, RootListed, On, AnswersListed, delegationVars
<1>4. ASSUME Quiet', DelegationNext
      PROVE  QuietInv'
    <2>1. QuietInv /\ slow' = 0 /\ ~lateLoad'
        BY <1>2, <1>4 DEF DelegationInv, Quiet
    <2>2. ASSUME NEW i \in Inquirers, PersistRegistry(i)
          PROVE  QuietInv'
        BY <1>1, <2>1, <2>2, SerializingQuiet, WritingQuiet DEF PersistRegistry
    <2> QED
        BY <1>1, <1>4, <2>1, <2>2, AsidesQuiet, RemovalQuiet, AccountingQuiet, FlaggingQuiet, ReplacementsQuiet,
           DeathQuiet DEF DelegationNext
<1> QED
    BY <1>1, <1>3, <1>4 DEF DelegationInv

(* What the registry and every copy of it list has been counted by the budget ledger, and *)
(* what was accepted stays listed until the task is revoked, while no slow holder's lock  *)
(* is taken and no first load comes late: for any number of hosts, calls and grants       *)
(* (delegation-service.ts, registerSignedChild, revoke, loadRegistry, persistRegistry).   *)
THEOREM GrantsAreKept == DelegationSpec => []GrantsStand
<1>1. DelegationInit => DelegationInv
    BY CountedStart, QuietStart DEF DelegationInv
<1>2. ASSUME DelegationInv
      PROVE  GrantsStand
    <2>1. slow \in Nat /\ lateLoad \in BOOLEAN /\ ListedIsCounted
        BY <1>2 DEF DelegationInv, CountedInv, DelegationRecords
    <2>2. Quiet \/ slow > 0 \/ lateLoad
        BY <2>1 DEF Quiet
    <2>3. QuietInv => (losers # {} => losers = {"revoke"})
        BY DEF QuietInv, AnswersListed
    <2> QED
        BY <1>2, <2>1, <2>2, <2>3 DEF DelegationInv, GrantsStand, RegistrationsKeepGrants
<1> QED
    BY <1>1, <1>2, DelegationStep, PTL DEF DelegationSpec

-----------------------------------------------------------------------------
(* The sessions of an activation. *)

Lines   == [kind : {"issued", "revoked", "task-revoked"}, token : Nat, profile : Nat]
ActivationRecord == [at : SessionPlaces, profile : 1..Profiles, token : Nat, issued : SUBSET Nat,
                     wrote : SUBSET (1..Profiles)]
GoingUp == {"issue", "load", "append-issued", "release", "write"}
Ended   == {"report", "activated", "unreported"}

SessionRecords ==
    /\ principals \in Seq(Lines) /\ draws \in Nat /\ principalLock \in Operators \cup {"free"}
    /\ tokenFiles \in [1..Profiles -> Blank..draws]
    /\ activation \in [Operators -> ActivationRecord]

(* What the lines say of a token. *)
OfProfile(t, f)  == Line("issued", t, f) \in ToSet(principals)
RevokedToken(t)  == \E line \in ToSet(principals) : line.kind = "revoked" /\ line.token = t
Drawn(t)         == \E f \in 1..Profiles : OfProfile(t, f)

DrawnOnce ==
    /\ \A t, f : OfProfile(t, f) => t \in 1..draws /\ f \in 1..Profiles
    /\ \A t, f, g : OfProfile(t, f) /\ OfProfile(t, g) => f = g
    /\ \A t : RevokedToken(t) => t \in 1..draws

(* What an activation at each of its steps has in hand. *)
Fitting(x) ==
    /\ x.at \in {"rest", "refused"} => x.token = None /\ x.issued = {} /\ x.wrote = {}
    /\ x.at \in {"issue", "load", "append-issued"} \cup Ended => x.token = None
    /\ x.at \in GoingUp => x.wrote = 1..(x.profile - 1)
    /\ x.at \in Ended => x.wrote = 1..Profiles
    /\ x.at \in GoingUp \cup Ended =>
         /\ \A f \in x.wrote : tokenFiles[f] \in x.issued
         /\ \A t \in x.issued : (x.at = "write" /\ t = x.token) \/ \E f \in x.wrote : tokenFiles[f] = t
    /\ \A f \in x.wrote : OfProfile(tokenFiles[f], f)
    /\ \A t \in x.issued : Drawn(t) /\ (RevokedToken(t) => x.at = "release-revoked" /\ t = x.token)
    /\ x.at = "release" /\ x.token # None => OfProfile(x.token, x.profile) /\ ~RevokedToken(x.token)
    /\ x.at = "write" => x.token \in x.issued /\ OfProfile(x.token, x.profile)
    /\ x.at \in {"revoke", "append-revoked", "release-revoked"} => x.token \in x.issued
    /\ x.at = "release-revoked" => RevokedToken(x.token) \/ x.token \in orphans

(* The tokens an activation has drawn and not given up. *)
Mine(x) == x.issued \cup (IF x.at = "release" THEN {x.token} \ {None} ELSE {})

Apart ==
    \A o, p \in Operators : o # p => /\ Mine(activation[o]) \cap Mine(activation[p]) = {}
                                     /\ activation[o].wrote \cap activation[p].wrote = {}

Filed == \A f \in 1..Profiles : tokenFiles[f] \notin {None, Blank} =>
             tokenFiles[f] \in orphans \/ \E o \in Operators : f \in activation[o].wrote

Kept == \A t : Drawn(t) /\ ~RevokedToken(t) => t \in orphans \/ \E o \in Operators : t \in Mine(activation[o])

HandsInv ==
    /\ SessionRecords /\ DrawnOnce
    /\ \A o \in Operators : Fitting(activation[o])
    /\ Apart /\ Filed /\ Kept

LEMMA AppendedLine ==
    ASSUME NEW s \in Seq(Lines), NEW e \in Lines
    PROVE  Append(s, e) \in Seq(Lines) /\ ToSet(Append(s, e)) = ToSet(s) \cup {e}
<1>1. /\ Append(s, e) \in Seq(Lines) /\ Len(Append(s, e)) = Len(s) + 1 /\ Len(s) \in Nat
      /\ \A i \in 1..Len(s) : Append(s, e)[i] = s[i]
      /\ Append(s, e)[Len(s) + 1] = e
      /\ DOMAIN s = 1..Len(s) /\ DOMAIN Append(s, e) = 1..(Len(s) + 1)
    OBVIOUS
<1>2. ToSet(Append(s, e)) \subseteq ToSet(s) \cup {e}
    <2> SUFFICES ASSUME NEW x \in ToSet(Append(s, e))
                 PROVE  x \in ToSet(s) \cup {e}
        OBVIOUS
    <2>1. PICK i \in 1..(Len(s) + 1) : Append(s, e)[i] = x
        BY <1>1 DEF ToSet
    <2>2. CASE i = Len(s) + 1
        BY <1>1, <2>1, <2>2
    <2>3. CASE i # Len(s) + 1
        <3>1. i \in 1..Len(s) /\ s[i] = x
            BY <1>1, <2>1, <2>3
        <3> QED
            BY <1>1, <3>1 DEF ToSet
    <2> QED
        BY <2>2, <2>3
<1>3. ToSet(s) \cup {e} \subseteq ToSet(Append(s, e))
    <2>1. ASSUME NEW x \in ToSet(s)
          PROVE  x \in ToSet(Append(s, e))
        <3>1. PICK i \in 1..Len(s) : s[i] = x
            BY <1>1, <2>1 DEF ToSet
        <3>2. i \in 1..(Len(s) + 1) /\ Append(s, e)[i] = x
            BY <1>1, <3>1
        <3> QED
            BY <1>1, <3>2 DEF ToSet
    <2>2. e \in ToSet(Append(s, e))
        <3>1. Len(s) + 1 \in 1..(Len(s) + 1)
            BY <1>1
        <3> QED
            BY <1>1, <3>1 DEF ToSet
    <2> QED
        BY <2>1, <2>2
<1> QED
    BY <1>1, <1>2, <1>3

LEMMA LinesKnown ==
    ASSUME SessionRecords
    PROVE  /\ ToSet(principals) \subseteq Lines
           /\ \A line \in ToSet(principals) : line.kind = "issued" => OfProfile(line.token, line.profile)
           /\ \A t, f : OfProfile(t, f) => /\ Line("issued", t, f).kind = "issued"
                                          /\ Line("issued", t, f).token = t /\ Line("issued", t, f).profile = f
<1>1. ToSet(principals) \subseteq Lines
    BY DEF SessionRecords, ToSet
<1>2. \A line \in Lines : line = Line(line.kind, line.token, line.profile)
    BY DEF Lines, Line
<1> QED
    BY <1>1, <1>2 DEF OfProfile, Line

LEMMA LiveAre ==
    ASSUME SessionRecords, DrawnOnce
    PROVE  \A t : t \in LiveTokens <=> ~RevokedTask /\ Drawn(t) /\ ~RevokedToken(t)
<1>1. \A t : (\E line \in ToSet(principals) : line.kind = "issued" /\ line.token = t) <=> Drawn(t)
    <2>1. ASSUME NEW line \in ToSet(principals), line.kind = "issued"
          PROVE  Drawn(line.token)
        BY <2>1, LinesKnown DEF Drawn, DrawnOnce
    <2>2. ASSUME NEW t, Drawn(t)
          PROVE  \E line \in ToSet(principals) : line.kind = "issued" /\ line.token = t
        <3>1. PICK f \in 1..Profiles : OfProfile(t, f)
            BY <2>2 DEF Drawn
        <3>2. Line("issued", t, f) \in ToSet(principals)
            BY <3>1 DEF OfProfile
        <3> QED
            BY <3>1, <3>2, LinesKnown
    <2> QED
        BY <2>1, <2>2
<1> QED
    BY <1>1 DEF LiveTokens, RevokedToken

LEMMA ProfileIs ==
    ASSUME SessionRecords, DrawnOnce, NEW t, NEW f, OfProfile(t, f)
    PROVE  ProfileOf(t) = f
<1> DEFINE line == CHOOSE x \in ToSet(principals) : x.kind = "issued" /\ x.token = t
<1>1. \E x \in ToSet(principals) : x.kind = "issued" /\ x.token = t
    <2>1. Line("issued", t, f) \in ToSet(principals)
        BY DEF OfProfile
    <2> QED
        BY <2>1, LinesKnown
<1>2. line \in ToSet(principals) /\ line.kind = "issued" /\ line.token = t
    BY <1>1
<1>3. OfProfile(t, line.profile)
    <2> HIDE DEF line
    <2> QED
        BY <1>2, LinesKnown
<1> QED
    BY <1>3 DEF DrawnOnce, ProfileOf

LEMMA HandsStart == SessionInit => HandsInv
<1> SUFFICES ASSUME SessionInit
             PROVE  HandsInv
    OBVIOUS
<1>1. ToSet(principals) = {}
    BY DEF SessionInit, ToSet
<1>2. \A t, f : ~OfProfile(t, f) /\ ~RevokedToken(t)
    BY <1>1 DEF OfProfile, RevokedToken
<1>3. \A o \in Operators : activation[o] = AtRest
    BY DEF SessionInit
<1>4. AtRest \in ActivationRecord
    BY SessionAssumption DEF AtRest, ActivationRecord, SessionPlaces, None
<1>5. SessionRecords
    BY <1>4 DEF SessionInit, SessionRecords, None, Blank
<1>6. Fitting(AtRest) /\ Mine(AtRest) = {} /\ AtRest.wrote = {}
    BY DEF AtRest, Fitting, GoingUp, Ended, Mine
<1>7. Apart /\ Filed
    BY <1>3, <1>6 DEF Apart, Filed, SessionInit
<1> QED
    BY <1>2, <1>3, <1>5, <1>6, <1>7 DEF HandsInv, DrawnOnce, Kept, Drawn

(* Whatever an operator does, the others keep what they have in hand, when it touches no   *)
(* file of theirs and revokes none of their tokens.                                      *)
LEMMA OthersFit ==
    ASSUME HandsInv, NEW o \in Operators, NEW p \in Operators \ {o}, activation'[p] = activation[p],
           \A t, f : OfProfile(t, f) => OfProfile(t, f)', orphans \subseteq orphans',
           \A t : RevokedToken(t) => RevokedToken(t)',
           \A t : RevokedToken(t)' => RevokedToken(t) \/ t \in Mine(activation[o]),
           \A f \in 1..Profiles : tokenFiles'[f] = tokenFiles[f] \/ f \in activation[o].wrote
                                                               \/ tokenFiles[f] = None
    PROVE  Fitting(activation[p])'
<1> DEFINE x == activation[p]
<1>1. Fitting(x) /\ x \in ActivationRecord
    BY DEF HandsInv, SessionRecords
<1>2. Mine(x) \cap Mine(activation[o]) = {} /\ x.wrote \cap activation[o].wrote = {}
    BY DEF HandsInv, Apart
<1>3. \A f \in x.wrote : f \in 1..Profiles /\ tokenFiles[f] \in 1..draws
    BY <1>1 DEF Fitting, ActivationRecord, HandsInv, DrawnOnce
<1>4. \A f \in x.wrote : tokenFiles'[f] = tokenFiles[f]
    BY <1>2, <1>3 DEF None, HandsInv, SessionRecords
<1>5. \A t \in Mine(x) : RevokedToken(t)' <=> RevokedToken(t)
    BY <1>2
<1>6. x.issued \subseteq Mine(x) /\ (x.at = "release" /\ x.token # None => x.token \in Mine(x))
    BY DEF Mine
<1> HIDE DEF x
<1>7. ASSUME NEW y, y = x
      PROVE  Fitting(y)'
    <2>1. /\ \A f \in y.wrote : OfProfile(tokenFiles[f], f)
          /\ \A t \in y.issued : Drawn(t) /\ (RevokedToken(t) => y.at = "release-revoked" /\ t = y.token)
        BY <1>1, <1>7 DEF Fitting
    <2>2. \A f \in y.wrote : OfProfile(tokenFiles[f], f)'
        BY <1>4, <1>7, <2>1 DEF OfProfile
    <2>3. \A t \in y.issued : Drawn(t)' /\ (RevokedToken(t)' => y.at = "release-revoked" /\ t = y.token)
        BY <1>5, <1>6, <1>7, <2>1 DEF Drawn
    <2>4. y.at = "release" /\ y.token # None => OfProfile(y.token, y.profile)' /\ ~RevokedToken(y.token)'
        BY <1>1, <1>5, <1>6, <1>7 DEF Fitting
    <2>5. /\ y.at = "write" => y.token \in y.issued /\ OfProfile(y.token, y.profile)'
          /\ y.at = "release-revoked" => RevokedToken(y.token)' \/ y.token \in orphans'
        BY <1>1, <1>7 DEF Fitting
    <2>6. y.at \in GoingUp \cup Ended =>
            /\ \A f \in y.wrote : tokenFiles'[f] \in y.issued
            /\ \A t \in y.issued : (y.at = "write" /\ t = y.token) \/ \E f \in y.wrote : tokenFiles'[f] = t
        BY <1>1, <1>4, <1>7 DEF Fitting
    <2> QED
        BY <1>1, <1>7, <2>2, <2>3, <2>4, <2>5, <2>6 DEF Fitting
<1> QED
    BY <1>7 DEF x, Fitting, OfProfile, RevokedToken, Drawn

(* A step of one operator keeps the invariant when it fits, takes only what was nobody's,  *)
(* and accounts for what it lets go.                                                     *)
LEMMA HandsKept ==
    ASSUME HandsInv, NEW o \in Operators, NEW next \in ActivationRecord,
           activation' = [activation EXCEPT ![o] = next],
           principals' \in Seq(Lines), draws' \in Nat, principalLock' \in Operators \cup {"free"},
           tokenFiles' \in [1..Profiles -> Blank..draws'], DrawnOnce',
           \A t, f : OfProfile(t, f) => OfProfile(t, f)', orphans \subseteq orphans',
           \A t : RevokedToken(t) => RevokedToken(t)',
           \A t : RevokedToken(t)' => RevokedToken(t) \/ t \in Mine(activation[o]),
           \A f \in 1..Profiles : tokenFiles'[f] = tokenFiles[f] \/ f \in activation[o].wrote
                                                               \/ tokenFiles[f] = None,
           \A x : x = next => Fitting(x)',
           \A t \in Mine(next) : t \in Mine(activation[o]) \/ ~Drawn(t),
           \A f \in next.wrote : f \in activation[o].wrote \/ tokenFiles[f] = None,
           \A f \in 1..Profiles :
               f \in activation[o].wrote \/ tokenFiles'[f] # tokenFiles[f] =>
                   tokenFiles'[f] \in {None, Blank} \/ f \in next.wrote \/ tokenFiles'[f] \in orphans',
           \A t : Drawn(t)' /\ ~RevokedToken(t)' =>
               (Drawn(t) /\ t \notin Mine(activation[o])) \/ t \in Mine(next) \/ t \in orphans'
    PROVE  HandsInv'
<1>1. /\ activation'[o] = next /\ \A p \in Operators : p # o => activation'[p] = activation[p]
      /\ activation' \in [Operators -> ActivationRecord]
    BY DEF HandsInv, SessionRecords
<1>2. SessionRecords'
    BY <1>1 DEF SessionRecords
<1>3. ASSUME NEW p \in Operators
      PROVE  Fitting(activation[p])'
    <2>1. CASE p = o
        BY <1>1, <2>1 DEF Fitting, OfProfile, RevokedToken, Drawn
    <2>2. CASE p # o
        BY <1>1, <2>2, OthersFit
    <2> QED
        BY <2>1, <2>2
<1>4. \A p \in Operators \ {o} : /\ \A t \in Mine(activation[p]) : Drawn(t)
                                 /\ \A f \in activation[p].wrote : tokenFiles[f] # None
    <2> SUFFICES ASSUME NEW p \in Operators \ {o}
                 PROVE  /\ \A t \in Mine(activation[p]) : Drawn(t)
                        /\ \A f \in activation[p].wrote : tokenFiles[f] # None
        OBVIOUS
    <2>1. Fitting(activation[p]) /\ DrawnOnce
        BY DEF HandsInv
    <2>2. \A t \in Mine(activation[p]) : Drawn(t)
        BY <2>1 DEF Fitting, Mine, Drawn, DrawnOnce
    <2>3. \A f \in activation[p].wrote : tokenFiles[f] # None
        BY <2>1 DEF Fitting, DrawnOnce, None
    <2> QED
        BY <2>2, <2>3
<1>5. Apart'
    <2>0. Apart
        BY DEF HandsInv
    <2>1. ASSUME NEW p \in Operators, p # o
          PROVE  /\ Mine(next) \cap Mine(activation[p]) = {}
                 /\ next.wrote \cap activation[p].wrote = {}
        <3>1. Mine(activation[o]) \cap Mine(activation[p]) = {} /\ activation[o].wrote \cap activation[p].wrote = {}
            BY <2>0, <2>1 DEF Apart
        <3> QED
            BY <1>4, <2>1, <3>1
    <2>2. \A p, q \in Operators : p # q => /\ Mine(activation'[p]) \cap Mine(activation'[q]) = {}
                                          /\ activation'[p].wrote \cap activation'[q].wrote = {}
        BY <1>1, <2>0, <2>1 DEF Apart
    <2>3. \A p \in Operators : Mine(activation'[p]) = Mine(activation[p])'
        BY DEF Mine
    <2> QED
        BY <2>2, <2>3 DEF Apart
<1>6. Filed'
    <2> SUFFICES ASSUME NEW f \in 1..Profiles, tokenFiles'[f] \notin {None, Blank}
                 PROVE  tokenFiles'[f] \in orphans' \/ \E p \in Operators : f \in activation'[p].wrote
        BY DEF Filed, None, Blank
    <2>1. CASE f \in activation[o].wrote \/ tokenFiles'[f] # tokenFiles[f]
        BY <1>1, <2>1
    <2>2. CASE f \notin activation[o].wrote /\ tokenFiles'[f] = tokenFiles[f]
        <3>1. tokenFiles[f] \in orphans \/ \E p \in Operators : f \in activation[p].wrote
            BY <2>2 DEF HandsInv, Filed
        <3> QED
            BY <1>1, <2>2, <3>1
    <2> QED
        BY <2>1, <2>2
<1>7. Kept'
    <2> SUFFICES ASSUME NEW t, Drawn(t)', ~RevokedToken(t)'
                 PROVE  t \in orphans' \/ \E p \in Operators : t \in Mine(activation'[p])
        BY DEF Kept, Mine
    <2>1. CASE t \in Mine(next) \/ t \in orphans'
        BY <1>1, <2>1
    <2>2. CASE Drawn(t) /\ t \notin Mine(activation[o])
        <3>1. t \in orphans \/ \E p \in Operators : t \in Mine(activation[p])
            BY <2>2 DEF HandsInv, Kept
        <3> QED
            BY <1>1, <2>2, <3>1
    <2> QED
        BY <2>1, <2>2
<1> QED
    BY <1>2, <1>3, <1>5, <1>6, <1>7 DEF HandsInv

(* A step that leaves the lines and the files as they are. *)
LEMMA InHand ==
    ASSUME HandsInv, NEW o \in Operators, NEW next \in ActivationRecord,
           activation' = [activation EXCEPT ![o] = next],
           UNCHANGED <<principals, draws, tokenFiles>>, principalLock' \in Operators \cup {"free"},
           orphans \subseteq orphans', Fitting(next), Mine(next) \subseteq Mine(activation[o]),
           next.wrote = activation[o].wrote,
           \A t \in Mine(activation[o]) \ Mine(next) : RevokedToken(t) \/ t \in orphans'
    PROVE  HandsInv'
<1>1. /\ \A t, f : OfProfile(t, f)' <=> OfProfile(t, f)
      /\ \A t : RevokedToken(t)' <=> RevokedToken(t)
      /\ \A t : Drawn(t)' <=> Drawn(t)
    BY DEF OfProfile, RevokedToken, Drawn
<1>2. DrawnOnce'
    BY <1>1 DEF HandsInv, DrawnOnce
<1>3. \A x : Fitting(x) => Fitting(x)'
    BY <1>1 DEF Fitting
<1>4. principals' \in Seq(Lines) /\ draws' \in Nat /\ tokenFiles' \in [1..Profiles -> Blank..draws']
    BY DEF HandsInv, SessionRecords
<1> QED
    BY <1>1, <1>2, <1>3, <1>4, HandsKept

LEMMA Acting ==
    ASSUME HandsInv, NEW o \in Operators
    PROVE  /\ activation \in [Operators -> ActivationRecord] /\ activation[o] \in ActivationRecord
           /\ Fitting(activation[o]) /\ principalLock \in Operators \cup {"free"}
           /\ activation[o].profile \in 1..Profiles /\ activation[o].token \in Nat
           /\ activation[o].issued \subseteq Nat /\ activation[o].wrote \subseteq 1..Profiles
           /\ Profiles \in Nat /\ Profiles # 0
BY SessionAssumption DEF HandsInv, SessionRecords, ActivationRecord

(* An operator goes on to another step with what it has. *)
LEMMA Proceeds ==
    ASSUME HandsInv, NEW o \in Operators, NEW at \in SessionPlaces
    PROVE  LET next == [activation[o] EXCEPT !.at = at]
           IN  /\ next \in ActivationRecord /\ next.at = at /\ next.profile = activation[o].profile
               /\ next.token = activation[o].token /\ next.issued = activation[o].issued
               /\ next.wrote = activation[o].wrote
BY Acting DEF ActivationRecord

LEMMA ContinueKeeps ==
    ASSUME HandsInv, NEW o \in Operators, NEW at \in SessionPlaces, Continue(o, at),
           UNCHANGED <<principals, draws, tokenFiles>>, principalLock' \in Operators \cup {"free"},
           orphans \subseteq orphans',
           \/ activation[o].at = "issue" /\ at \in {"load", "undo"}
           \/ activation[o].at = "load" /\ at \in {"append-issued", "release"}
           \/ activation[o].at = "append-issued" /\ at = "release"
           \/ activation[o].at = "revoke" /\ at = "append-revoked"
           \/ activation[o].at = "append-revoked" /\ at = "release-revoked" /\ activation[o].token \in orphans'
           \/ activation[o].at = "report" /\ at \in {"activated", "unreported"}
    PROVE  HandsInv'
<1> DEFINE next == [activation[o] EXCEPT !.at = at]
<1>1. /\ next \in ActivationRecord /\ next.at = at /\ next.profile = activation[o].profile
      /\ next.token = activation[o].token /\ next.issued = activation[o].issued
      /\ next.wrote = activation[o].wrote
    BY Proceeds
<1>2. activation' = [activation EXCEPT ![o] = next]
    BY Acting DEF Continue
<1> HIDE DEF next
<1>3. Fitting(activation[o])
    BY Acting
<1>4. Mine(next) = Mine(activation[o])
    BY <1>1, <1>3 DEF Mine, Fitting, Ended
<1>5. ASSUME NEW x, x = next
      PROVE  Fitting(x)'
    <2>1. /\ \A t, f : OfProfile(t, f)' <=> OfProfile(t, f)
          /\ \A t : RevokedToken(t)' <=> RevokedToken(t)
          /\ \A t : Drawn(t)' <=> Drawn(t)
        BY DEF OfProfile, RevokedToken, Drawn
    <2> QED
        BY <1>1, <1>3, <1>5, <2>1 DEF Fitting, GoingUp, Ended
<1>6. /\ \A t, f : OfProfile(t, f)' <=> OfProfile(t, f)
      /\ \A t : RevokedToken(t)' <=> RevokedToken(t)
      /\ \A t : Drawn(t)' <=> Drawn(t)
    BY DEF OfProfile, RevokedToken, Drawn
<1>7. DrawnOnce'
    BY <1>6 DEF HandsInv, DrawnOnce
<1>8. principals' \in Seq(Lines) /\ draws' \in Nat /\ tokenFiles' \in [1..Profiles -> Blank..draws']
    BY DEF HandsInv, SessionRecords
<1> QED
    BY <1>1, <1>2, <1>4, <1>5, <1>6, <1>7, <1>8, HandsKept

LEMMA GoingOnHands ==
    ASSUME HandsInv, NEW o \in Operators,
           \/ AcquireFileLock(o) \/ (RegistryBusy(o) /\ InPlace(o, "issue")) \/ LoadUnlocked(o) \/ AppendTorn(o)
           \/ ReportActivation(o)
    PROVE  HandsInv'
<1>0. UNCHANGED <<principals, draws, tokenFiles>> /\ principalLock \in Operators \cup {"free"}
    BY Acting DEF AcquireFileLock, RegistryBusy, LoadUnlocked, AppendTorn, ReportActivation, registryFile, limits
<1>1. CASE AcquireFileLock(o)
    <2> DEFINE at == IF InPlace(o, "issue") THEN "load" ELSE "append-revoked"
    <2>1. Continue(o, at) /\ principalLock' = o /\ orphans' = orphans /\ at \in SessionPlaces
        BY <1>1 DEF AcquireFileLock, SessionPlaces
    <2>2. \/ activation[o].at = "issue" /\ at = "load"
          \/ activation[o].at = "revoke" /\ at = "append-revoked"
        BY <1>1 DEF AcquireFileLock, InPlace
    <2> HIDE DEF at
    <2> QED
        BY <1>0, <2>1, <2>2, ContinueKeeps
<1>2. CASE RegistryBusy(o) /\ InPlace(o, "issue")
    <2>1. Continue(o, "undo") /\ orphans' = orphans /\ principalLock' = principalLock /\ activation[o].at = "issue"
        BY <1>2 DEF RegistryBusy, InPlace
    <2> QED
        BY <1>0, <2>1, ContinueKeeps DEF SessionPlaces
<1>3. CASE LoadUnlocked(o)
    <2>1. \E at \in {"append-issued", "release"} : Continue(o, at)
        BY <1>3 DEF LoadUnlocked
    <2>2. orphans' = orphans /\ principalLock' = principalLock /\ activation[o].at = "load"
        BY <1>3 DEF LoadUnlocked, InPlace
    <2> QED
        BY <1>0, <2>1, <2>2, ContinueKeeps DEF SessionPlaces
<1>4. CASE AppendTorn(o)
    <2>1. principalLock' = principalLock
        BY <1>4 DEF AppendTorn
    <2>2. CASE activation[o].at = "append-issued"
        <3>1. Continue(o, "release") /\ orphans' = orphans
            BY <1>4, <2>2 DEF AppendTorn, InPlace
        <3> QED
            BY <1>0, <2>1, <2>2, <3>1, ContinueKeeps DEF SessionPlaces
    <2>3. CASE activation[o].at = "append-revoked"
        <3>1. Continue(o, "release-revoked") /\ orphans' = orphans \cup {activation[o].token}
            BY <1>4, <2>3 DEF AppendTorn, InPlace
        <3> QED
            BY <1>0, <2>1, <2>3, <3>1, ContinueKeeps DEF SessionPlaces
    <2> QED
        BY <1>4, <2>2, <2>3 DEF AppendTorn
<1>5. CASE ReportActivation(o)
    <2>1. \E at \in {"activated", "unreported"} : Continue(o, at)
        BY <1>5 DEF ReportActivation
    <2>2. orphans' = orphans /\ principalLock' = principalLock /\ activation[o].at = "report"
        BY <1>5 DEF ReportActivation, InPlace
    <2> QED
        BY <1>0, <2>1, <2>2, ContinueKeeps DEF SessionPlaces
<1> QED
    BY <1>1, <1>2, <1>3, <1>4, <1>5

LEMMA EndingHands ==
    ASSUME HandsInv, NEW o \in Operators,
           \/ ResolveBindings(o) \/ (RegistryBusy(o) /\ ~InPlace(o, "issue")) \/ ReleaseFileLock(o)
           \/ RevokeIssued(o)
    PROVE  HandsInv'
<1>0. /\ UNCHANGED <<principals, draws, tokenFiles>> /\ principalLock' \in Operators \cup {"free"}
      /\ orphans \subseteq orphans'
      /\ activation \in [Operators -> ActivationRecord] /\ activation[o] \in ActivationRecord
      /\ Fitting(activation[o])
    BY Acting DEF ResolveBindings, RegistryBusy, ReleaseFileLock, RevokeIssued, registryFile, limits
<1>1. CASE ResolveBindings(o)
    <2>1. PICK at \in {"issue", "refused"} : activation' = [activation EXCEPT ![o] = [AtRest EXCEPT !.at = at]]
        BY <1>1 DEF ResolveBindings
    <2> DEFINE next == [AtRest EXCEPT !.at = at]
    <2>2. /\ next \in ActivationRecord /\ next.at = at /\ next.profile = 1 /\ next.token = None
          /\ next.issued = {} /\ next.wrote = {}
        BY Acting DEF AtRest, ActivationRecord, SessionPlaces, None
    <2>3. activation' = [activation EXCEPT ![o] = next]
        BY <2>1
    <2> HIDE DEF next
    <2>4. Fitting(next) /\ Mine(next) = {}
        BY <2>2 DEF Fitting, GoingUp, Ended, Mine
    <2>5. Mine(activation[o]) = {} /\ activation[o].wrote = {}
        BY <1>0, <1>1 DEF ResolveBindings, Fitting, Mine
    <2> QED
        BY <1>0, <2>2, <2>3, <2>4, <2>5, InHand
<1>2. CASE RegistryBusy(o) /\ ~InPlace(o, "issue")
    <2> DEFINE next == [activation[o] EXCEPT !.at = "undo", !.issued = @ \ {activation[o].token}]
    <2>1. /\ next \in ActivationRecord /\ next.at = "undo" /\ next.wrote = activation[o].wrote
          /\ next.issued = activation[o].issued \ {activation[o].token}
        BY <1>0 DEF ActivationRecord, SessionPlaces
    <2>2. /\ activation' = [activation EXCEPT ![o] = next] /\ activation[o].at = "revoke"
          /\ orphans' = orphans \cup {activation[o].token}
        BY <1>0, <1>2 DEF RegistryBusy, InPlace
    <2> HIDE DEF next
    <2>3. Fitting(next)
        BY <1>0, <2>1, <2>2 DEF Fitting, GoingUp, Ended
    <2>4. Mine(next) = Mine(activation[o]) \ {activation[o].token}
        BY <2>1, <2>2 DEF Mine
    <2> QED
        BY <1>0, <2>1, <2>2, <2>3, <2>4, InHand
<1>3. CASE ReleaseFileLock(o) /\ InPlace(o, "release-revoked")
    <2> DEFINE next == [activation[o] EXCEPT !.at = "undo", !.issued = @ \ {activation[o].token}, !.token = None]
    <2>1. /\ next \in ActivationRecord /\ next.at = "undo" /\ next.wrote = activation[o].wrote
          /\ next.issued = activation[o].issued \ {activation[o].token}
        BY <1>0 DEF ActivationRecord, SessionPlaces, None
    <2>2. activation' = [activation EXCEPT ![o] = next] /\ activation[o].at = "release-revoked"
        BY <1>0, <1>3 DEF ReleaseFileLock, InPlace
    <2> HIDE DEF next
    <2>3. Fitting(next)
        BY <1>0, <2>1, <2>2 DEF Fitting, GoingUp, Ended
    <2>4. Mine(next) = Mine(activation[o]) \ {activation[o].token}
        BY <2>1, <2>2 DEF Mine
    <2>5. RevokedToken(activation[o].token) \/ activation[o].token \in orphans'
        BY <1>0, <2>2 DEF Fitting
    <2> QED
        BY <1>0, <2>1, <2>2, <2>3, <2>4, <2>5, InHand
<1>4. CASE ReleaseFileLock(o) /\ InPlace(o, "release") /\ activation[o].token = None
    <2> DEFINE next == [activation[o] EXCEPT !.at = "undo"]
    <2>1. /\ next \in ActivationRecord /\ next.at = "undo" /\ next.wrote = activation[o].wrote
          /\ next.issued = activation[o].issued
        BY <1>0 DEF ActivationRecord, SessionPlaces
    <2>2. activation' = [activation EXCEPT ![o] = next] /\ activation[o].at = "release"
        BY <1>0, <1>4 DEF ReleaseFileLock, InPlace
    <2> HIDE DEF next
    <2>3. Fitting(next)
        BY <1>0, <2>1, <2>2 DEF Fitting, GoingUp, Ended
    <2>4. Mine(next) = Mine(activation[o])
        BY <1>4, <2>1, <2>2 DEF Mine
    <2> QED
        BY <1>0, <2>1, <2>2, <2>3, <2>4, InHand
<1>5. CASE ReleaseFileLock(o) /\ InPlace(o, "release") /\ activation[o].token # None
    <2> DEFINE next == [activation[o] EXCEPT !.at = "write", !.issued = @ \cup {activation[o].token}]
    <2>1. /\ next \in ActivationRecord /\ next.at = "write" /\ next.wrote = activation[o].wrote
          /\ next.issued = activation[o].issued \cup {activation[o].token}
          /\ next.token = activation[o].token /\ next.profile = activation[o].profile
        BY <1>0 DEF ActivationRecord, SessionPlaces
    <2>2. activation' = [activation EXCEPT ![o] = next] /\ activation[o].at = "release"
        BY <1>0, <1>5 DEF ReleaseFileLock, InPlace
    <2> HIDE DEF next
    <2>3. Drawn(activation[o].token) /\ OfProfile(activation[o].token, activation[o].profile)
        BY <1>0, <1>5, <2>2 DEF Fitting, Drawn, ActivationRecord
    <2>4. Fitting(next)
        BY <1>0, <1>5, <2>1, <2>2, <2>3 DEF Fitting, GoingUp, Ended
    <2>5. Mine(next) = Mine(activation[o])
        BY <1>5, <2>1, <2>2 DEF Mine
    <2> QED
        BY <1>0, <2>1, <2>2, <2>4, <2>5, InHand
<1>6. CASE RevokeIssued(o)
    <2>1. PICK token \in activation[o].issued :
              IF tornLine
              THEN /\ activation' = [activation EXCEPT ![o].issued = @ \ {token}]
                   /\ orphans' = orphans \cup {token}
              ELSE /\ activation' = [activation EXCEPT ![o].at = "revoke", ![o].token = token]
                   /\ UNCHANGED orphans
        BY <1>6 DEF RevokeIssued
    <2>2. activation[o].at = "undo"
        BY <1>6 DEF RevokeIssued, InPlace
    <2>3. CASE tornLine
        <3> DEFINE next == [activation[o] EXCEPT !.issued = @ \ {token}]
        <3>1. /\ next \in ActivationRecord /\ next.at = "undo" /\ next.wrote = activation[o].wrote
              /\ next.issued = activation[o].issued \ {token}
            BY <1>0, <2>2 DEF ActivationRecord
        <3>2. activation' = [activation EXCEPT ![o] = next] /\ orphans' = orphans \cup {token}
            BY <1>0, <2>1, <2>3
        <3> HIDE DEF next
        <3>3. Fitting(next)
            BY <1>0, <2>2, <3>1 DEF Fitting, GoingUp, Ended
        <3>4. Mine(next) = Mine(activation[o]) \ {token}
            BY <2>2, <3>1 DEF Mine
        <3> QED
            BY <1>0, <3>1, <3>2, <3>3, <3>4, InHand
    <2>4. CASE ~tornLine
        <3> DEFINE next == [activation[o] EXCEPT !.at = "revoke", !.token = token]
        <3>1. /\ next \in ActivationRecord /\ next.at = "revoke" /\ next.wrote = activation[o].wrote
              /\ next.issued = activation[o].issued /\ next.token = token
            BY <1>0, <2>2 DEF ActivationRecord, SessionPlaces
        <3>2. activation' = [activation EXCEPT ![o] = next]
            BY <1>0, <2>1, <2>4
        <3> HIDE DEF next
        <3>3. Fitting(next)
            BY <1>0, <2>2, <3>1 DEF Fitting, GoingUp, Ended
        <3>4. Mine(next) = Mine(activation[o])
            BY <2>2, <3>1 DEF Mine
        <3> QED
            BY <1>0, <3>1, <3>2, <3>3, <3>4, InHand
    <2> QED
        BY <2>3, <2>4
<1> QED
    BY <1>1, <1>2, <1>3, <1>4, <1>5, <1>6 DEF ReleaseFileLock, InPlace

(* What a line that is added changes of what the lines say. *)
LEMMA LineAdded ==
    ASSUME HandsInv, NEW line \in Lines, principals' = Append(principals, line)
    PROVE  /\ principals' \in Seq(Lines)
           /\ \A t, f : OfProfile(t, f)' <=> OfProfile(t, f) \/ Line("issued", t, f) = line
           /\ \A t : RevokedToken(t)' <=> RevokedToken(t) \/ (line.kind = "revoked" /\ line.token = t)
           /\ RevokedTask' <=> RevokedTask \/ line.kind = "task-revoked"
<1>1. /\ principals' \in Seq(Lines) /\ ToSet(principals') = ToSet(principals) \cup {line}
    BY AppendedLine DEF HandsInv, SessionRecords
<1>2. ToSet(principals)' = ToSet(principals')
    BY DEF ToSet
<1> QED
    BY <1>1, <1>2 DEF OfProfile, RevokedToken, RevokedTask

LEMMA IssueHands ==
    ASSUME HandsInv, NEW o \in Operators, AppendIssued(o)
    PROVE  HandsInv'
<1> DEFINE token == draws + 1
           profile == activation[o].profile
           line == Line("issued", token, profile)
           next == [activation[o] EXCEPT !.at = "release", !.token = token]
<1>0. /\ draws \in Nat /\ activation[o] \in ActivationRecord /\ profile \in 1..Profiles /\ Fitting(activation[o])
      /\ activation \in [Operators -> ActivationRecord] /\ DrawnOnce
      /\ tokenFiles \in [1..Profiles -> Blank..draws] /\ Profiles \in Nat
    BY Acting DEF HandsInv, SessionRecords
<1>1. /\ draws' = token /\ activation' = [activation EXCEPT ![o] = next] /\ principals' = Append(principals, line)
      /\ UNCHANGED <<principalLock, tokenFiles, orphans>> /\ activation[o].at = "append-issued"
    BY <1>0 DEF AppendIssued, InPlace
<1>2. line \in Lines /\ line.kind = "issued"
    BY <1>0 DEF Line, Lines
<1>3. \A t, f : Line("issued", t, f) = line <=> t = token /\ f = profile
    BY DEF Line
<1>5. token \in Nat /\ token # None /\ token \notin 1..draws /\ token \in 1..token /\ 1..draws \subseteq 1..token
    BY <1>0 DEF None
<1> HIDE DEF token, line, next, profile
<1>4. /\ next \in ActivationRecord /\ next.at = "release" /\ next.token = token /\ next.profile = profile
      /\ next.issued = activation[o].issued /\ next.wrote = activation[o].wrote
    BY <1>0, <1>5 DEF ActivationRecord, SessionPlaces, next, profile
<1>6. /\ principals' \in Seq(Lines)
      /\ \A t, f : OfProfile(t, f)' <=> OfProfile(t, f) \/ (t = token /\ f = profile)
      /\ \A t : RevokedToken(t)' <=> RevokedToken(t)
    BY <1>1, <1>2, <1>3, LineAdded
<1>7. /\ \A f : ~OfProfile(token, f)
      /\ ~RevokedToken(token)
    BY <1>0, <1>5 DEF DrawnOnce
<1>8. DrawnOnce'
    <2>1. \A t, f : OfProfile(t, f)' => t \in 1..draws' /\ f \in 1..Profiles
        BY <1>0, <1>1, <1>5, <1>6 DEF DrawnOnce
    <2>2. \A t, f, g : OfProfile(t, f)' /\ OfProfile(t, g)' => f = g
        BY <1>0, <1>6, <1>7 DEF DrawnOnce
    <2>3. \A t : RevokedToken(t)' => t \in 1..draws'
        BY <1>0, <1>1, <1>5, <1>6 DEF DrawnOnce
    <2> QED
        BY <2>1, <2>2, <2>3 DEF DrawnOnce
<1>9. \A t : Drawn(t)' <=> Drawn(t) \/ t = token
    BY <1>0, <1>6 DEF Drawn
<1>10. ASSUME NEW x, x = next
       PROVE  Fitting(x)'
    <2>1. /\ x.wrote = activation[o].wrote /\ x.issued = activation[o].issued /\ x.at = "release"
          /\ x.token = token /\ x.profile = profile
        BY <1>4, <1>10
    <2>2. /\ \A f \in x.wrote : OfProfile(tokenFiles[f], f)'
          /\ \A t \in x.issued : Drawn(t)' /\ ~RevokedToken(t)'
          /\ OfProfile(x.token, x.profile)' /\ ~RevokedToken(x.token)'
        <3>1. \A f \in x.wrote : OfProfile(tokenFiles[f], f)
            BY <1>0, <2>1 DEF Fitting
        <3>2. \A t \in x.issued : Drawn(t) /\ ~RevokedToken(t)
            BY <1>0, <1>1, <2>1 DEF Fitting
        <3>3. \A f \in x.wrote : OfProfile(tokenFiles[f], f)'
            <4>1. \A f \in x.wrote : tokenFiles'[f] = tokenFiles[f]
                BY <1>1
            <4> QED
                BY <1>6, <3>1, <4>1 DEF OfProfile
        <3> QED
            BY <1>6, <1>7, <1>9, <2>1, <3>2, <3>3
    <2>3. /\ x.wrote = 1..(x.profile - 1) /\ \A f \in x.wrote : tokenFiles'[f] \in x.issued
          /\ \A t \in x.issued : \E f \in x.wrote : tokenFiles'[f] = t
        BY <1>0, <1>1, <2>1 DEF Fitting, GoingUp, profile
    <2> QED
        BY <2>1, <2>2, <2>3 DEF Fitting, GoingUp, Ended
<1>11. Mine(next) = activation[o].issued \cup {token} /\ Mine(activation[o]) = activation[o].issued
    BY <1>1, <1>4, <1>5 DEF Mine
<1>12. ~Drawn(token)
    BY <1>7 DEF Drawn
<1>13. tokenFiles' \in [1..Profiles -> Blank..draws'] /\ draws' \in Nat
    BY <1>0, <1>1, <1>5 DEF Blank, token
<1>14. \A t : Drawn(t)' /\ ~RevokedToken(t)' =>
               (Drawn(t) /\ t \notin Mine(activation[o])) \/ t \in Mine(next) \/ t \in orphans'
    BY <1>9, <1>11
<1>15. \A t \in Mine(next) : t \in Mine(activation[o]) \/ ~Drawn(t)
    BY <1>11, <1>12
<1>16. \A f \in 1..Profiles :
               f \in activation[o].wrote \/ tokenFiles'[f] # tokenFiles[f] =>
                   tokenFiles'[f] \in {None, Blank} \/ f \in next.wrote \/ tokenFiles'[f] \in orphans'
    BY <1>1, <1>4
<1>17. /\ \A t, f : OfProfile(t, f) => OfProfile(t, f)'
       /\ \A t : RevokedToken(t) => RevokedToken(t)'
       /\ \A t : RevokedToken(t)' => RevokedToken(t) \/ t \in Mine(activation[o])
    BY <1>6
<1>18. principalLock' \in Operators \cup {"free"}
    BY <1>1, Acting
<1> QED
    BY <1>1, <1>4, <1>6, <1>8, <1>10, <1>13, <1>14, <1>15, <1>16, <1>17, <1>18, HandsKept

LEMMA RevokeHands ==
    ASSUME HandsInv, NEW o \in Operators, AppendRevoked(o)
    PROVE  HandsInv'
<1> DEFINE token == activation[o].token
           line == Line("revoked", token, ProfileOf(token))
           next == [activation[o] EXCEPT !.at = "release-revoked"]
<1>0. /\ activation[o] \in ActivationRecord /\ Fitting(activation[o])
      /\ activation \in [Operators -> ActivationRecord] /\ DrawnOnce /\ SessionRecords
    BY Acting DEF HandsInv
<1>1. /\ activation' = [activation EXCEPT ![o] = next] /\ principals' = Append(principals, line)
      /\ UNCHANGED <<draws, principalLock, tokenFiles, orphans>> /\ activation[o].at = "append-revoked"
    BY <1>0 DEF AppendRevoked, InPlace, Continue, limits
<1>2. token \in activation[o].issued /\ Drawn(token)
    BY <1>0, <1>1 DEF Fitting
<1>3. line \in Lines /\ line.kind = "revoked" /\ line.token = token
    <2>1. PICK f \in 1..Profiles : OfProfile(token, f)
        BY <1>2 DEF Drawn
    <2>2. ProfileOf(token) = f
        BY <1>0, <2>1, ProfileIs
    <2> QED
        BY <1>0, <2>1, <2>2, SessionAssumption DEF Line, Lines, ActivationRecord
<1>4. \A t, f : Line("issued", t, f) # line
    BY DEF Line
<1>5. /\ next \in ActivationRecord /\ next.at = "release-revoked" /\ next.token = token
      /\ next.issued = activation[o].issued /\ next.wrote = activation[o].wrote
    BY <1>0, Proceeds DEF SessionPlaces
<1> HIDE DEF token, line, next
<1>6. /\ principals' \in Seq(Lines)
      /\ \A t, f : OfProfile(t, f)' <=> OfProfile(t, f)
      /\ \A t : RevokedToken(t)' <=> RevokedToken(t) \/ t = token
    BY <1>1, <1>3, <1>4, LineAdded
<1>7. DrawnOnce'
    <2>1. token \in 1..draws
        BY <1>0, <1>2 DEF Drawn, DrawnOnce
    <2> QED
        BY <1>0, <1>1, <1>6, <2>1 DEF DrawnOnce
<1>8. \A t : Drawn(t)' <=> Drawn(t)
    BY <1>6 DEF Drawn
<1>9. ASSUME NEW x, x = next
      PROVE  Fitting(x)'
    <2>1. /\ x.wrote = activation[o].wrote /\ x.issued = activation[o].issued /\ x.at = "release-revoked"
          /\ x.token = token
        BY <1>5, <1>9
    <2>2. \A f \in x.wrote : OfProfile(tokenFiles[f], f)'
        <3>1. \A f \in x.wrote : OfProfile(tokenFiles[f], f)
            BY <1>0, <2>1 DEF Fitting
        <3>2. \A f \in x.wrote : tokenFiles'[f] = tokenFiles[f]
            BY <1>1
        <3> QED
            BY <1>6, <3>1, <3>2 DEF OfProfile
    <2>3. \A t \in x.issued : Drawn(t)' /\ (RevokedToken(t)' => t = x.token)
        BY <1>0, <1>1, <1>6, <1>8, <2>1 DEF Fitting
    <2>4. RevokedToken(x.token)' /\ x.token \in x.issued
        BY <1>2, <1>6, <2>1
    <2> QED
        BY <2>1, <2>2, <2>3, <2>4 DEF Fitting, GoingUp, Ended
<1>10. Mine(next) = activation[o].issued /\ Mine(activation[o]) = activation[o].issued
    BY <1>1, <1>5 DEF Mine
<1>11. /\ \A t : Drawn(t)' /\ ~RevokedToken(t)' =>
               (Drawn(t) /\ t \notin Mine(activation[o])) \/ t \in Mine(next) \/ t \in orphans'
       /\ \A t \in Mine(next) : t \in Mine(activation[o]) \/ ~Drawn(t)
    BY <1>8, <1>10
<1>12. /\ \A t, f : OfProfile(t, f) => OfProfile(t, f)'
       /\ \A t : RevokedToken(t) => RevokedToken(t)'
       /\ \A t : RevokedToken(t)' => RevokedToken(t) \/ t \in Mine(activation[o])
    BY <1>2, <1>6, <1>10
<1>13. principalLock' \in Operators \cup {"free"} /\ draws' \in Nat /\ tokenFiles' \in [1..Profiles -> Blank..draws']
    BY <1>0, <1>1 DEF SessionRecords
<1> QED
    BY <1>1, <1>5, <1>6, <1>7, <1>9, <1>11, <1>12, <1>13, HandsKept

(* A step that leaves the lines as they are, but not the files. *)
LEMMA FilesHands ==
    ASSUME HandsInv, NEW o \in Operators, NEW next \in ActivationRecord,
           activation' = [activation EXCEPT ![o] = next],
           UNCHANGED <<principals, draws, principalLock>>, orphans \subseteq orphans',
           tokenFiles' \in [1..Profiles -> Blank..draws],
           \A f \in 1..Profiles : tokenFiles'[f] = tokenFiles[f] \/ f \in activation[o].wrote
                                                               \/ tokenFiles[f] = None,
           \A x : x = next => Fitting(x)',
           Mine(next) \subseteq Mine(activation[o]),
           \A f \in next.wrote : f \in activation[o].wrote \/ tokenFiles[f] = None,
           \A f \in 1..Profiles :
               f \in activation[o].wrote \/ tokenFiles'[f] # tokenFiles[f] =>
                   tokenFiles'[f] \in {None, Blank} \/ f \in next.wrote \/ tokenFiles'[f] \in orphans',
           Mine(activation[o]) \ Mine(next) \subseteq orphans'
    PROVE  HandsInv'
<1>1. /\ \A t, f : OfProfile(t, f)' <=> OfProfile(t, f)
      /\ \A t : RevokedToken(t)' <=> RevokedToken(t)
      /\ \A t : Drawn(t)' <=> Drawn(t)
    BY DEF OfProfile, RevokedToken, Drawn
<1>2. DrawnOnce'
    BY <1>1 DEF HandsInv, DrawnOnce
<1>3. /\ principals' \in Seq(Lines) /\ draws' \in Nat /\ tokenFiles' \in [1..Profiles -> Blank..draws']
      /\ principalLock' \in Operators \cup {"free"}
    BY DEF HandsInv, SessionRecords
<1> QED
    BY <1>1, <1>2, <1>3, HandsKept

(* After a profile comes the next one, or the report. *)
LEMMA NextProfile ==
    ASSUME NEW b \in ActivationRecord, Profiles \in Nat
    PROVE  /\ Next1(b) \in ActivationRecord /\ Next1(b).token = None
           /\ Next1(b).issued = b.issued /\ Next1(b).wrote = b.wrote
           /\ Next1(b).at \in {"issue", "report"}
           /\ Next1(b).at = "report" => b.profile = Profiles
           /\ Next1(b).at = "issue" => Next1(b).profile = b.profile + 1
<1>0. b.profile \in 1..Profiles
    BY DEF ActivationRecord
<1>1. CASE b.profile = Profiles
    <2> DEFINE next == [b EXCEPT !.at = "report", !.token = None]
    <2>1. Next1(b) = next
        BY <1>1 DEF Next1
    <2>2. next \in ActivationRecord /\ next.token = None /\ next.issued = b.issued /\ next.wrote = b.wrote
          /\ next.at = "report"
        BY DEF ActivationRecord, SessionPlaces, None
    <2> HIDE DEF next
    <2> QED
        BY <1>1, <2>1, <2>2
<1>2. CASE b.profile # Profiles
    <2> DEFINE next(p) == [b EXCEPT !.at = "issue", !.token = None, !.profile = p]
    <2>1. Next1(b) = next(b.profile + 1) /\ b.profile + 1 \in 1..Profiles
        BY <1>0, <1>2 DEF Next1
    <2>2. \A p \in 1..Profiles :
             /\ next(p) \in ActivationRecord /\ next(p).token = None /\ next(p).issued = b.issued
             /\ next(p).wrote = b.wrote /\ next(p).at = "issue" /\ next(p).profile = p
        BY DEF ActivationRecord, SessionPlaces, None
    <2> HIDE DEF next
    <2> QED
        BY <2>1, <2>2
<1> QED
    BY <1>1, <1>2

LEMMA WritingHands ==
    ASSUME HandsInv, NEW o \in Operators, WriteTokenFile(o)
    PROVE  HandsInv'
<1> DEFINE a == activation[o]
<1>0. /\ a \in ActivationRecord /\ Fitting(a) /\ activation \in [Operators -> ActivationRecord]
      /\ UNCHANGED <<principals, draws, principalLock, orphans>> /\ a.at = "write"
      /\ tokenFiles \in [1..Profiles -> Blank..draws] /\ Profiles \in Nat /\ DrawnOnce
      /\ a.profile \in 1..Profiles /\ draws \in Nat /\ principalLock' \in Operators \cup {"free"}
    BY Acting DEF WriteTokenFile, InPlace, registryFile, HandsInv, SessionRecords
<1>1. /\ a.token \in a.issued /\ OfProfile(a.token, a.profile) /\ a.token \in 1..draws
      /\ a.wrote = 1..(a.profile - 1)
    BY <1>0 DEF Fitting, DrawnOnce, GoingUp
<1>2. /\ \A t, f : OfProfile(t, f)' <=> OfProfile(t, f)
      /\ \A t : RevokedToken(t)' <=> RevokedToken(t)
      /\ \A t : Drawn(t)' <=> Drawn(t)
    BY <1>0 DEF OfProfile, RevokedToken, Drawn
<1>3. CASE /\ tokenFiles[a.profile] = None
           /\ tokenFiles' = [tokenFiles EXCEPT ![a.profile] = a.token]
           /\ activation' = [activation EXCEPT ![o] = Next1([a EXCEPT !.wrote = @ \cup {a.profile}])]
    <2> DEFINE next == Next1([a EXCEPT !.wrote = @ \cup {a.profile}])
    <2>1. /\ next \in ActivationRecord /\ next.token = None /\ next.issued = a.issued
          /\ next.wrote = a.wrote \cup {a.profile}
          /\ next.at \in {"issue", "report"}
          /\ next.at = "report" => a.profile = Profiles
          /\ next.at = "issue" => next.profile = a.profile + 1
        <3> DEFINE b == [a EXCEPT !.wrote = @ \cup {a.profile}]
        <3>1. /\ b \in ActivationRecord /\ b.profile = a.profile /\ b.issued = a.issued
              /\ b.wrote = a.wrote \cup {a.profile}
            BY <1>0 DEF ActivationRecord
        <3>2. next = Next1(b)
            OBVIOUS
        <3> HIDE DEF b, next
        <3> QED
            BY <1>0, <3>1, <3>2, NextProfile
    <2>2. activation' = [activation EXCEPT ![o] = next]
        BY <1>3
    <2> HIDE DEF next
    <2>3. /\ tokenFiles' \in [1..Profiles -> Blank..draws] /\ tokenFiles'[a.profile] = a.token
          /\ \A f \in 1..Profiles : f # a.profile => tokenFiles'[f] = tokenFiles[f]
        BY <1>0, <1>1, <1>3 DEF Blank
    <2>4. next.wrote = 1..a.profile
        BY <1>0, <1>1, <2>1
    <2>5. /\ \A f \in next.wrote : tokenFiles'[f] \in next.issued
          /\ \A f \in next.wrote : OfProfile(tokenFiles'[f], f)
          /\ \A t \in next.issued : \E f \in next.wrote : tokenFiles'[f] = t
        <3>1. /\ \A f \in a.wrote : tokenFiles[f] \in a.issued /\ OfProfile(tokenFiles[f], f)
              /\ \A t \in a.issued : t = a.token \/ \E f \in a.wrote : tokenFiles[f] = t
            BY <1>0 DEF Fitting, GoingUp
        <3>2. \A f \in a.wrote : f # a.profile /\ f \in 1..Profiles
            BY <1>0, <1>1
        <3> QED
            BY <1>1, <2>1, <2>3, <3>1, <3>2
    <2>6. \A t \in next.issued : Drawn(t) /\ ~RevokedToken(t)
        BY <1>0, <2>1 DEF Fitting
    <2>7. ASSUME NEW x, x = next
          PROVE  Fitting(x)'
        <3>1. /\ \A f \in x.wrote : tokenFiles'[f] \in x.issued
              /\ \A f \in x.wrote : OfProfile(tokenFiles[f], f)'
              /\ \A t \in x.issued : \E f \in x.wrote : tokenFiles'[f] = t
              /\ \A t \in x.issued : Drawn(t)' /\ ~RevokedToken(t)'
            BY <1>2, <2>5, <2>6, <2>7 DEF OfProfile
        <3>2. /\ x.at = "issue" => x.wrote = 1..(x.profile - 1)
              /\ x.at = "report" => x.wrote = 1..Profiles
            BY <1>0, <2>1, <2>4, <2>7
        <3> QED
            BY <2>1, <2>7, <3>1, <3>2 DEF Fitting, GoingUp, Ended
    <2>8. Mine(next) = Mine(a)
        BY <1>0, <2>1 DEF Mine
    <2> QED
        <3>1. /\ \A f \in 1..Profiles : tokenFiles'[f] = tokenFiles[f] \/ f \in a.wrote \/ tokenFiles[f] = None
              /\ \A f \in next.wrote : f \in a.wrote \/ tokenFiles[f] = None
              /\ \A f \in 1..Profiles : f \in a.wrote \/ tokenFiles'[f] # tokenFiles[f] => f \in next.wrote
            BY <1>3, <2>1, <2>3
        <3>2. \A x : x = next => Fitting(x)'
            BY <2>7
        <3> HIDE DEF a
        <3> QED
            BY <1>0, <2>1, <2>2, <2>3, <2>8, <3>1, <3>2, FilesHands DEF a
<1>4. ASSUME NEW next \in ActivationRecord, next = [a EXCEPT !.at = "undo", !.token = None]
      PROVE  /\ next.at = "undo" /\ next.token = None /\ next.issued = a.issued /\ next.wrote = a.wrote
             /\ Fitting(next) /\ Mine(next) = Mine(a)
    <2>1. next.at = "undo" /\ next.token = None /\ next.issued = a.issued /\ next.wrote = a.wrote
        BY <1>0, <1>4 DEF ActivationRecord
    <2> QED
        BY <1>0, <2>1 DEF Fitting, GoingUp, Ended, Mine
<1>5. CASE /\ activation' = [activation EXCEPT ![o].at = "undo", ![o].token = None]
           /\ \/ tokenFiles' = tokenFiles
              \/ tokenFiles[a.profile] = None /\ tokenFiles' = [tokenFiles EXCEPT ![a.profile] = Blank]
    <2> DEFINE next == [a EXCEPT !.at = "undo", !.token = None]
    <2>1. next \in ActivationRecord /\ activation' = [activation EXCEPT ![o] = next]
        BY <1>0, <1>5 DEF ActivationRecord, SessionPlaces, None
    <2>2. /\ next.at = "undo" /\ next.token = None /\ next.issued = a.issued /\ next.wrote = a.wrote
          /\ Fitting(next) /\ Mine(next) = Mine(a)
        BY <1>4, <2>1
    <2> HIDE DEF next
    <2>3. CASE tokenFiles' = tokenFiles
        BY <1>0, <2>1, <2>2, <2>3, InHand
    <2>4. CASE tokenFiles[a.profile] = None /\ tokenFiles' = [tokenFiles EXCEPT ![a.profile] = Blank]
        <3>1. /\ tokenFiles' \in [1..Profiles -> Blank..draws] /\ tokenFiles'[a.profile] = Blank
              /\ \A f \in 1..Profiles : f # a.profile => tokenFiles'[f] = tokenFiles[f]
            BY <1>0, <2>4 DEF Blank
        <3>2. \A f \in next.wrote : f # a.profile /\ f \in 1..Profiles
            BY <1>0, <1>1, <2>2
        <3>3. ASSUME NEW x, x = next
              PROVE  Fitting(x)'
            <4>1. \A f \in x.wrote : OfProfile(tokenFiles[f], f)'
                <5>1. \A f \in x.wrote : OfProfile(tokenFiles[f], f) /\ tokenFiles'[f] = tokenFiles[f]
                    BY <2>2, <3>1, <3>2, <3>3 DEF Fitting
                <5> QED
                    BY <1>2, <5>1 DEF OfProfile
            <4>2. \A t \in x.issued : Drawn(t)' /\ ~RevokedToken(t)'
                BY <1>2, <2>2, <3>3 DEF Fitting
            <4> QED
                BY <2>2, <3>3, <4>1, <4>2 DEF Fitting, GoingUp, Ended
        <3>4. tokenFiles[a.profile] = None /\ a.profile \in 1..Profiles
            BY <1>0, <2>4
        <3> QED
            BY <1>0, <2>1, <2>2, <3>1, <3>2, <3>3, <3>4, FilesHands
    <2> QED
        BY <1>5, <2>3, <2>4
<1> QED
    BY <1>3, <1>5 DEF WriteTokenFile

LEMMA RemovingHands ==
    ASSUME HandsInv, NEW o \in Operators, RemoveTokenFiles(o)
    PROVE  HandsInv'
<1> DEFINE a == activation[o]
<1>0. /\ a \in ActivationRecord /\ Fitting(a) /\ activation \in [Operators -> ActivationRecord]
      /\ UNCHANGED <<principals, draws, principalLock, orphans>> /\ a.at = "undo" /\ a.issued = {}
      /\ tokenFiles \in [1..Profiles -> Blank..draws] /\ draws \in Nat
      /\ principalLock' \in Operators \cup {"free"}
    BY Acting DEF RemoveTokenFiles, InPlace, registryFile, limits, HandsInv, SessionRecords
<1>1. Mine(a) = {}
    BY <1>0 DEF Mine
<1>2. CASE a.wrote = {}
    <2> DEFINE next == [AtRest EXCEPT !.at = "refused"]
    <2>1. /\ next \in ActivationRecord /\ next.at = "refused" /\ next.token = None
          /\ next.issued = {} /\ next.wrote = {}
        BY Acting DEF AtRest, ActivationRecord, SessionPlaces, None
    <2>2. activation' = [activation EXCEPT ![o] = next] /\ tokenFiles' = tokenFiles
        BY <1>2 DEF RemoveTokenFiles
    <2> HIDE DEF next
    <2>3. Fitting(next) /\ Mine(next) = {}
        BY <2>1 DEF Fitting, GoingUp, Ended, Mine
    <2> QED
        BY <1>0, <1>1, <1>2, <2>1, <2>2, <2>3, InHand
<1>3. CASE a.wrote # {}
    <2>1. PICK f \in a.wrote : /\ tokenFiles' = [tokenFiles EXCEPT ![f] = None]
                              /\ activation' = [activation EXCEPT ![o].wrote = @ \ {f}]
        BY <1>3 DEF RemoveTokenFiles
    <2> DEFINE next == [a EXCEPT !.wrote = @ \ {f}]
    <2>2. /\ next \in ActivationRecord /\ next.at = "undo" /\ next.issued = {} /\ next.wrote = a.wrote \ {f}
        BY <1>0 DEF ActivationRecord
    <2>3. activation' = [activation EXCEPT ![o] = next]
        BY <1>0, <2>1
    <2> HIDE DEF next
    <2>4. /\ f \in 1..Profiles /\ tokenFiles' \in [1..Profiles -> Blank..draws] /\ tokenFiles'[f] = None
          /\ \A g \in 1..Profiles : g # f => tokenFiles'[g] = tokenFiles[g]
        BY <1>0, <2>1 DEF Blank, None, ActivationRecord
    <2>5. ASSUME NEW x, x = next
          PROVE  Fitting(x)'
        <3>1. \A g \in x.wrote : OfProfile(tokenFiles[g], g) /\ tokenFiles'[g] = tokenFiles[g]
            BY <1>0, <2>2, <2>4, <2>5 DEF Fitting, ActivationRecord
        <3>2. \A g \in x.wrote : OfProfile(tokenFiles[g], g)'
            BY <1>0, <3>1 DEF OfProfile
        <3> QED
            BY <2>2, <2>5, <3>2 DEF Fitting, GoingUp, Ended
    <2>6. Mine(next) = {}
        BY <2>2 DEF Mine
    <2>7. /\ \A g \in 1..Profiles : tokenFiles'[g] = tokenFiles[g] \/ g \in a.wrote
          /\ \A g \in next.wrote : g \in a.wrote
          /\ \A g \in 1..Profiles : g \in a.wrote \/ tokenFiles'[g] # tokenFiles[g] =>
                  tokenFiles'[g] = None \/ g \in next.wrote
        BY <2>1, <2>2, <2>4
    <2> HIDE DEF a
    <2> QED
        BY <1>0, <1>1, <2>2, <2>3, <2>4, <2>5, <2>6, <2>7, FilesHands DEF a
<1> QED
    BY <1>2, <1>3

LEMMA DeathHands ==
    ASSUME HandsInv, NEW o \in Operators, OperatorDies(o)
    PROVE  HandsInv'
<1> DEFINE a == activation[o]
<1>0. /\ a \in ActivationRecord /\ Fitting(a)
      /\ activation' = [activation EXCEPT ![o] = AtRest]
      /\ UNCHANGED <<principals, draws, principalLock>>
      /\ orphans' = orphans \cup a.issued \cup ({a.token} \ {None}) \cup {tokenFiles[f] : f \in a.wrote}
      /\ tokenFiles \in [1..Profiles -> Blank..draws] /\ draws \in Nat
      /\ \/ tokenFiles' = tokenFiles
         \/ tokenFiles[a.profile] = None /\ tokenFiles' = [tokenFiles EXCEPT ![a.profile] = Blank]
    BY Acting DEF OperatorDies, InPlace, HandsInv, SessionRecords
<1>1. AtRest \in ActivationRecord /\ Mine(AtRest) = {} /\ AtRest.wrote = {}
    BY Acting DEF AtRest, ActivationRecord, SessionPlaces, None, Mine
<1>2. ASSUME NEW x, x = AtRest
      PROVE  Fitting(x)'
    BY <1>2 DEF AtRest, Fitting, GoingUp, Ended
<1>3. a.profile \in 1..Profiles
    BY Acting
<1>4. /\ tokenFiles \in [1..Profiles -> Blank..draws] /\ draws \in Nat
       /\ \/ tokenFiles' = tokenFiles
          \/ tokenFiles[a.profile] = None /\ tokenFiles' = [tokenFiles EXCEPT ![a.profile] = Blank]
    BY <1>0
<1> HIDE DEF a
<1>40. Blank \in Blank..draws
    BY <1>4 DEF Blank
<1>41. tokenFiles' \in [1..Profiles -> Blank..draws']
    <2>1. CASE tokenFiles' = tokenFiles
        BY <1>0, <1>4, <2>1
    <2>2. CASE tokenFiles[a.profile] = None /\ tokenFiles' = [tokenFiles EXCEPT ![a.profile] = Blank]
        BY <1>0, <1>3, <1>4, <1>40, <2>2
    <2> QED
        BY <1>4, <2>1, <2>2
<1>42. \A f \in 1..Profiles : \/ tokenFiles'[f] = tokenFiles[f]
                              \/ tokenFiles[f] = None /\ tokenFiles'[f] = Blank
    BY <1>3, <1>4
<1>5. Mine(a) \subseteq orphans'
    BY <1>0 DEF Mine
<1>6. \A f \in a.wrote : tokenFiles[f] \in orphans'
    BY <1>0
<1>7. \A f \in 1..Profiles : f \in a.wrote \/ tokenFiles'[f] # tokenFiles[f] =>
          tokenFiles'[f] \in {None, Blank} \/ tokenFiles'[f] \in orphans'
    BY <1>42, <1>6
<1> QED
    BY <1>0, <1>1, <1>2, <1>41, <1>42, <1>5, <1>7, FilesHands DEF a

LEMMA OtherHands ==
    ASSUME HandsInv, RevokeTask \/ (\E o \in Operators : RemoveOldRegistryLock(o)) \/ UNCHANGED sessionVars
    PROVE  HandsInv'
<1>0. /\ UNCHANGED <<draws, tokenFiles, activation, orphans>> /\ principalLock' \in Operators \cup {"free"}
      /\ SessionRecords
    BY DEF RevokeTask, RemoveOldRegistryLock, sessionVars, limits, HandsInv, SessionRecords
<1>1. /\ principals' \in Seq(Lines)
      /\ \A t, f : OfProfile(t, f)' <=> OfProfile(t, f)
      /\ \A t : RevokedToken(t)' <=> RevokedToken(t)
    <2>1. CASE principals' = principals
        BY <1>0, <2>1 DEF OfProfile, RevokedToken, SessionRecords
    <2>2. CASE principals' = Append(principals, Line("task-revoked", None, None))
        <3> DEFINE line == Line("task-revoked", None, None)
        <3>1. line \in Lines /\ line.kind = "task-revoked"
            BY DEF Line, Lines, None
        <3>2. \A t, f : Line("issued", t, f) # line
            BY DEF Line
        <3>3. principals' = Append(principals, line)
            BY <2>2
        <3> HIDE DEF line
        <3> QED
            BY <3>1, <3>2, <3>3, LineAdded
    <2> QED
        BY <2>1, <2>2 DEF RevokeTask, RemoveOldRegistryLock, sessionVars, registryFile
<1>2. \A t : Drawn(t)' <=> Drawn(t)
    BY <1>1 DEF Drawn
<1>3. SessionRecords'
    BY <1>0, <1>1 DEF SessionRecords
<1>4. DrawnOnce'
    BY <1>0, <1>1 DEF HandsInv, DrawnOnce
<1>5. \A o \in Operators : Fitting(activation[o])'
    <2>1. \A x : Fitting(x) => Fitting(x)'
        <3> SUFFICES ASSUME NEW x, Fitting(x)
                     PROVE  Fitting(x)'
            OBVIOUS
        <3>1. \A f \in x.wrote : OfProfile(tokenFiles[f], f)'
            BY <1>0, <1>1 DEF Fitting, OfProfile
        <3> QED
            BY <1>0, <1>1, <1>2, <3>1 DEF Fitting
    <2> QED
        BY <1>0, <2>1 DEF HandsInv, Fitting, OfProfile, RevokedToken, Drawn
<1>6. Apart' /\ Filed'
    BY <1>0 DEF HandsInv, Apart, Filed, Mine
<1>7. Kept'
    BY <1>0, <1>1, <1>2 DEF HandsInv, Kept, Mine
<1> QED
    BY <1>3, <1>4, <1>5, <1>6, <1>7 DEF HandsInv

LEMMA HandsStep ==
    ASSUME HandsInv, [SessionNext]_sessionVars
    PROVE  HandsInv'
BY GoingOnHands, EndingHands, IssueHands, RevokeHands, WritingHands, RemovingHands, DeathHands, OtherHands
   DEF SessionNext

(* Between taking the lock and letting it go. *)
LockWorks(x) == x.at \in {"load", "append-issued", "append-revoked", "release", "release-revoked"}

AloneAtWork == \A o \in Operators : LockWorks(activation[o]) => principalLock = o

NoneFor(f) == RevokedTask \/ \A t : OfProfile(t, f) => RevokedToken(t)

OneStands == RevokedTask \/ \A t, u, f : OfProfile(t, f) /\ OfProfile(u, f) =>
                                          t = u \/ RevokedToken(t) \/ RevokedToken(u)

WorkInv ==
    /\ AloneAtWork /\ OneStands
    /\ \A o \in Operators : activation[o].at = "append-issued" => NoneFor(activation[o].profile)

LEMMA WorkStart == SessionInit => WorkInv
<1> SUFFICES ASSUME SessionInit
             PROVE  WorkInv
    OBVIOUS
<1>1. \A t, f : ~OfProfile(t, f)
    BY DEF SessionInit, OfProfile, ToSet
<1>2. \A o \in Operators : activation[o].at = "rest"
    BY DEF SessionInit, AtRest
<1> QED
    BY <1>1, <1>2 DEF WorkInv, AloneAtWork, LockWorks, OneStands

(* An operator's step concerns its own activation only. *)
LEMMA OneActs ==
    ASSUME HandsInv, NEW o \in Operators,
           \/ ResolveBindings(o) \/ AcquireFileLock(o) \/ RegistryBusy(o) \/ LoadUnlocked(o) \/ AppendIssued(o)
           \/ AppendRevoked(o) \/ AppendTorn(o) \/ ReleaseFileLock(o) \/ WriteTokenFile(o) \/ RevokeIssued(o)
           \/ RemoveTokenFiles(o) \/ ReportActivation(o) \/ OperatorDies(o)
    PROVE  \A p \in Operators : p # o => activation'[p] = activation[p]
BY Acting DEF ResolveBindings, AcquireFileLock, RegistryBusy, LoadUnlocked, AppendIssued, AppendRevoked, AppendTorn,
   ReleaseFileLock, WriteTokenFile, RevokeIssued, RemoveTokenFiles, ReportActivation, OperatorDies, Continue

(* What the lines say of the tokens that stand stays, and the lock changes hands with      *)
(* nobody at work.                                                                       *)
LEMMA WorkKept ==
    ASSUME HandsInv, WorkInv, NEW o \in Operators,
           \A p \in Operators : p # o => activation'[p] = activation[p],
           \A t, f : OfProfile(t, f)' => OfProfile(t, f),
           \A t : RevokedToken(t) => RevokedToken(t)', RevokedTask => RevokedTask',
           LockWorks(activation'[o]) => principalLock' = o,
           \A p \in Operators : p # o => (LockWorks(activation[p]) => principalLock' = p),
           activation'[o].at = "append-issued" => NoneFor(activation'[o].profile)
    PROVE  WorkInv'
<1>2. AloneAtWork'
    <2>1. \A p \in Operators : LockWorks(activation'[p]) => principalLock' = p
        OBVIOUS
    <2> QED
        BY <2>1 DEF AloneAtWork, LockWorks
<1>3. \A f : NoneFor(f) => NoneFor(f)'
    BY DEF NoneFor
<1>4. ASSUME NEW p \in Operators, activation'[p].at = "append-issued"
      PROVE  NoneFor(activation[p].profile)'
    <2>1. NoneFor(activation'[p].profile)
        <3>1. CASE p = o
            BY <1>4, <3>1
        <3>2. CASE p # o
            <4>1. activation'[p] = activation[p]
                BY <3>2
            <4> QED
                BY <1>4, <4>1 DEF WorkInv
        <3> QED
            BY <3>1, <3>2
    <2> QED
        BY <1>3, <2>1 DEF NoneFor
<1>5. OneStands'
    BY DEF WorkInv, OneStands
<1> QED
    BY <1>2, <1>4, <1>5 DEF WorkInv

(* While an operator holds the lock no other is at work. *)
LEMMA OthersRest ==
    ASSUME WorkInv
    PROVE  /\ \A o, p \in Operators : principalLock = o /\ p # o => ~LockWorks(activation[p])
           /\ principalLock \notin Operators => \A p \in Operators : ~LockWorks(activation[p])
BY DEF WorkInv, AloneAtWork

LEMMA SameLines ==
    ASSUME principals' = principals
    PROVE  /\ \A t, f : OfProfile(t, f)' <=> OfProfile(t, f)
           /\ \A t : RevokedToken(t)' <=> RevokedToken(t)
           /\ RevokedTask' <=> RevokedTask
BY DEF OfProfile, RevokedToken, RevokedTask

(* Steps away from the lock. *)
LEMMA AsideWork ==
    ASSUME HandsInv, WorkInv, NEW o \in Operators,
           \/ ResolveBindings(o) \/ RegistryBusy(o) \/ WriteTokenFile(o) \/ RevokeIssued(o)
           \/ RemoveTokenFiles(o) \/ ReportActivation(o) \/ OperatorDies(o)
    PROVE  WorkInv'
<1>1. principals' = principals /\ principalLock' = principalLock
    BY DEF ResolveBindings, RegistryBusy, WriteTokenFile, RevokeIssued, RemoveTokenFiles, ReportActivation,
       OperatorDies, registryFile
<1>2. /\ activation \in [Operators -> ActivationRecord] /\ activation[o] \in ActivationRecord
      /\ \A p \in Operators : p # o => activation'[p] = activation[p]
    BY Acting, OneActs
<1>3. ~LockWorks(activation'[o])
    <2>1. CASE ResolveBindings(o)
        <3>1. PICK at \in {"issue", "refused"} : activation'[o] = [AtRest EXCEPT !.at = at]
            BY <1>2, <2>1 DEF ResolveBindings
        <3> QED
            BY <3>1 DEF LockWorks, AtRest
    <2>2. CASE RegistryBusy(o)
        <3>1. activation'[o].at = "undo"
            BY <1>2, <2>2, SMTT(60) DEF RegistryBusy, Continue, ActivationRecord
        <3> QED
            BY <3>1 DEF LockWorks
    <2>3. CASE WriteTokenFile(o)
        <3>1. activation'[o].at \in {"report", "issue", "undo"}
            BY <1>2, <2>3, ZenonT(60) DEF WriteTokenFile, Next1, ActivationRecord
        <3> QED
            BY <3>1 DEF LockWorks
    <2>4. CASE RevokeIssued(o)
        <3>1. activation'[o].at \in {"undo", "revoke"}
            BY <1>2, <2>4 DEF RevokeIssued, ActivationRecord, InPlace
        <3> QED
            BY <3>1 DEF LockWorks
    <2>5. CASE RemoveTokenFiles(o)
        <3>1. activation'[o].at \in {"undo", "refused"}
            BY <1>2, <2>5 DEF RemoveTokenFiles, ActivationRecord, InPlace, AtRest
        <3> QED
            BY <3>1 DEF LockWorks
    <2>6. CASE ReportActivation(o)
        <3>1. activation'[o].at \in {"activated", "unreported"}
            BY <1>2, <2>6 DEF ReportActivation, Continue, ActivationRecord
        <3> QED
            BY <3>1 DEF LockWorks
    <2>7. CASE OperatorDies(o)
        <3>1. activation'[o].at = "rest"
            BY <1>2, <2>7 DEF OperatorDies, AtRest
        <3> QED
            BY <3>1 DEF LockWorks
    <2> QED
        BY <2>1, <2>2, <2>3, <2>4, <2>5, <2>6, <2>7
<1>4. activation'[o].at # "append-issued"
    BY <1>3 DEF LockWorks
<1>5. \A p \in Operators : LockWorks(activation[p]) => principalLock' = p
    BY <1>1 DEF WorkInv, AloneAtWork
<1> QED
    BY <1>1, <1>2, <1>3, <1>4, <1>5, SameLines, WorkKept

(* Taking the lock, letting it go, and reading under it. *)
LEMMA LockedWork ==
    ASSUME HandsInv, WorkInv, NEW o \in Operators,
           AcquireFileLock(o) \/ ReleaseFileLock(o) \/ LoadUnlocked(o) \/ AppendTorn(o)
    PROVE  WorkInv'
<1>1. principals' = principals
    BY DEF AcquireFileLock, ReleaseFileLock, LoadUnlocked, AppendTorn, registryFile
<1>2. /\ activation \in [Operators -> ActivationRecord] /\ activation[o] \in ActivationRecord
      /\ \A p \in Operators : p # o => activation'[p] = activation[p]
    BY Acting, OneActs
<1>3. CASE AcquireFileLock(o)
    <2>1. principalLock = "free" /\ principalLock' = o /\ activation'[o].at # "append-issued"
        BY <1>2, <1>3 DEF AcquireFileLock, Continue, ActivationRecord
    <2>2. \A p \in Operators : ~LockWorks(activation[p])
        BY <2>1, OthersRest, SessionAssumption
    <2> QED
        BY <1>1, <1>2, <2>1, <2>2, SameLines, WorkKept
<1>4. CASE ReleaseFileLock(o)
    <2>1. activation[o].at \in {"release", "release-revoked"}
        BY <1>4 DEF ReleaseFileLock
    <2>2. activation'[o].at \in {"undo", "write"}
        BY <1>2, <1>4 DEF ReleaseFileLock, ActivationRecord
    <2>3. principalLock = o
        BY <2>1 DEF WorkInv, AloneAtWork, LockWorks
    <2>4. \A p \in Operators : p # o => ~LockWorks(activation[p])
        BY <2>3, OthersRest
    <2>5. ~LockWorks(activation'[o]) /\ activation'[o].at # "append-issued"
        BY <2>2 DEF LockWorks
    <2> QED
        BY <1>1, <1>2, <2>4, <2>5, SameLines, WorkKept
<1>5. CASE LoadUnlocked(o)
    <2>1. activation[o].at = "load" /\ principalLock' = principalLock
        BY <1>5 DEF LoadUnlocked, InPlace
    <2>2. principalLock = o
        BY <2>1 DEF WorkInv, AloneAtWork, LockWorks
    <2>3. \A p \in Operators : p # o => ~LockWorks(activation[p])
        BY <2>2, OthersRest
    <2>4. activation'[o].profile = activation[o].profile
        BY <1>2, <1>5 DEF LoadUnlocked, Continue, ActivationRecord
    <2>5. ASSUME activation'[o].at = "append-issued"
          PROVE  NoneFor(activation[o].profile)
        <3>1. Issuable(activation[o].profile)
            BY <1>2, <1>5, <2>5 DEF LoadUnlocked, Continue, ActivationRecord
        <3>2. ASSUME NEW t, OfProfile(t, activation[o].profile), ~RevokedToken(t)
              PROVE  FALSE
            <4>1. SessionRecords /\ DrawnOnce
                BY DEF HandsInv
            <4>2. ProfileOf(t) = activation[o].profile
                BY <3>2, <4>1, ProfileIs
            <4>3. Drawn(t)
                BY <3>2, Acting DEF Drawn
            <4>4. t \in LiveTokens
                BY <3>1, <3>2, <4>1, <4>3, LiveAre DEF Issuable
            <4> QED
                BY <3>1, <4>2, <4>4 DEF Issuable
        <3> QED
            BY <3>2 DEF NoneFor
    <2> QED
        BY <1>1, <1>2, <2>1, <2>2, <2>3, <2>4, <2>5, SameLines, WorkKept
<1>6. CASE AppendTorn(o)
    <2>1. activation[o].at \in {"append-issued", "append-revoked"} /\ principalLock' = principalLock
        BY <1>6 DEF AppendTorn
    <2>2. principalLock = o
        BY <2>1 DEF WorkInv, AloneAtWork, LockWorks
    <2>3. \A p \in Operators : p # o => ~LockWorks(activation[p])
        BY <2>2, OthersRest
    <2>4. activation'[o].at # "append-issued"
        BY <1>2, <1>6 DEF AppendTorn, Continue, ActivationRecord
    <2> QED
        BY <1>1, <1>2, <2>1, <2>2, <2>3, <2>4, SameLines, WorkKept
<1> QED
    BY <1>3, <1>4, <1>5, <1>6

(* Adding a line under the lock. *)
LEMMA LinesWork ==
    ASSUME HandsInv, WorkInv, NEW o \in Operators, AppendIssued(o) \/ AppendRevoked(o)
    PROVE  WorkInv'
<1>1. /\ activation \in [Operators -> ActivationRecord] /\ activation[o] \in ActivationRecord
      /\ \A p \in Operators : p # o => activation'[p] = activation[p]
    BY Acting, OneActs
<1>2. /\ activation[o].at \in {"append-issued", "append-revoked"} /\ principalLock' = principalLock
      /\ activation'[o].at \in {"release", "release-revoked"}
    BY <1>1 DEF AppendIssued, AppendRevoked, InPlace, Continue, ActivationRecord
<1>3. principalLock = o
    BY <1>2 DEF WorkInv, AloneAtWork, LockWorks
<1>4. \A p \in Operators : p # o => ~LockWorks(activation[p])
    BY <1>3, OthersRest
<1>5. CASE AppendRevoked(o)
    <2> DEFINE line == Line("revoked", activation[o].token, ProfileOf(activation[o].token))
    <2>1. line \in Lines
        <3>1. Drawn(activation[o].token)
            BY <1>5, Acting DEF AppendRevoked, InPlace, Fitting
        <3>2. PICK f \in 1..Profiles : OfProfile(activation[o].token, f)
            BY <3>1 DEF Drawn
        <3>3. ProfileOf(activation[o].token) = f
            BY <3>2, ProfileIs DEF HandsInv
        <3> QED
            BY <3>2, <3>3, Acting DEF Line, Lines
    <2>2. principals' = Append(principals, line)
        BY <1>5 DEF AppendRevoked
    <2>3. \A t, f : Line("issued", t, f) # line
        BY DEF Line
    <2> HIDE DEF line
    <2>4. /\ \A t, f : OfProfile(t, f)' <=> OfProfile(t, f)
          /\ \A t : RevokedToken(t) => RevokedToken(t)'
          /\ RevokedTask => RevokedTask'
        BY <2>1, <2>2, <2>3, LineAdded
    <2>5. activation'[o].at # "append-issued"
        BY <1>2
    <2> QED
        BY <1>1, <1>2, <1>3, <1>4, <2>4, <2>5, WorkKept
<1>6. CASE AppendIssued(o)
    <2> DEFINE token == draws + 1
               profile == activation[o].profile
               line == Line("issued", token, profile)
    <2>1. line \in Lines /\ line.kind = "issued"
        BY Acting DEF Line, Lines, HandsInv, SessionRecords
    <2>2. principals' = Append(principals, line)
        BY <1>6 DEF AppendIssued
    <2>3. \A t, f : Line("issued", t, f) = line <=> t = token /\ f = profile
        BY DEF Line
    <2> HIDE DEF line, token
    <2>4. /\ \A t, f : OfProfile(t, f)' <=> OfProfile(t, f) \/ (t = token /\ f = profile)
          /\ \A t : RevokedToken(t)' <=> RevokedToken(t)
          /\ RevokedTask' <=> RevokedTask
        BY <2>1, <2>2, <2>3, LineAdded
    <2>5. NoneFor(profile) /\ OneStands
        BY <1>6 DEF WorkInv, AppendIssued, InPlace
    <2>6. OneStands'
        <3> SUFFICES ASSUME ~RevokedTask', NEW t, NEW u, NEW f, OfProfile(t, f)', OfProfile(u, f)',
                            ~RevokedToken(t)', ~RevokedToken(u)'
                     PROVE  t = u
            BY DEF OneStands
        <3>1. ~RevokedTask /\ ~RevokedToken(t) /\ ~RevokedToken(u)
            BY <2>4
        <3>2. CASE f = profile
            BY <2>4, <2>5, <3>1, <3>2 DEF NoneFor
        <3>3. CASE f # profile
            BY <2>4, <2>5, <3>1, <3>3 DEF OneStands
        <3> QED
            BY <3>2, <3>3
    <2>7. AloneAtWork'
        <3>1. \A p \in Operators : LockWorks(activation'[p]) => principalLock' = p
            BY <1>1, <1>2, <1>3, <1>4
        <3> QED
            BY <3>1 DEF AloneAtWork, LockWorks
    <2>8. \A p \in Operators : activation'[p].at # "append-issued"
        BY <1>1, <1>2, <1>4 DEF LockWorks
    <2> QED
        BY <2>6, <2>7, <2>8 DEF WorkInv
<1> QED
    BY <1>5, <1>6

LEMMA OtherWork ==
    ASSUME HandsInv, WorkInv,
           RevokeTask \/ (\E o \in Operators : RemoveOldRegistryLock(o) /\ ~stolen') \/ UNCHANGED sessionVars
    PROVE  WorkInv'
<1>0. activation' = activation
    BY DEF RevokeTask, RemoveOldRegistryLock, sessionVars
<1>1. CASE RevokeTask
    <2>1. RevokedTask'
        <3> DEFINE line == Line("task-revoked", None, None)
        <3>1. line \in Lines /\ line.kind = "task-revoked" /\ principals' = Append(principals, line)
            BY <1>1 DEF Line, Lines, None, RevokeTask
        <3> HIDE DEF line
        <3> QED
            BY <3>1, LineAdded
    <2>2. AloneAtWork'
        BY <1>0, <1>1 DEF RevokeTask, WorkInv, AloneAtWork
    <2>3. OneStands' /\ \A f : NoneFor(f)'
        BY <2>1 DEF OneStands, NoneFor
    <2> QED
        BY <2>2, <2>3 DEF WorkInv, NoneFor
<1>2. ASSUME principals' = principals, AloneAtWork'
      PROVE  WorkInv'
    <2>1. OneStands' /\ \A f : NoneFor(f) => NoneFor(f)'
        BY <1>2, SameLines DEF WorkInv, OneStands, NoneFor
    <2> QED
        BY <1>0, <1>2, <2>1 DEF WorkInv, NoneFor
<1>3. CASE \E o \in Operators : RemoveOldRegistryLock(o) /\ ~stolen'
    <2>1. principals' = principals /\ ~HolderWorks
        BY <1>3 DEF RemoveOldRegistryLock, registryFile
    <2>2. \A p \in Operators : ~LockWorks(activation[p])
        BY <2>1 DEF WorkInv, AloneAtWork, HolderWorks, LockWorks
    <2>3. AloneAtWork'
        BY <1>0, <2>2 DEF AloneAtWork, LockWorks
    <2> QED
        BY <1>2, <2>1, <2>3
<1>4. CASE UNCHANGED sessionVars
    <2>1. principals' = principals /\ principalLock' = principalLock
        BY <1>4 DEF sessionVars
    <2> QED
        BY <1>0, <1>2, <2>1 DEF WorkInv, AloneAtWork
<1> QED
    BY <1>1, <1>3, <1>4

LEMMA WorkStep ==
    ASSUME HandsInv, ~stolen => WorkInv, [SessionNext]_sessionVars
    PROVE  ~stolen' => WorkInv'
<1> SUFFICES ASSUME ~stolen'
             PROVE  WorkInv'
    OBVIOUS
<1>1. stolen' = stolen \/ stolen' = TRUE
    BY ZenonT(60) DEF SessionNext, RevokeTask, ResolveBindings, AcquireFileLock, RegistryBusy, LoadUnlocked, AppendIssued,
       AppendRevoked, AppendTorn, ReleaseFileLock, WriteTokenFile, RevokeIssued, RemoveTokenFiles,
       ReportActivation, OperatorDies, RemoveOldRegistryLock, limits, sessionVars
<1>2. WorkInv
    BY <1>1
<1> QED
    BY <1>2, AsideWork, LockedWork, LinesWork, OtherWork DEF SessionNext

SessionInv == HandsInv /\ (~stolen => WorkInv)

(* What is in somebody's hands, or has been let go of. *)
LEMMA InSomeHands ==
    ASSUME HandsInv, NEW t \in LiveTokens
    PROVE  t \in orphans \/ \E o \in Operators : t \in Mine(activation[o])
BY LiveAre DEF HandsInv, Kept

LEMMA MineIsIssuing ==
    ASSUME HandsInv, NEW o \in Operators, NEW t \in Mine(activation[o])
    PROVE  Issuing(t) \/ /\ activation[o].at \in {"activated", "unreported"}
                         /\ \E f \in 1..Profiles : f \in activation[o].wrote /\ tokenFiles[f] = t
<1>1. Fitting(activation[o])
    BY Acting
<1>2. activation[o].at \in {"activated", "unreported"} => t \in activation[o].issued
    BY DEF Mine
<1>3. activation[o].wrote \subseteq 1..Profiles
    BY Acting
<1>4. CASE activation[o].at \in {"activated", "unreported"}
    <2>1. \E f \in activation[o].wrote : tokenFiles[f] = t
        BY <1>1, <1>2, <1>4 DEF Fitting, Ended
    <2> QED
        BY <1>3, <1>4, <2>1
<1>5. CASE activation[o].at \notin {"activated", "unreported"}
    <2>1. t \in {activation[o].token} \cup activation[o].issued
        BY DEF Mine
    <2> QED
        BY <1>5, <2>1 DEF Issuing
<1> QED
    BY <1>4, <1>5

LEMMA StandsFollows ==
    ASSUME SessionInv
    PROVE  SessionsStand
<1>0. HandsInv /\ SessionRecords /\ DrawnOnce
    BY DEF SessionInv, HandsInv
<1>1. \A o \in Operators : Fitting(activation[o])
    BY <1>0 DEF HandsInv
<1>2. ActivationStands
    <2> SUFFICES ASSUME NEW o \in Operators, activation[o].at \in {"report", "activated", "unreported"},
                        NEW f \in 1..Profiles
                 PROVE  /\ tokenFiles[f] \in activation[o].issued
                        /\ tokenFiles[f] \in LiveTokens \/ RevokedTask
        BY DEF ActivationStands
    <2>1. tokenFiles[f] \in activation[o].issued
        BY <1>1 DEF Fitting, Ended
    <2>2. Drawn(tokenFiles[f]) /\ ~RevokedToken(tokenFiles[f])
        BY <1>1, <2>1 DEF Fitting
    <2> QED
        BY <1>0, <2>1, <2>2, LiveAre
<1>3. FiledIsLive
    <2>1. ASSUME NEW f \in 1..Profiles, tokenFiles[f] \notin {None, Blank}
          PROVE  tokenFiles[f] \in LiveTokens \cup orphans \/ Issuing(tokenFiles[f]) \/ RevokedTask
        <3>1. CASE tokenFiles[f] \in orphans
            BY <3>1
        <3>2. CASE \E o \in Operators : f \in activation[o].wrote
            <4>1. PICK o \in Operators : f \in activation[o].wrote
                BY <3>2
            <4>2. CASE activation[o].at \in {"activated", "unreported"}
                BY <1>2, <4>2 DEF ActivationStands
            <4>3. CASE activation[o].at \notin {"activated", "unreported"}
                BY <4>1, <4>3 DEF Issuing
            <4> QED
                BY <4>2, <4>3
        <3> QED
            BY <1>0, <2>1, <3>1, <3>2 DEF HandsInv, Filed
    <2>2. ASSUME NEW t \in LiveTokens \ orphans
          PROVE  Issuing(t) \/ \E f \in 1..Profiles : tokenFiles[f] = t
        BY <1>0, <2>2, InSomeHands, MineIsIssuing
    <2> QED
        BY <2>1, <2>2 DEF FiledIsLive
<1>4. OneCredentialEach
    <2> SUFFICES ASSUME NEW t \in LiveTokens, NEW u \in LiveTokens, ProfileOf(t) = ProfileOf(u), t # u
                 PROVE  stolen /\ (Issuing(t) \/ Issuing(u) \/ {t, u} \cap orphans # {})
        BY DEF OneCredentialEach
    <2>1. /\ ~RevokedTask /\ Drawn(t) /\ Drawn(u) /\ ~RevokedToken(t) /\ ~RevokedToken(u)
        BY <1>0, LiveAre
    <2>2. PICK f \in 1..Profiles : OfProfile(t, f)
        BY <2>1 DEF Drawn
    <2>3. OfProfile(u, f)
        <3>1. PICK g \in 1..Profiles : OfProfile(u, g)
            BY <2>1 DEF Drawn
        <3> QED
            BY <1>0, <2>2, <3>1, ProfileIs
    <2>4. stolen
        BY <2>1, <2>2, <2>3 DEF SessionInv, WorkInv, OneStands
    <2>5. ASSUME NEW s \in LiveTokens, s \notin orphans, ~Issuing(s), OfProfile(s, f)
          PROVE  tokenFiles[f] = s
        <3>1. PICK o \in Operators : s \in Mine(activation[o])
            BY <1>0, <2>5, InSomeHands
        <3>2. PICK g \in 1..Profiles : g \in activation[o].wrote /\ tokenFiles[g] = s
            BY <1>0, <2>5, <3>1, MineIsIssuing
        <3>3. OfProfile(s, g)
            BY <1>1, <3>2 DEF Fitting
        <3> QED
            BY <1>0, <2>5, <3>2, <3>3 DEF DrawnOnce
    <2> QED
        BY <2>2, <2>3, <2>4, <2>5
<1> QED
    BY <1>2, <1>3, <1>4 DEF SessionsStand

(* Sessions stand, alone and with their files: whatever other activations of the plan      *)
(* fail, compensate or die, the token files of a finished one hold its own credentials,   *)
(* live until the task is revoked; no runtime session has two credentials that stand      *)
(* unless a lock was taken from a live owner; and what an activation leaves is a token    *)
(* file and a live credential, or neither, unless a death or a refused revocation parts   *)
(* them.                                                                                 *)
THEOREM SessionsAreKept == SessionSpec => []SessionsStand
<1>1. SessionInit => SessionInv
    BY HandsStart, WorkStart DEF SessionInv
<1>2. SessionInv /\ [SessionNext]_sessionVars => SessionInv'
    BY HandsStep, WorkStep DEF SessionInv
<1>3. SessionInv => SessionsStand
    BY StandsFollows
<1> QED
    BY <1>1, <1>2, <1>3, PTL DEF SessionSpec

=============================================================================
