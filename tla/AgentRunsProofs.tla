---------------------------- MODULE AgentRunsProofs ----------------------------
(***************************************************************************)
(* Proofs about what the agent's side keeps on disk, for any number of processes *)
(* and of runs, deaths and failures: the project a bootstrap leaves, the         *)
(* approvals of a skill, its replay, the ledger of its runs, the inspection, and    *)
(* the recording of its tools.                                                     *)
(***************************************************************************)
EXTENDS BootstrapTransaction, StateBinding, RunLedger, InspectionInit,
        ReplayRunner, TraceRecording,
        FiniteSetTheorems, SequenceTheorems, NaturalsInduction, WellFoundedInduction, TLAPS

-----------------------------------------------------------------------------
(* The bootstrap transaction: what a complete project and an undone one hold, and what *)
(* each step of a preparation and of a rollback finds done. *)

LockRec == [owner : Nat, tx : Nat]
JournalRec == [state : PREPARATION_STATES, tx : Nat, owner : Nat, checkpoint : Nat, rebound : Nat]

Preparing == {"prepare", "prepared", "committing", "publish", "point", "configure", "complete"}
Undoing   == {"rebind", "rebind checkpoint", "rebound", "unstage", "unpublish", "unpoint", "forget", "undone"}
BootPlaces == Preparing \cup Undoing \cup {"none", "opened", "claimed", "completed"}

BootRecords ==
    /\ lockFile \in LockRec /\ journal \in JournalRec /\ staging \in Nat /\ generation \in Nat
    /\ pointer \in BOOLEAN /\ configured \in BOOLEAN /\ runs \in Nat
    /\ run \in [at : BootPlaces, lock : LockRec, changed : BOOLEAN]

(* The project as a complete transaction leaves it, and as one that is undone does. *)
WholeProject == journal.state = "complete" /\ pointer /\ staging = 0 /\ generation = journal.checkpoint
            /\ generation # 0
NothingLeft  == journal = Absent /\ staging = 0 /\ generation = 0 /\ pointer = FALSE

(* What each step of a preparation and of a rollback finds done. *)
PreparationStands ==
    /\ run.at \in Preparing => journal.state # "complete"
    /\ run.at = "prepare" => staging = 0
    /\ run.at \in {"prepare", "prepared", "committing", "publish"} => generation = 0 /\ pointer = FALSE
    /\ run.at = "prepared" => staging # 0
    /\ run.at \in {"committing", "publish"} => staging # 0 /\ journal.checkpoint = staging
    /\ run.at \in {"point", "configure", "complete"} =>
          staging = 0 /\ generation = journal.checkpoint /\ generation # 0
    /\ run.at \in {"configure", "complete"} => pointer
RollbackStands ==
    /\ run.at \in Undoing => journal.state # "complete"
    /\ run.at \in {"unpublish", "unpoint", "forget", "undone"} => staging = 0
    /\ run.at \in {"unpoint", "forget", "undone"} => generation = 0
    /\ run.at \in {"forget", "undone"} => pointer = FALSE
    /\ run.at = "undone" => journal = Absent

BootInv ==
    /\ BootRecords
    /\ run.at # "none" => lockFile.tx # 0 /\ run.lock.tx # 0 /\ run.lock.owner # 0
    /\ lockFile = NoLock \/ lockFile.tx # 0
    /\ lockFile = NoLock \/ run.at = "opened" => WholeProject \/ NothingLeft
    /\ journal.state = "complete" => WholeProject
    /\ run.at = "completed" => WholeProject
    /\ PreparationStands /\ RollbackStands

LEMMA BootStart == BootstrapInit => BootInv
<1> SUFFICES ASSUME BootstrapInit
             PROVE  BootInv
    OBVIOUS
<1>1. NoLock \in LockRec /\ Absent \in JournalRec /\ NoRun \in [at : BootPlaces, lock : LockRec, changed : BOOLEAN]
    BY DEF NoLock, Absent, NoRun, LockRec, JournalRec, BootPlaces, PREPARATION_STATES
<1>2. run.at = "none" /\ journal.state = "absent" /\ BootRecords /\ NothingLeft
    BY <1>1 DEF BootstrapInit, BootRecords, NoRun, Absent, NothingLeft
<1> QED
    BY <1>2 DEF BootstrapInit, BootInv, PreparationStands, RollbackStands, Preparing, Undoing

(* What a step may know of the records it starts from. *)
LEMMA BootFields ==
    ASSUME BootRecords
    PROVE  /\ run.at \in BootPlaces /\ run.lock \in LockRec /\ run.lock.owner \in Nat /\ run.lock.tx \in Nat
           /\ run.changed \in BOOLEAN
           /\ \A at \in BootPlaces : Go(at) => /\ run'.at = at /\ run'.lock = run.lock
                                               /\ run' \in [at : BootPlaces, lock : LockRec, changed : BOOLEAN]
           /\ NoLock \in LockRec /\ NoLock.tx = 0 /\ Absent \in JournalRec /\ Absent.state = "absent"
           /\ NoRun \in [at : BootPlaces, lock : LockRec, changed : BOOLEAN] /\ NoRun.at = "none"
BY DEF BootRecords, Go, NoLock, Absent, NoRun, LockRec, JournalRec, BootPlaces, PREPARATION_STATES

(* The invariant of a state in which a run is at work, the lock held. *)
LEMMA AtWork ==
    ASSUME BootRecords', lockFile'.tx # 0, run'.lock.tx # 0, run'.lock.owner # 0,
           run'.at \notin {"none", "opened", "completed"},
           journal'.state = "complete" => WholeProject', PreparationStands', RollbackStands'
    PROVE  BootInv'
BY DEF BootInv, NoLock

(* And of one in which none is. *)
LEMMA Unattended ==
    ASSUME BootRecords', run' = NoRun, journal'.state = "complete" => WholeProject',
           \/ lockFile'.tx # 0
           \/ lockFile' = NoLock /\ (WholeProject \/ NothingLeft)'
    PROVE  BootInv'
BY DEF BootInv, NoLock, NoRun, PreparationStands, RollbackStands, Preparing, Undoing

LEMMA StartSessionBoots ==
    ASSUME BootInv, StartSession
    PROVE  BootInv'
<1>1. runs' = runs + 1 /\ runs' \in Nat /\ runs' # 0
    BY DEF StartSession, BootInv, BootRecords
<1>2. UNCHANGED <<journal, staging, generation, pointer, configured>> /\ (WholeProject' <=> WholeProject)
      /\ (NothingLeft' <=> NothingLeft)
    BY DEF StartSession, WholeProject, NothingLeft
<1>3. CASE lockFile = NoLock
    <2>1. lockFile' = [owner |-> runs', tx |-> runs'] /\ run' = [NoRun EXCEPT !.at = "opened", !.lock = lockFile']
        BY <1>3 DEF StartSession
    <2>2. run'.at = "opened" /\ run'.lock = lockFile' /\ lockFile' \in LockRec /\ lockFile'.tx # 0
          /\ lockFile'.owner # 0 /\ run' \in [at : BootPlaces, lock : LockRec, changed : BOOLEAN]
        BY <1>1, <2>1 DEF NoRun, LockRec, BootPlaces, NoLock
    <2> QED
        BY <1>1, <1>2, <1>3, <2>2 DEF BootInv, BootRecords, PreparationStands, RollbackStands, Preparing, Undoing, NoLock
<1>4. CASE lockFile # NoLock
    <2>1. lockFile' = lockFile /\ run' = [NoRun EXCEPT !.at = "claimed", !.lock = [owner |-> runs', tx |-> lockFile.tx]]
        BY <1>4 DEF StartSession
    <2>2. lockFile.tx # 0 /\ lockFile.tx \in Nat /\ lockFile \in LockRec
        BY <1>4 DEF BootInv, BootRecords, LockRec
    <2>3. run'.at = "claimed" /\ run'.lock.tx # 0 /\ run'.lock.owner # 0
          /\ run' \in [at : BootPlaces, lock : LockRec, changed : BOOLEAN]
        BY <1>1, <2>1, <2>2 DEF NoRun, LockRec, BootPlaces
    <2> QED
        BY <1>1, <1>2, <2>1, <2>2, <2>3, AtWork DEF BootInv, BootRecords, PreparationStands, RollbackStands, Preparing, Undoing
<1> QED
    BY <1>3, <1>4

LEMMA ReadClaimedBoots ==
    ASSUME BootInv, ReadClaimed
    PROVE  BootInv'
<1>1. UNCHANGED <<journal, staging, generation, pointer, configured, runs>> /\ (WholeProject' <=> WholeProject)
      /\ (NothingLeft' <=> NothingLeft) /\ run.at = "claimed" /\ lockFile.tx # 0 /\ run.lock.tx # 0 /\ run.lock.owner # 0
    BY DEF ReadClaimed, WholeProject, NothingLeft, At, BootInv
<1>2. CASE run' = NoRun /\ lockFile' = lockFile
    BY <1>1, <1>2, Unattended, BootFields DEF BootInv, BootRecords
<1>3. CASE run' = NoRun /\ lockFile' = NoLock /\ journal.state = "complete"
    BY <1>1, <1>3, Unattended, BootFields DEF BootInv, BootRecords
<1>4. CASE /\ journal.state # "complete" /\ lockFile' = run.lock /\ run' = [run EXCEPT !.at = "rebind"]
    <2>1. Go("rebind") /\ "rebind" \in BootPlaces
        BY <1>4 DEF Go, BootPlaces, Undoing
    <2>2. run'.at = "rebind" /\ run'.lock = run.lock /\ BootRecords'
        BY <1>1, <1>4, <2>1, BootFields DEF BootInv, BootRecords
    <2> QED
        BY <1>1, <1>4, <2>2, AtWork DEF PreparationStands, RollbackStands, Preparing, Undoing
<1> QED
    BY <1>2, <1>3, <1>4 DEF ReadClaimed, Close

LEMMA ReadFreshBoots ==
    ASSUME BootInv, ReadFresh
    PROVE  BootInv'
<1>1. UNCHANGED <<staging, generation, pointer, configured, runs>> /\ run.at = "opened" /\ lockFile.tx # 0
      /\ run.lock.tx # 0 /\ run.lock.owner # 0 /\ (WholeProject \/ NothingLeft)
    BY DEF ReadFresh, At, BootInv
<1>2. CASE run' = NoRun /\ lockFile' = NoLock /\ journal' = journal
    BY <1>1, <1>2, Unattended, BootFields DEF BootInv, BootRecords, WholeProject, NothingLeft
<1>3. CASE /\ journal = Absent /\ Go("prepare") /\ lockFile' = lockFile
           /\ journal' = [Absent EXCEPT !.state = "locked", !.tx = run.lock.tx, !.owner = run.lock.owner]
    <2>1. NothingLeft
        BY <1>1, <1>3, BootFields DEF WholeProject, BootInv
    <2>2. journal' \in JournalRec /\ journal'.state = "locked"
        BY <1>3, BootFields DEF Absent, JournalRec, PREPARATION_STATES, BootInv
    <2>3. run'.at = "prepare" /\ run'.lock = run.lock /\ BootRecords'
        BY <1>1, <1>3, <2>2, BootFields DEF BootInv, BootRecords, BootPlaces, Preparing
    <2> QED
        BY <1>1, <1>3, <2>1, <2>2, <2>3, AtWork DEF PreparationStands, RollbackStands, Preparing, Undoing, NothingLeft
<1> QED
    BY <1>2, <1>3 DEF ReadFresh, Close

(* A preparation that goes on, and a rollback. *)
LEMMA PreparingBoots ==
    ASSUME BootInv, Prepare \/ JournalPrepared \/ JournalCommitting \/ PublishGeneration \/ PointToGeneration
    PROVE  BootInv'
<1>1. /\ lockFile' = lockFile /\ lockFile.tx # 0 /\ run.lock.tx # 0 /\ run.lock.owner # 0
      /\ UNCHANGED <<configured, runs>> /\ run.at \in Preparing /\ journal.state # "complete"
    BY DEF Prepare, JournalPrepared, JournalCommitting, PublishGeneration, PointToGeneration, At, BootInv, PreparationStands,
           Preparing
<1>2. ASSUME NEW at \in Preparing, Go(at)
      PROVE  /\ run'.at = at /\ run'.lock = run.lock /\ run' \in [at : BootPlaces, lock : LockRec, changed : BOOLEAN]
    BY <1>2, BootFields DEF BootPlaces, BootInv
<1>3. CASE Prepare
    <2>1. Go("prepared") /\ run.at = "prepare" /\ staging' = run.lock.owner /\ UNCHANGED <<journal, generation, pointer>>
        BY <1>3 DEF Prepare, At
    <2>2. run'.at = "prepared" /\ run'.lock = run.lock /\ BootRecords'
        BY <1>1, <1>2, <2>1, BootFields DEF BootInv, BootRecords, Preparing
    <2> QED
        BY <1>1, <2>1, <2>2, AtWork DEF BootInv, PreparationStands, RollbackStands, Undoing, Preparing
<1>4. CASE JournalPrepared
    <2>1. Go("committing") /\ run.at = "prepared" /\ UNCHANGED <<staging, generation, pointer>>
          /\ journal' = [journal EXCEPT !.state = "prepared", !.checkpoint = staging]
        BY <1>4 DEF JournalPrepared, At
    <2>2. journal' \in JournalRec /\ journal'.state = "prepared" /\ journal'.checkpoint = staging
        BY <2>1 DEF BootInv, BootRecords, JournalRec, PREPARATION_STATES
    <2>3. run'.at = "committing" /\ run'.lock = run.lock /\ BootRecords'
        BY <1>1, <1>2, <2>1, <2>2 DEF BootInv, BootRecords, Preparing
    <2> QED
        BY <1>1, <2>1, <2>2, <2>3, AtWork DEF BootInv, PreparationStands, RollbackStands, Undoing, Preparing
<1>5. CASE JournalCommitting
    <2>1. Go("publish") /\ run.at = "committing" /\ UNCHANGED <<staging, generation, pointer>>
          /\ journal' = [journal EXCEPT !.state = "committing"]
        BY <1>5 DEF JournalCommitting, At
    <2>2. journal' \in JournalRec /\ journal'.state = "committing" /\ journal'.checkpoint = journal.checkpoint
        BY <2>1 DEF BootInv, BootRecords, JournalRec, PREPARATION_STATES
    <2>3. run'.at = "publish" /\ run'.lock = run.lock /\ BootRecords'
        BY <1>1, <1>2, <2>1, <2>2 DEF BootInv, BootRecords, Preparing
    <2> QED
        BY <1>1, <2>1, <2>2, <2>3, AtWork DEF BootInv, PreparationStands, RollbackStands, Undoing, Preparing
<1>6. CASE PublishGeneration
    <2>1. Go("point") /\ run.at = "publish" /\ generation' = staging /\ staging' = 0 /\ UNCHANGED <<journal, pointer>>
        BY <1>6 DEF PublishGeneration, At
    <2>2. run'.at = "point" /\ run'.lock = run.lock /\ BootRecords'
        BY <1>1, <1>2, <2>1 DEF BootInv, BootRecords, Preparing
    <2> QED
        BY <1>1, <2>1, <2>2, AtWork DEF BootInv, PreparationStands, RollbackStands, Undoing, Preparing
<1>7. CASE PointToGeneration
    <2>1. Go("configure") /\ run.at = "point" /\ pointer' = TRUE /\ UNCHANGED <<journal, staging, generation>>
        BY <1>7 DEF PointToGeneration, At
    <2>2. run'.at = "configure" /\ run'.lock = run.lock /\ BootRecords'
        BY <1>1, <1>2, <2>1 DEF BootInv, BootRecords, Preparing
    <2> QED
        BY <1>1, <2>1, <2>2, AtWork DEF BootInv, PreparationStands, RollbackStands, Undoing, Preparing
<1> QED
    BY <1>3, <1>4, <1>5, <1>6, <1>7

LEMMA FinishingBoots ==
    ASSUME BootInv, PublishConfiguration \/ JournalComplete \/ ReportComplete
    PROVE  BootInv'
<1>1. /\ lockFile.tx # 0 /\ run.lock.tx # 0 /\ run.lock.owner # 0
      /\ UNCHANGED <<staging, generation, pointer, runs>>
    BY DEF PublishConfiguration, JournalComplete, ReportComplete, At, BootInv
<1>2. CASE PublishConfiguration
    <2>1. /\ lockFile' = lockFile /\ run.at = "configure" /\ configured' = TRUE /\ journal' = journal
          /\ run' = [run EXCEPT !.at = "complete", !.changed = ~configured]
        BY <1>2 DEF PublishConfiguration, At
    <2>2. run' \in [at : BootPlaces, lock : LockRec, changed : BOOLEAN] /\ run'.at = "complete" /\ run'.lock = run.lock
        BY <2>1 DEF BootInv, BootRecords, BootPlaces, Preparing
    <2>3. BootRecords'
        BY <1>1, <2>1, <2>2 DEF BootInv, BootRecords
    <2> QED
        BY <1>1, <2>1, <2>2, <2>3, AtWork DEF BootInv, PreparationStands, RollbackStands, Undoing, Preparing
<1>3. CASE JournalComplete
    <2>1. /\ lockFile' = lockFile /\ run.at = "complete" /\ configured' = configured
          /\ journal' = [journal EXCEPT !.state = "complete"] /\ Go("completed")
        BY <1>3 DEF JournalComplete, At
    <2>2. journal' \in JournalRec /\ journal'.state = "complete" /\ journal'.checkpoint = journal.checkpoint
        BY <2>1 DEF BootInv, BootRecords, JournalRec, PREPARATION_STATES
    <2>3. run'.at = "completed" /\ run'.lock = run.lock /\ BootRecords'
        BY <1>1, <2>1, <2>2, BootFields DEF BootInv, BootRecords, BootPlaces
    <2>4. WholeProject'
        BY <1>1, <2>1, <2>2 DEF WholeProject, BootInv, PreparationStands
    <2> QED
        BY <1>1, <2>1, <2>2, <2>3, <2>4 DEF BootInv, PreparationStands, RollbackStands, Undoing, Preparing
<1>4. CASE ReportComplete
    <2>1. lockFile' = NoLock /\ run' = NoRun /\ run.at = "completed" /\ configured' = configured /\ journal' = journal
        BY <1>4 DEF ReportComplete, At, Close
    <2>2. WholeProject'
        BY <1>1, <2>1 DEF WholeProject, BootInv
    <2> QED
        BY <1>1, <2>1, <2>2, Unattended, BootFields DEF BootInv, BootRecords
<1> QED
    BY <1>2, <1>3, <1>4

LEMMA RebindingBoots ==
    ASSUME BootInv, Rebind \/ RebindCheckpoint \/ Rebound
    PROVE  BootInv'
<1>1. /\ lockFile.tx # 0 /\ run.lock.tx # 0 /\ run.lock.owner # 0 /\ journal.state # "complete"
      /\ UNCHANGED <<pointer, configured, runs>>
    BY DEF Rebind, RebindCheckpoint, Rebound, At, BootInv, RollbackStands, Undoing
<1>2. CASE Rebind
    <2>1. CASE lockFile' = [lockFile EXCEPT !.owner = journal.owner] /\ run' = NoRun /\ journal' = journal
        <3>1. lockFile' \in LockRec /\ lockFile'.tx # 0
            BY <1>1, <2>1 DEF BootInv, BootRecords, LockRec, JournalRec
        <3>2. UNCHANGED <<staging, generation>>
            BY <1>2 DEF Rebind
        <3> QED
            BY <1>1, <2>1, <3>1, <3>2, Unattended, BootFields DEF BootInv, BootRecords
    <2>2. CASE /\ lockFile' = lockFile /\ Go(IF journal.checkpoint = 0 THEN "unstage" ELSE "rebind checkpoint")
               /\ journal' = [journal EXCEPT !.state = "rolling-back", !.owner = run.lock.owner,
                                !.rebound = IF journal.checkpoint = 0 THEN 0 ELSE run.lock.owner]
        <3>1. UNCHANGED <<staging, generation>>
            BY <1>2 DEF Rebind
        <3>2. journal' \in JournalRec /\ journal'.state = "rolling-back"
            BY <2>2, BootFields DEF BootInv, BootRecords, JournalRec, PREPARATION_STATES
        <3>3. run'.at \in {"unstage", "rebind checkpoint"} /\ run'.lock = run.lock /\ BootRecords'
            BY <1>1, <2>2, <3>1, <3>2, BootFields DEF BootInv, BootRecords, BootPlaces, Undoing
        <3> QED
            BY <1>1, <2>2, <3>1, <3>2, <3>3, AtWork DEF PreparationStands, RollbackStands, Undoing, Preparing
    <2> QED
        BY <1>2, <2>1, <2>2 DEF Rebind
<1>3. CASE RebindCheckpoint
    <2>1. UNCHANGED <<lockFile, journal>> /\ Go("rebound") /\ staging' \in Nat /\ generation' \in Nat
        BY <1>3, BootFields DEF RebindCheckpoint, BootInv, BootRecords
    <2>2. run'.at = "rebound" /\ run'.lock = run.lock /\ BootRecords'
        BY <1>1, <2>1, BootFields DEF BootInv, BootRecords, BootPlaces, Undoing
    <2> QED
        BY <1>1, <2>1, <2>2, AtWork DEF PreparationStands, RollbackStands, Undoing, Preparing
<1>4. CASE Rebound
    <2>1. /\ UNCHANGED <<lockFile, staging, generation>> /\ Go("unstage")
          /\ journal' = [journal EXCEPT !.checkpoint = run.lock.owner, !.rebound = 0]
        BY <1>4 DEF Rebound
    <2>2. journal' \in JournalRec /\ journal'.state = journal.state
        BY <2>1, BootFields DEF BootInv, BootRecords, JournalRec
    <2>3. run'.at = "unstage" /\ run'.lock = run.lock /\ BootRecords'
        BY <1>1, <2>1, <2>2, BootFields DEF BootInv, BootRecords, BootPlaces, Undoing
    <2> QED
        BY <1>1, <2>1, <2>2, <2>3, AtWork DEF PreparationStands, RollbackStands, Undoing, Preparing
<1> QED
    BY <1>2, <1>3, <1>4

LEMMA RollbackBoots ==
    ASSUME BootInv, RollbackAbsent
    PROVE  BootInv'
<1>1. /\ lockFile.tx # 0 /\ run.lock.tx # 0 /\ run.lock.owner # 0 /\ journal.state # "complete"
      /\ UNCHANGED <<configured, runs>>
    BY DEF RollbackAbsent, At, BootInv, RollbackStands, Undoing
<1>2. ASSUME NEW at \in Undoing, Go(at), lockFile' = lockFile, journal' \in JournalRec, journal'.state # "complete",
             staging' \in {staging, 0}, generation' \in {generation, 0}, pointer' \in {pointer, FALSE}
      PROVE  run'.at = at /\ run'.lock = run.lock /\ BootRecords' /\ (RollbackStands' => BootInv')
    <2>1. /\ run'.at = at /\ run'.lock = run.lock
          /\ run' \in [at : BootPlaces, lock : LockRec, changed : BOOLEAN]
        BY <1>2, BootFields DEF BootInv, BootPlaces
    <2>2. staging' \in Nat /\ generation' \in Nat /\ pointer' \in BOOLEAN
        <3>1. staging \in Nat /\ generation \in Nat /\ pointer \in BOOLEAN
            BY DEF BootInv, BootRecords
        <3>2. staging' \in Nat /\ generation' \in Nat
            BY <1>2, <3>1
        <3>3. pointer' \in BOOLEAN
            BY <1>2, <3>1, Zenon
        <3> QED BY <3>2, <3>3
    <2>3. BootRecords'
        BY <1>1, <1>2, <2>1, <2>2 DEF BootInv, BootRecords
    <2> QED
        BY <1>1, <1>2, <2>1, <2>3, AtWork DEF PreparationStands, Preparing, Undoing
<1>3. journal \in JournalRec
    BY DEF BootInv, BootRecords
<1>4. CASE At("unstage") /\ staging' = 0 /\ Go("unpublish") /\ UNCHANGED <<lockFile, journal, generation, pointer>>
    BY <1>1, <1>2, <1>3, <1>4 DEF BootInv, RollbackStands, Undoing, At
<1>5. CASE At("unpublish") /\ generation' = 0 /\ Go("unpoint") /\ UNCHANGED <<lockFile, journal, staging, pointer>>
    BY <1>1, <1>2, <1>3, <1>5 DEF BootInv, RollbackStands, Undoing, At
<1>6. CASE At("unpoint") /\ pointer' = FALSE /\ Go("forget") /\ UNCHANGED <<lockFile, journal, staging, generation>>
    BY <1>1, <1>2, <1>3, <1>6 DEF BootInv, RollbackStands, Undoing, At
<1>7. CASE At("forget") /\ journal' = Absent /\ Go("undone") /\ UNCHANGED <<lockFile, staging, generation, pointer>>
    BY <1>1, <1>2, <1>3, <1>7, BootFields DEF BootInv, RollbackStands, Undoing, At
<1>8. CASE At("undone") /\ Close(TRUE) /\ UNCHANGED <<journal, staging, generation, pointer>>
    BY <1>1, <1>8, Unattended, BootFields DEF BootInv, BootRecords, RollbackStands, Undoing, At, Close, NothingLeft
<1> QED
    BY <1>4, <1>5, <1>6, <1>7, <1>8 DEF RollbackAbsent

LEMMA FailingBoots ==
    ASSUME BootInv, PreparationFails \/ RollbackFails
    PROVE  BootInv'
<1>1. /\ lockFile.tx # 0 /\ run.lock.tx # 0 /\ run.lock.owner # 0
      /\ UNCHANGED <<staging, generation, pointer, runs>>
    BY DEF PreparationFails, RollbackFails, BootInv
<1>2. CASE journal' = [journal EXCEPT !.state = "recovery-required"] /\ run' = NoRun /\ lockFile' = lockFile
           /\ configured' = configured
    <2>1. journal' \in JournalRec /\ journal'.state = "recovery-required"
        BY <1>2 DEF BootInv, BootRecords, JournalRec, PREPARATION_STATES
    <2> QED
        BY <1>1, <1>2, <2>1, Unattended, BootFields DEF BootInv, BootRecords
<1>3. CASE PreparationFails /\ configured' = (configured /\ ~run.changed)
    <2>1. configured' \in BOOLEAN
        BY <1>3 DEF BootInv, BootRecords
    <2>2. CASE journal.state = "complete" /\ Close(TRUE) /\ journal' = journal
        <3>1. WholeProject'
            BY <1>1, <2>2 DEF BootInv, WholeProject
        <3> QED
            BY <1>1, <2>1, <2>2, <3>1, Unattended, BootFields DEF BootInv, BootRecords, Close
    <2>3. CASE journal' = [journal EXCEPT !.state = "rolling-back"] /\ Go("unstage") /\ lockFile' = lockFile
        <3>1. journal' \in JournalRec /\ journal'.state = "rolling-back"
            BY <2>3 DEF BootInv, BootRecords, JournalRec, PREPARATION_STATES
        <3>2. run'.at = "unstage" /\ run'.lock = run.lock /\ BootRecords'
            BY <1>1, <2>1, <2>3, <3>1, BootFields DEF BootInv, BootRecords, BootPlaces, Undoing
        <3> QED
            BY <1>1, <2>3, <3>1, <3>2, AtWork DEF PreparationStands, RollbackStands, Undoing, Preparing
    <2> QED
        BY <1>2, <1>3, <2>2, <2>3 DEF PreparationFails
<1>4. CASE RollbackFails
    <2>1. journal' = [journal EXCEPT !.state = "recovery-required", !.rebound = 0] /\ run' = NoRun
          /\ UNCHANGED <<lockFile, configured>>
        BY <1>4 DEF RollbackFails
    <2>2. journal' \in JournalRec /\ journal'.state = "recovery-required"
        BY <2>1 DEF BootInv, BootRecords, JournalRec, PREPARATION_STATES
    <2> QED
        BY <1>1, <2>1, <2>2, Unattended, BootFields DEF BootInv, BootRecords
<1> QED
    BY <1>2, <1>3, <1>4 DEF PreparationFails

LEMMA DeathBoots ==
    ASSUME BootInv, Die
    PROVE  BootInv'
<1>1. UNCHANGED disk /\ run' = NoRun /\ runs' = runs /\ lockFile.tx # 0
    BY DEF Die, At, BootInv
<1> QED
    BY <1>1, Unattended, BootFields DEF disk, BootInv, BootRecords, WholeProject

LEMMA BootStep ==
    ASSUME BootInv, [BootstrapNext]_bootstrapVars
    PROVE  BootInv'
<1>1. CASE UNCHANGED bootstrapVars
    BY <1>1 DEF bootstrapVars, BootInv, BootRecords, WholeProject, NothingLeft, PreparationStands, RollbackStands
<1>2. CASE BootstrapNext
    BY <1>2, StartSessionBoots, ReadClaimedBoots, ReadFreshBoots, PreparingBoots, FinishingBoots, RebindingBoots,
       RollbackBoots, FailingBoots, DeathBoots DEF BootstrapNext
<1> QED
    BY <1>1, <1>2

(* A project without a lock file is complete or has no trace of a preparation, whatever   *)
(* was written, failed or died before (src/bootstrap/initialize.ts).                      *)
THEOREM OpenProjectsAreWhole == BootstrapSpec => []OpenProjectIsWhole
<1>1. BootInv => OpenProjectIsWhole
    BY DEF BootInv, BootRecords, OpenProjectIsWhole, WholeProject, NothingLeft
<1> QED
    BY <1>1, BootStart, BootStep, PTL DEF BootstrapSpec

-----------------------------------------------------------------------------
(* The approvals of a skill and the keystore of their bindings. *)

BindingRec    == [key : Nat, pre : Nat]
StepRec == [approve : [covers : BOOLEAN, expect : BindingRec], expect : BindingRec]
SkillFiles   == [WriteSteps -> StepRec]
Asking  == {"step", "ask", "mint", "downgrade", "update"}
ApproveRec ==
    [verb : {"approve"}, stage : Asking \cup {"write"}, probe : BOOLEAN, all : BOOLEAN, drop : BOOLEAN,
     rebind : BOOLEAN, memory : SkillFiles, at : Nat, seen : BindingRec, approved : Nat, read : SUBSET Nat]
HealRec  == [verb : {"heal"}, stage : {"write"}, memory : SkillFiles, approved : Nat]
PruneRec == [verb : {"prune"}, stage : {"scan", "rescan", "mint", "update"}, since : Nat,
             orphans : SUBSET Nat, read : SUBSET Nat]
CommandRecs == {AtRest} \cup ApproveRec \cup HealRec \cup PruneRec

BindingRecords ==
    /\ world \in Nat /\ skillFile \in SkillFiles /\ keystore \subseteq Nat /\ observations \in Nat
    /\ commands \in [Commands -> CommandRecs]

(* What a person was asked, and what a skill file may hold: approvals that were given, *)
(* and keys that are in the keystore or were pruned unnamed.                            *)
Asked(s, expect) == [step |-> s, pre |-> expect.pre, bound |-> expect # Unbound]
Agreed(skills) == \A s \in WriteSteps : Current(skills[s]) => Asked(s, skills[s].expect) \in consents
KeysKnown(skills)  == \A s \in WriteSteps : skills[s].expect.key \in {0} \cup keystore \cup unseen

(* A command holds such a file in memory, and mints the key of what it asked for. *)
Fits(c) ==
    /\ c.verb \in {"approve", "heal"} => Agreed(c.memory) /\ KeysKnown(c.memory)
    /\ c.verb = "approve" /\ c.stage \in Asking => c.at \in WriteSteps
    /\ c.verb = "approve" /\ c.stage \in {"mint", "update"} => Asked(c.at, c.seen) \in consents

(* Who updates the keystore holds its lock and has read it as it is. *)
InUpdate(c) == c.verb \in {"approve", "prune"} /\ c.stage = "update"
Updating    == \A p \in Commands : InUpdate(commands[p]) => keyLock = p /\ commands[p].read = keystore

BindInv ==
    /\ BindingRecords /\ Agreed(skillFile) /\ KeysKnown(skillFile)
    /\ \A p \in Commands : Fits(commands[p])
    /\ Updating

LEMMA BindStart == BindingInit => BindInv
<1> SUFFICES ASSUME BindingInit
             PROVE  BindInv
    OBVIOUS
<1>1. Unbound \in BindingRec /\ Unapproved \in [covers : BOOLEAN, expect : BindingRec] /\ Unapproved.covers = FALSE
    BY DEF Unbound, Unapproved, BindingRec
<1>2. skillFile \in SkillFiles /\ \A s \in WriteSteps : skillFile[s].approve = Unapproved /\ skillFile[s].expect = Unbound
    BY <1>1 DEF BindingInit, SkillFiles, StepRec
<1>3. \A s \in WriteSteps : ~Current(skillFile[s]) /\ skillFile[s].expect.key = 0
    BY <1>1, <1>2 DEF Current, ApprovalOf, Unbound
<1>4. \A p \in Commands : commands[p] = AtRest /\ commands[p].verb = "none"
    BY DEF BindingInit, AtRest
<1>5. BindingRecords
    BY <1>2, <1>4 DEF BindingInit, BindingRecords, CommandRecs
<1> QED
    BY <1>2, <1>3, <1>4, <1>5 DEF BindInv, Agreed, KeysKnown, Fits, Updating, InUpdate

(* What consents and keys grow by, no file loses. *)
LEMMA FilesFit ==
    ASSUME consents \subseteq consents', keystore \cup unseen \subseteq keystore' \cup unseen', NEW f
    PROVE  /\ Agreed(f) => Agreed(f)'
           /\ KeysKnown(f) => KeysKnown(f)'
BY DEF Agreed, KeysKnown

(* One command goes on to what fits, and the others keep what they have. *)
LEMMA CommandGoesOn ==
    ASSUME BindInv, NEW p \in Commands, NEW c \in CommandRecs, Continue(p, c), Fits(c)',
           consents \subseteq consents', keystore \cup unseen \subseteq keystore' \cup unseen',
           world' \in Nat, skillFile' \in SkillFiles, keystore' \subseteq Nat, observations' \in Nat,
           Agreed(skillFile)', KeysKnown(skillFile)',
           InUpdate(c) => keyLock' = p /\ c.read = keystore',
           \A q \in Commands : q # p /\ InUpdate(commands[q]) => keyLock' = q /\ commands[q].read = keystore'
    PROVE  BindInv'
<1>1. commands' \in [Commands -> CommandRecs] /\ commands'[p] = c
      /\ \A q \in Commands : q # p => commands'[q] = commands[q]
    BY DEF Continue, BindInv, BindingRecords
<1>2. \A q \in Commands : Fits(commands[q])'
    <2>1. ASSUME NEW q \in Commands, q # p
          PROVE  Fits(commands[q])'
        <3>1. Fits(commands[q]) /\ commands'[q] = commands[q]
            BY <1>1, <2>1 DEF BindInv
        <3> QED BY <3>1, FilesFit DEF Fits
    <2>2. Fits(commands[p])'
        BY <1>1 DEF Fits
    <2> QED BY <2>1, <2>2
<1>3. Updating'
    BY <1>1 DEF Updating, InUpdate
<1>4. BindingRecords'
    BY <1>1 DEF BindingRecords
<1> QED
    BY <1>2, <1>3, <1>4 DEF BindInv

(* The same where the files, the keys and the lock stay as they are. *)
LEMMA CommandAsks ==
    ASSUME BindInv, NEW p \in Commands, NEW c \in CommandRecs, Continue(p, c), Fits(c)', ~InUpdate(c),
           consents \subseteq consents', observations' \in Nat, UNCHANGED <<world, skillFile, keystore, keyLock, unseen>>
    PROVE  BindInv'
<1>1. Agreed(skillFile)' /\ KeysKnown(skillFile)'
    BY DEF BindInv, Agreed, KeysKnown
<1>2. \A q \in Commands : InUpdate(commands[q]) => keyLock' = q /\ commands[q].read = keystore'
    BY DEF BindInv, Updating
<1> QED
    BY <1>1, <1>2, CommandGoesOn DEF BindInv, BindingRecords

(* An approve that goes on with its next step, this one as it is now. *)
LEMMA StepsOn ==
    ASSUME BindInv, NEW p \in Commands, commands[p].verb = "approve", commands[p].stage \in Asking,
           NEW step \in StepRec, NextStep(p, step),
           consents \subseteq consents', keystore \cup unseen \subseteq keystore' \cup unseen',
           Current(step) => Asked(commands[p].at, step.expect) \in consents',
           step.expect.key \in {0} \cup keystore' \cup unseen'
    PROVE  \E c \in CommandRecs : Continue(p, c) /\ Fits(c)' /\ ~InUpdate(c)
<1> DEFINE a == commands[p]
<1>0. PICK c : c = [a EXCEPT !.memory[a.at] = step, !.at = @ + 1, !.seen = Unbound, !.read = {},
                             !.approved = IF step # StepOf(a) THEN @ + 1 ELSE @,
                             !.stage = IF a.at + 1 \in WriteSteps THEN "step" ELSE "write"]
    OBVIOUS
<1>1. a \in ApproveRec /\ Fits(a) /\ a.at \in WriteSteps
    BY DEF BindInv, BindingRecords, CommandRecs, HealRec, PruneRec, AtRest, Fits
<1>2. Continue(p, c)
    BY <1>0 DEF NextStep
<1>3. c \in ApproveRec /\ c.verb = "approve" /\ c.memory = [a.memory EXCEPT ![a.at] = step] /\ c.at = a.at + 1
      /\ c.stage = IF a.at + 1 \in WriteSteps THEN "step" ELSE "write"
    <2>1. [a.memory EXCEPT ![a.at] = step] \in SkillFiles
        BY <1>1 DEF ApproveRec, SkillFiles
    <2>2. Unbound \in BindingRec
        BY DEF Unbound, BindingRec
    <2>3. a.at + 1 \in Nat /\ a.approved + 1 \in Nat
        BY <1>1 DEF ApproveRec
    <2> QED BY <1>0, <1>1, <2>1, <2>2, <2>3 DEF ApproveRec, Asking
<1>4. Agreed(c.memory)' /\ KeysKnown(c.memory)'
    <2>1. Agreed(a.memory) /\ KeysKnown(a.memory) /\ a.memory \in SkillFiles
        BY <1>1 DEF Fits, ApproveRec
    <2>2. ASSUME NEW s \in WriteSteps
          PROVE  /\ Current(c.memory[s]) => Asked(s, c.memory[s].expect) \in consents'
                 /\ c.memory[s].expect.key \in {0} \cup keystore' \cup unseen'
        <3>1. CASE s = a.at
            BY <1>3, <2>1, <3>1 DEF SkillFiles
        <3>2. CASE s # a.at
            <4>1. c.memory[s] = a.memory[s]
                BY <1>3, <2>1, <3>2 DEF SkillFiles
            <4> QED BY <2>1, <4>1 DEF Agreed, KeysKnown
        <3> QED BY <3>1, <3>2
    <2> QED BY <2>2 DEF Agreed, KeysKnown
<1>5. Fits(c)' /\ ~InUpdate(c)
    BY <1>3, <1>4 DEF Fits, InUpdate, Asking
<1> QED
    BY <1>2, <1>3, <1>5 DEF CommandRecs

(* A step stays as it is. *)
LEMMA StepStays ==
    ASSUME BindInv, NEW p \in Commands, commands[p].verb = "approve", commands[p].stage \in Asking
    PROVE  /\ commands[p] \in ApproveRec /\ Fits(commands[p]) /\ commands[p].at \in WriteSteps
           /\ StepOf(commands[p]) \in StepRec
           /\ Current(StepOf(commands[p])) => Asked(commands[p].at, StepOf(commands[p]).expect) \in consents
           /\ StepOf(commands[p]).expect.key \in {0} \cup keystore \cup unseen
           /\ StepOf(commands[p]).expect \in BindingRec
<1>1. commands[p] \in ApproveRec /\ Fits(commands[p]) /\ commands[p].at \in WriteSteps
    BY DEF BindInv, BindingRecords, CommandRecs, HealRec, PruneRec, AtRest, Fits
<1>2. commands[p].memory \in SkillFiles /\ Agreed(commands[p].memory) /\ KeysKnown(commands[p].memory)
    BY <1>1 DEF Fits, ApproveRec
<1>3. StepOf(commands[p]) \in StepRec
    BY <1>1, <1>2 DEF StepOf, SkillFiles
<1> QED
    BY <1>1, <1>2, <1>3 DEF Agreed, KeysKnown, StepOf, StepRec
LEMMA StaysPut ==
    ASSUME BindInv, NEW p \in Commands, commands[p].verb = "approve", commands[p].stage \in Asking,
           NextStep(p, StepOf(commands[p])), consents' = consents, observations' \in Nat,
           UNCHANGED <<world, skillFile, keystore, keyLock, unseen>>
    PROVE  BindInv'
<1>1. PICK c \in CommandRecs : Continue(p, c) /\ Fits(c)' /\ ~InUpdate(c)
    BY StepsOn, StepStays
<1> QED
    BY <1>1, CommandAsks

(* A binding given for nothing seen names no key. *)
LEMMA UnboundIsABinding == Unbound \in BindingRec /\ Unbound.key = 0
BY DEF Unbound, BindingRec
LEMMA Approval ==
    ASSUME NEW expect \in BindingRec
    PROVE  [approve |-> ApprovalOf(expect), expect |-> expect] \in StepRec
BY DEF ApprovalOf, StepRec

(* A step is approved with a binding that was asked for. *)
LEMMA StepApproved ==
    ASSUME BindInv, NEW p \in Commands, commands[p].verb = "approve", commands[p].stage \in Asking,
           NEW expect \in BindingRec, NextStep(p, [approve |-> ApprovalOf(expect), expect |-> expect]),
           Consented(p, expect), expect.key \in {0} \cup keystore \cup unseen, observations' \in Nat,
           UNCHANGED <<world, skillFile, keystore, keyLock, unseen>>
    PROVE  BindInv'
<1> DEFINE step == [approve |-> ApprovalOf(expect), expect |-> expect]
<1>1. step \in StepRec /\ step.expect = expect
    BY Approval
<1>2. consents \subseteq consents' /\ Asked(commands[p].at, expect) \in consents'
    BY DEF Consented, Asked
<1> HIDE DEF step
<1>3. NextStep(p, step)
    BY DEF step
<1>4. PICK c \in CommandRecs : Continue(p, c) /\ Fits(c)' /\ ~InUpdate(c)
    BY <1>1, <1>2, <1>3, StepsOn
<1> QED
    BY <1>2, <1>4, CommandAsks

LEMMA StartBinds ==
    ASSUME BindInv, NEW p \in Commands, ApproveStart(p) \/ HealStart(p) \/ PruneStart(p)
    PROVE  BindInv'
<1>1. UNCHANGED <<world, skillFile, keystore, keyLock, observations, unseen, consents>>
    BY DEF ApproveStart, HealStart, PruneStart, approveKeeps
<1>2. skillFile \in SkillFiles /\ keystore \subseteq Nat /\ observations \in Nat /\ Agreed(skillFile) /\ KeysKnown(skillFile)
      /\ Agreed(skillFile)' /\ KeysKnown(skillFile)' /\ skillFile' = skillFile
    BY <1>1 DEF BindInv, BindingRecords, Agreed, KeysKnown
<1>3. CASE ApproveStart(p)
    <2>1. PICK probe, all, drop, rebind \in BOOLEAN :
             Continue(p, [verb |-> "approve", stage |-> "step", probe |-> probe, all |-> all,
                          drop |-> drop, rebind |-> rebind, memory |-> skillFile, at |-> 1,
                          seen |-> Unbound, approved |-> 0, read |-> {}])
        BY <1>3 DEF ApproveStart
    <2>0. PICK c : c = [verb |-> "approve", stage |-> "step", probe |-> probe, all |-> all,
                        drop |-> drop, rebind |-> rebind, memory |-> skillFile, at |-> 1,
                        seen |-> Unbound, approved |-> 0, read |-> {}]
        OBVIOUS
    <2>2. c \in ApproveRec /\ c.verb = "approve" /\ c.stage = "step" /\ c.memory = skillFile /\ c.at = 1
        BY <1>2, <2>0, UnboundIsABinding DEF ApproveRec, Asking
    <2>3. 1 \in WriteSteps
        <3>1. Cardinality(WriteSteps) \in Nat
            BY StateBindingAssumption, FS_CardinalityType
        <3> QED BY <3>1, StateBindingAssumption
    <2>4. Fits(c)' /\ ~InUpdate(c) /\ Continue(p, c)
        <3>1. Continue(p, c)
            BY <2>0, <2>1
        <3>2. Agreed(c.memory)' /\ KeysKnown(c.memory)'
            BY <1>2, <2>2 DEF Agreed, KeysKnown
        <3> QED BY <2>2, <2>3, <3>1, <3>2 DEF Fits, InUpdate
    <2> QED BY <1>1, <1>2, <2>2, <2>4, CommandAsks DEF CommandRecs
<1>4. CASE HealStart(p)
    <2>0. PICK c : c = [verb |-> "heal", stage |-> "write", memory |-> skillFile, approved |-> 1]
        OBVIOUS
    <2>1. c \in HealRec /\ c.verb = "heal" /\ c.memory = skillFile
        BY <1>2, <2>0 DEF HealRec
    <2>2. Continue(p, c)
        BY <1>4, <2>0 DEF HealStart
    <2>3. Fits(c)' /\ ~InUpdate(c)
        <3>1. Agreed(c.memory)' /\ KeysKnown(c.memory)'
            BY <1>2, <2>1 DEF Agreed, KeysKnown
        <3> QED BY <2>1, <3>1 DEF Fits, InUpdate
    <2> QED BY <1>1, <1>2, <2>1, <2>2, <2>3, CommandAsks DEF CommandRecs
<1>5. CASE PruneStart(p)
    <2>0. PICK c : c = [verb |-> "prune", stage |-> "scan", since |-> observations, orphans |-> keystore,
                        read |-> {}]
        OBVIOUS
    <2>1. c \in PruneRec /\ c.verb = "prune" /\ c.stage = "scan"
        BY <1>2, <2>0 DEF PruneRec
    <2>2. Continue(p, c)
        BY <1>5, <2>0 DEF PruneStart
    <2>3. Fits(c)' /\ ~InUpdate(c)
        BY <2>1 DEF Fits, InUpdate
    <2> QED BY <1>1, <1>2, <2>1, <2>2, <2>3, CommandAsks DEF CommandRecs
<1> QED
    BY <1>3, <1>4, <1>5

(* An approve goes on asking: another stage, perhaps another observation. *)
LEMMA StageBinds ==
    ASSUME BindInv, NEW p \in Commands, commands[p].verb = "approve", commands[p].stage \in Asking,
           NEW stage \in Asking \ {"update"}, NEW seen \in BindingRec,
           Continue(p, [commands[p] EXCEPT !.stage = stage, !.seen = seen]),
           stage = "mint" => Asked(commands[p].at, seen) \in consents',
           consents \subseteq consents', observations' \in Nat, UNCHANGED <<world, skillFile, keystore, keyLock, unseen>>
    PROVE  BindInv'
<1>0. PICK c : c = [commands[p] EXCEPT !.stage = stage, !.seen = seen]
    OBVIOUS
<1>1. commands[p] \in ApproveRec /\ Fits(commands[p]) /\ commands[p].at \in WriteSteps
    BY StepStays
<1>2. c \in ApproveRec /\ c.verb = "approve" /\ c.stage = stage /\ c.memory = commands[p].memory
      /\ c.at = commands[p].at /\ c.seen = seen
    BY <1>0, <1>1 DEF ApproveRec
<1>3. Fits(c)' /\ ~InUpdate(c)
    <2>1. Agreed(c.memory) /\ KeysKnown(c.memory)
        BY <1>1, <1>2 DEF Fits
    <2>2. Agreed(c.memory)' /\ KeysKnown(c.memory)'
        BY <2>1, FilesFit
    <2> QED BY <1>1, <1>2, <2>2 DEF Fits, InUpdate
<1> QED
    BY <1>0, <1>2, <1>3, CommandAsks DEF CommandRecs

LEMMA ApproveBinds ==
    ASSUME BindInv, NEW p \in Commands,
           ApprovePlain(p) \/ ApproveProbe(p) \/ ApproveAnswer(p) \/ ApproveDowngrade(p) \/ MintFails(p)
    PROVE  BindInv'
<1>1. commands[p].verb = "approve" /\ commands[p].stage \in Asking
    BY DEF ApprovePlain, ApproveProbe, ApproveAnswer, ApproveDowngrade, MintFails, Doing, Asking
<1>2. /\ UNCHANGED <<world, skillFile, keystore, keyLock, unseen>>
      /\ observations' \in Nat
    BY DEF ApprovePlain, ApproveProbe, ApproveAnswer, ApproveDowngrade, MintFails, approveKeeps, BindInv, BindingRecords
<1>3. /\ commands[p] \in ApproveRec /\ StepOf(commands[p]).expect \in BindingRec /\ commands[p].seen \in BindingRec
      /\ StepOf(commands[p]).expect.key \in {0} \cup keystore \cup unseen
      /\ Unbound \in BindingRec /\ Unbound.key = 0
    BY <1>1, StepStays, UnboundIsABinding DEF ApproveRec
<1>4. CASE NextStep(p, StepOf(commands[p])) /\ UNCHANGED consents
    BY <1>1, <1>2, <1>4, StaysPut
<1>5. ASSUME NEW expect \in {Unbound, StepOf(commands[p]).expect}, Consented(p, expect),
             NextStep(p, [approve |-> ApprovalOf(expect), expect |-> expect])
      PROVE  BindInv'
    BY <1>1, <1>2, <1>3, <1>5, StepApproved
<1>6. ASSUME NEW stage \in {"ask", "downgrade"}, NEW seen \in BindingRec, consents' = consents,
             Continue(p, [commands[p] EXCEPT !.stage = stage, !.seen = seen])
      PROVE  BindInv'
    BY <1>1, <1>2, <1>6, StageBinds DEF Asking
<1>7. ASSUME NEW stage, Continue(p, [commands[p] EXCEPT !.stage = stage])
      PROVE  Continue(p, [commands[p] EXCEPT !.stage = stage, !.seen = commands[p].seen])
    BY <1>3, <1>7 DEF ApproveRec
<1>8. CASE ApprovePlain(p)
    <2>1. CASE ~(NextStep(p, StepOf(commands[p])) /\ UNCHANGED consents)
        <3>1. PICK expect \in {Unbound, StepOf(commands[p]).expect} :
                 /\ Consented(p, expect) /\ NextStep(p, [approve |-> ApprovalOf(expect), expect |-> expect])
            BY <1>8, <2>1 DEF ApprovePlain
        <3> QED BY <1>5, <3>1
    <2> QED BY <1>4, <2>1
<1>9. CASE ApproveProbe(p)
    <2>1. consents' = consents
        BY <1>9 DEF ApproveProbe
    <2>2. \/ NextStep(p, StepOf(commands[p]))
          \/ Continue(p, [commands[p] EXCEPT !.stage = "ask", !.seen = [key |-> observations', pre |-> world]])
          \/ Continue(p, [commands[p] EXCEPT !.stage = "downgrade"])
        BY <1>9 DEF ApproveProbe
    <2>3. [key |-> observations', pre |-> world] \in BindingRec
        BY <1>2 DEF BindingRec, BindInv, BindingRecords
    <2> QED BY <1>3, <1>4, <1>6, <1>7, <2>1, <2>2, <2>3
<1>10. CASE ApproveAnswer(p)
    <2>1. CASE ~(NextStep(p, StepOf(commands[p])) /\ UNCHANGED consents)
        <3>1. Consented(p, commands[p].seen) /\ Continue(p, [commands[p] EXCEPT !.stage = "mint"])
            BY <1>10, <2>1 DEF ApproveAnswer
        <3>2. consents \subseteq consents' /\ Asked(commands[p].at, commands[p].seen) \in consents'
            BY <3>1 DEF Consented, Asked
        <3>3. Continue(p, [commands[p] EXCEPT !.stage = "mint", !.seen = commands[p].seen])
            BY <1>7, <3>1
        <3> QED BY <1>1, <1>2, <1>3, <3>2, <3>3, StageBinds DEF Asking
    <2> QED BY <1>4, <2>1
<1>11. CASE ApproveDowngrade(p)
    BY <1>4, <1>5, <1>11 DEF ApproveDowngrade
<1>12. CASE MintFails(p)
    <2>1. consents' = consents
        BY <1>12 DEF MintFails
    <2>2. NextStep(p, StepOf(commands[p])) \/ Continue(p, [commands[p] EXCEPT !.stage = "downgrade"])
        BY <1>12 DEF MintFails
    <2> QED BY <1>3, <1>4, <1>6, <1>7, <2>1, <2>2
<1> QED
    BY <1>8, <1>9, <1>10, <1>11, <1>12

LEMMA LockBinds ==
    ASSUME BindInv, NEW p \in Commands, MintLock(p) \/ PruneLock(p)
    PROVE  BindInv'
<1>0. PICK c : c = [commands[p] EXCEPT !.stage = "update", !.read = keystore]
    OBVIOUS
<1>1. /\ keyLock = "free" /\ keyLock' = p /\ Continue(p, c) /\ commands[p].stage = "mint"
      /\ UNCHANGED <<world, skillFile, keystore, observations, consents, unseen>>
      /\ commands[p].verb \in {"approve", "prune"}
    BY <1>0 DEF MintLock, PruneLock, TakeKeyLock, Doing
<1>2. keystore \subseteq Nat /\ Fits(commands[p]) /\ commands[p] \in ApproveRec \cup PruneRec
    BY <1>1 DEF BindInv, BindingRecords, CommandRecs, AtRest, HealRec
<1>3. /\ c \in ApproveRec \cup PruneRec /\ c.verb = commands[p].verb /\ c.stage = "update" /\ c.read = keystore
      /\ c.verb = "approve" => c.memory = commands[p].memory /\ c.at = commands[p].at /\ c.seen = commands[p].seen
    <2>1. CASE commands[p] \in ApproveRec
        BY <1>0, <1>2, <2>1 DEF ApproveRec, Asking
    <2>2. CASE commands[p] \in PruneRec
        BY <1>0, <1>2, <2>2 DEF PruneRec
    <2> QED BY <1>2, <2>1, <2>2
<1>4. Fits(c)'
    <2>1. Fits(c)
        BY <1>1, <1>2, <1>3 DEF Fits, Asking
    <2> QED BY <1>1, <2>1, FilesFit DEF Fits
<1>5. Agreed(skillFile)' /\ KeysKnown(skillFile)'
    BY <1>1 DEF BindInv, Agreed, KeysKnown
<1>6. \A q \in Commands : ~InUpdate(commands[q])
    BY <1>1, StateBindingAssumption DEF BindInv, Updating
<1> QED
    BY <1>1, <1>3, <1>4, <1>5, <1>6, CommandGoesOn DEF CommandRecs, BindInv, BindingRecords

LEMMA WriteBinds ==
    ASSUME BindInv, NEW p \in Commands, MintWrite(p)
    PROVE  BindInv'
<1> DEFINE seen == commands[p].seen
           step == [approve |-> ApprovalOf(seen), expect |-> seen]
<1>1. /\ commands[p].verb = "approve" /\ commands[p].stage = "update" /\ commands[p].stage \in Asking
      /\ keystore' = commands[p].read \cup {seen.key} /\ keyLock' = "free" /\ NextStep(p, step)
      /\ UNCHANGED <<world, skillFile, observations, consents, unseen>>
    BY DEF MintWrite, Doing, Asking
<1>2. keyLock = p /\ commands[p].read = keystore
    BY <1>1 DEF BindInv, Updating, InUpdate
<1>3. commands[p] \in ApproveRec /\ seen \in BindingRec /\ seen.key \in Nat /\ Asked(commands[p].at, seen) \in consents
    BY <1>1, StepStays DEF ApproveRec, BindingRec, Fits
<1>4. step \in StepRec /\ step.expect = seen
    BY <1>3, Approval
<1> HIDE DEF step, seen
<1>5. PICK c \in CommandRecs : Continue(p, c) /\ Fits(c)' /\ ~InUpdate(c)
    BY <1>1, <1>2, <1>3, <1>4, StepsOn
<1>6. Agreed(skillFile)' /\ KeysKnown(skillFile)' /\ keystore' \subseteq Nat
    BY <1>1, <1>2, <1>3 DEF BindInv, BindingRecords, Agreed, KeysKnown
<1>7. \A q \in Commands : q # p => ~InUpdate(commands[q])
    BY <1>2 DEF BindInv, Updating
<1> QED
    BY <1>1, <1>2, <1>5, <1>6, <1>7, CommandGoesOn DEF BindInv, BindingRecords

LEMMA PruneBinds ==
    ASSUME BindInv, NEW p \in Commands, Prune(p) \/ PruneWrite(p)
    PROVE  BindInv'
<1>1. commands[p].verb = "prune" /\ commands[p] \in PruneRec
    BY DEF Prune, PruneWrite, Doing, BindInv, BindingRecords, CommandRecs, AtRest, HealRec, ApproveRec
<1>2. AtRest \in CommandRecs /\ Fits(AtRest)' /\ ~InUpdate(AtRest)
    BY DEF AtRest, CommandRecs, Fits, InUpdate
<1>3. CASE Prune(p)
    <2>1. UNCHANGED <<world, skillFile, keystore, keyLock, observations, unseen, consents>>
        BY <1>3 DEF Prune, approveKeeps
    <2>2. observations' \in Nat
        BY <2>1 DEF BindInv, BindingRecords
    <2>3. CASE Continue(p, AtRest)
        BY <1>2, <2>1, <2>2, <2>3, CommandAsks
    <2>4. ASSUME NEW stage \in {"rescan", "mint"}, NEW orphans \in SUBSET commands[p].orphans,
                 Continue(p, [commands[p] EXCEPT !.orphans = orphans, !.stage = stage])
          PROVE  BindInv'
        <3>0. PICK c : c = [commands[p] EXCEPT !.orphans = orphans, !.stage = stage]
            OBVIOUS
        <3>1. c \in PruneRec /\ c.verb = "prune" /\ c.stage = stage
            BY <1>1, <3>0 DEF PruneRec
        <3>2. Fits(c)' /\ ~InUpdate(c)
            BY <3>1 DEF Fits, InUpdate
        <3>3. Continue(p, c) /\ c \in CommandRecs
            BY <2>4, <3>0, <3>1 DEF CommandRecs
        <3> QED BY <2>1, <2>2, <3>2, <3>3, CommandAsks
    <2> QED BY <1>3, <2>3, <2>4 DEF Prune
<1>4. CASE PruneWrite(p)
    <2> DEFINE removed == {k \in commands[p].orphans : k <= commands[p].since}
    <2>1. /\ keystore' = commands[p].read \ removed /\ unseen' = unseen \cup removed /\ keyLock' = "free"
          /\ Continue(p, AtRest) /\ UNCHANGED <<world, skillFile, observations, consents>>
          /\ commands[p].stage = "update"
        BY <1>4 DEF PruneWrite, Doing
    <2> HIDE DEF removed
    <2>2. keyLock = p /\ commands[p].read = keystore
        BY <1>1, <2>1 DEF BindInv, Updating, InUpdate
    <2>3. keystore \cup unseen \subseteq keystore' \cup unseen' /\ keystore' \subseteq Nat
        BY <2>1, <2>2 DEF BindInv, BindingRecords
    <2>4. Agreed(skillFile)' /\ KeysKnown(skillFile)'
        <3>1. Agreed(skillFile) /\ KeysKnown(skillFile) /\ skillFile' = skillFile
            BY <2>1 DEF BindInv
        <3> QED BY <2>1, <2>3, <3>1 DEF Agreed, KeysKnown
    <2>5. \A q \in Commands : q # p => ~InUpdate(commands[q])
        BY <2>2 DEF BindInv, Updating
    <2> QED BY <1>2, <2>1, <2>3, <2>4, <2>5, CommandGoesOn DEF BindInv, BindingRecords
<1> QED
    BY <1>3, <1>4

LEMMA EndBinds ==
    ASSUME BindInv, NEW p \in Commands, WriteSkill(p) \/ EndCommand(p)
    PROVE  BindInv'
<1>1. /\ Continue(p, AtRest) /\ UNCHANGED <<world, keystore, observations, unseen, consents>>
    BY DEF WriteSkill, EndCommand, approveKeeps
<1>2. AtRest \in CommandRecs /\ Fits(AtRest)' /\ ~InUpdate(AtRest)
    BY DEF AtRest, CommandRecs, Fits, InUpdate
<1>3. skillFile' \in SkillFiles /\ Agreed(skillFile)' /\ KeysKnown(skillFile)'
    <2>1. \/ skillFile' = skillFile
          \/ /\ commands[p].verb \in {"approve", "heal"} /\ skillFile' = commands[p].memory
        BY DEF WriteSkill, EndCommand, Doing
    <2>2. commands[p].verb \in {"approve", "heal"} =>
             commands[p].memory \in SkillFiles /\ Agreed(commands[p].memory) /\ KeysKnown(commands[p].memory)
        BY DEF BindInv, BindingRecords, CommandRecs, AtRest, HealRec, ApproveRec, PruneRec, Fits
    <2>3. skillFile' \in SkillFiles /\ \A f : f = skillFile' => Agreed(f) /\ KeysKnown(f)
        BY <2>1, <2>2 DEF BindInv, BindingRecords
    <2> QED BY <1>1, <2>3 DEF Agreed, KeysKnown
<1>4. \A q \in Commands : q # p /\ InUpdate(commands[q]) => keyLock' = q /\ commands[q].read = keystore'
    BY <1>1 DEF WriteSkill, EndCommand, approveKeeps, BindInv, Updating
<1> QED
    BY <1>1, <1>2, <1>3, <1>4, CommandGoesOn DEF BindInv, BindingRecords

LEMMA BindStep ==
    ASSUME BindInv, [BindingNext]_bindingVars
    PROVE  BindInv'
<1>1. ASSUME UNCHANGED <<skillFile, keystore, keyLock, commands, observations, consents, unseen>>, world' \in Nat
      PROVE  BindInv'
    <2>1. Agreed(skillFile)' /\ KeysKnown(skillFile)' /\ Updating' /\ BindingRecords'
        BY <1>1 DEF BindInv, BindingRecords, Agreed, KeysKnown, Updating, InUpdate
    <2>2. ASSUME NEW p \in Commands
          PROVE  Fits(commands[p])'
        BY <1>1 DEF BindInv, Fits, Agreed, KeysKnown
    <2> QED BY <2>1, <2>2 DEF BindInv
<1>2. CASE UNCHANGED bindingVars
    BY <1>1, <1>2 DEF bindingVars, BindInv, BindingRecords
<1>3. CASE MoveWorld
    BY <1>1, <1>3 DEF MoveWorld, BindInv, BindingRecords
<1>4. ASSUME NEW p \in Commands,
             \/ ApproveStart(p) \/ ApprovePlain(p) \/ ApproveProbe(p) \/ ApproveAnswer(p)
             \/ ApproveDowngrade(p) \/ MintLock(p) \/ MintFails(p) \/ MintWrite(p)
             \/ WriteSkill(p) \/ HealStart(p)
             \/ PruneStart(p) \/ Prune(p) \/ PruneLock(p) \/ PruneWrite(p)
             \/ EndCommand(p)
      PROVE  BindInv'
    BY <1>4, StartBinds, ApproveBinds, LockBinds, WriteBinds, PruneBinds, EndBinds
<1> QED
    BY <1>2, <1>3, <1>4 DEF BindingNext

(* Approvals in the skill file were given for the state they commit to, and no key the  *)
(* file names is lost but to a prune that found it unnamed (cmdApprove, cmdPruneKeys).   *)
THEOREM ApprovalsAreKept == BindingSpec => []ApprovalsHold
<1>1. BindInv => ApprovalsHold
    BY DEF BindInv, ApprovalsHold, ConsentedBinding, KeysOutlastUpdates, Named, Agreed, KeysKnown, Asked
<1> QED
    BY <1>1, BindStart, BindStep, PTL DEF BindingSpec

-----------------------------------------------------------------------------
(* The ledgers of runs, resolved and pushed. *)

LineRec    == [kind : Kinds, answers : SUBSET Nat, read : Nat]
ResolveRec == [verb : {"resolve"}, skill : SkillNames, read : Nat, todo : SUBSET Nat, answers : SUBSET Nat]
PushRec    == [verb : {"push"}, skill : SkillNames, state : [SkillNames -> Nat], next : Nat, last : Nat,
               ended : BOOLEAN]
LedgerRecords ==
    /\ lines \in [SkillNames -> Seq(LineRec)] /\ cursors \in [SkillNames -> Nat]
    /\ judged \in [SkillNames -> SUBSET Nat]
    /\ command \in [Procs -> {Idle} \cup ResolveRec \cup PushRec]

(* A resolution in progress answers nothing that the lines it read answer; a push in  *)
(* progress read cursors and passed records that the cloud has pronounced on.          *)
Unanswered(c) ==
    /\ c.read <= Len(lines[c.skill])
    /\ \A j \in 1..c.read : (c.todo \cup c.answers) \cap lines[c.skill][j].answers = {}
Passed(c) ==
    /\ \A s \in SkillNames : \A i \in 1..c.state[s] : i \in judged[s]
    /\ \A i \in 1..c.next - 1 : i \in judged[c.skill]
Stands(c) == /\ c \in ResolveRec => Unanswered(c)
             /\ c \in PushRec => Passed(c) /\ c.next # 0

LedgerInv ==
    /\ LedgerRecords /\ NoRecordSkipped /\ AnsweredTwiceOnlyTogether
    /\ \A p \in Procs : Stands(command[p])

LEMMA LedgerStart == RunLedgerInit => LedgerInv
<1> SUFFICES ASSUME RunLedgerInit
             PROVE  LedgerInv
    OBVIOUS
<1>1. LedgerRecords
    BY DEF RunLedgerInit, LedgerRecords
<1>2. \A p \in Procs : command[p].verb = "none"
    BY DEF RunLedgerInit, Idle
<1>3. \A p \in Procs : command[p] \notin ResolveRec /\ command[p] \notin PushRec
    BY <1>2 DEF ResolveRec, PushRec
<1> QED
    BY <1>1, <1>3 DEF RunLedgerInit, LedgerInv, NoRecordSkipped, AnsweredTwiceOnlyTogether, Stands

(* The least of some numbers is one of them. *)
LEMMA LeastIsOne ==
    ASSUME NEW S \in SUBSET Nat, S # {}
    PROVE  Min(S) \in S
<1>1. IsWellFoundedOn(OpToRel(<, Nat), Nat)
    BY NatLessThanWellFounded
<1>2. PICK k \in S : \A m \in S : ~(<<m, k>> \in OpToRel(<, Nat))
    BY <1>1, WFMin, ZenonT(60)
<1>3. ASSUME NEW m \in S
      PROVE  k <= m
    <2>1. m \in Nat /\ k \in Nat
        OBVIOUS
    <2>2. ~(m < k)
        BY <1>2, <2>1 DEF OpToRel
    <2> QED BY <2>1, <2>2
<1> QED
    BY <1>3 DEF Min

(* What appending a line does to a ledger. *)
LEMMA LinesGrow ==
    ASSUME NEW ledger \in Seq(LineRec), NEW line \in LineRec
    PROVE  /\ appendFile(ledger, line) \in Seq(LineRec)
           /\ Len(appendFile(ledger, line)) \in {Len(ledger), Len(ledger) + 1}
           /\ \A i \in 1..Len(ledger) : appendFile(ledger, line)[i] = ledger[i]
           /\ Len(appendFile(ledger, line)) # Len(ledger) =>
                 appendFile(ledger, line)[Len(ledger) + 1] = line
<1>1. Len(ledger) \in Nat
    OBVIOUS
<1>2. CASE appendFile(ledger, line) = ledger
    BY <1>1, <1>2
<1>3. CASE appendFile(ledger, line) = Append(ledger, line)
    BY <1>1, <1>3
<1> QED
    BY <1>2, <1>3 DEF appendFile

(* A line appended to one ledger answers nothing that the lines it is read after answer. *)
LEMMA LineStands ==
    ASSUME LedgerInv, NEW s \in SkillNames, NEW line \in LineRec,
           line.read <= Len(lines[s]), \A j \in 1..line.read : line.answers \cap lines[s][j].answers = {},
           lines' = [lines EXCEPT ![s] = appendFile(@, line)]
    PROVE  /\ lines' \in [SkillNames -> Seq(LineRec)] /\ AnsweredTwiceOnlyTogether'
           /\ \A t \in SkillNames : Len(lines[t]) <= Len(lines'[t])
                                    /\ \A j \in 1..Len(lines[t]) : lines'[t][j] = lines[t][j]
<1>1. lines \in [SkillNames -> Seq(LineRec)] /\ AnsweredTwiceOnlyTogether /\ line.read \in Nat
    BY DEF LedgerInv, LedgerRecords, LineRec
<1>2. lines'[s] = appendFile(lines[s], line) /\ \A t \in SkillNames : t # s => lines'[t] = lines[t]
    BY <1>1
<1>3. /\ lines'[s] \in Seq(LineRec) /\ Len(lines'[s]) \in {Len(lines[s]), Len(lines[s]) + 1} /\ Len(lines[s]) \in Nat
      /\ \A i \in 1..Len(lines[s]) : lines'[s][i] = lines[s][i]
      /\ Len(lines'[s]) # Len(lines[s]) => lines'[s][Len(lines[s]) + 1] = line
    <2>1. lines[s] \in Seq(LineRec) /\ Len(lines[s]) \in Nat
        BY <1>1
    <2>2. PICK ledger, grown : ledger = lines[s] /\ grown = appendFile(ledger, line)
        OBVIOUS
    <2>3. /\ grown \in Seq(LineRec) /\ Len(grown) \in {Len(ledger), Len(ledger) + 1}
          /\ \A i \in 1..Len(ledger) : grown[i] = ledger[i]
          /\ Len(grown) # Len(ledger) => grown[Len(ledger) + 1] = line
        BY <2>1, <2>2, LinesGrow
    <2>4. grown = lines'[s]
        BY <1>2, <2>2
    <2> QED BY <2>1, <2>2, <2>3, <2>4
<1>4. lines' \in [SkillNames -> Seq(LineRec)]
    BY <1>1, <1>3
<1>5. ASSUME NEW t \in SkillNames
      PROVE  Len(lines[t]) <= Len(lines'[t]) /\ \A j \in 1..Len(lines[t]) : lines'[t][j] = lines[t][j]
    <2>1. Len(lines[t]) \in Nat
        BY <1>1
    <2> QED BY <1>2, <1>3, <2>1
<1>6. ASSUME NEW t \in SkillNames, NEW i \in DOMAIN lines'[t], NEW j \in DOMAIN lines'[t], i < j,
             lines'[t][i].answers \cap lines'[t][j].answers # {}
      PROVE  lines'[t][j].read < i
    <2>1. CASE t # s
        BY <1>1, <1>2, <1>6, <2>1 DEF AnsweredTwiceOnlyTogether
    <2>2. CASE t = s /\ j \in 1..Len(lines[s])
        <3>1. i \in 1..Len(lines[s]) /\ i \in Nat /\ j \in Nat
            BY <1>3, <1>6, <2>2
        <3>2. lines'[s][i] = lines[s][i] /\ lines'[s][j] = lines[s][j] /\ DOMAIN lines[s] = 1..Len(lines[s])
            BY <1>1, <1>3, <2>2, <3>1
        <3> QED BY <1>1, <1>6, <2>2, <3>1, <3>2 DEF AnsweredTwiceOnlyTogether
    <2>3. CASE t = s /\ j \notin 1..Len(lines[s])
        <3>1. j = Len(lines[s]) + 1 /\ Len(lines'[s]) # Len(lines[s]) /\ i \in 1..Len(lines[s])
            BY <1>3, <1>6, <2>3
        <3>2. lines'[s][j] = line /\ lines'[s][i] = lines[s][i]
            BY <1>3, <3>1
        <3> QED BY <1>1, <1>6, <2>3, <3>1, <3>2
    <2> QED BY <2>1, <2>2, <2>3
<1> QED
    BY <1>4, <1>5, <1>6 DEF AnsweredTwiceOnlyTogether

(* What stands goes on to stand when the ledgers grow and verdicts are added. *)
LEMMA StandsOn ==
    ASSUME LedgerInv, NEW c \in {Idle} \cup ResolveRec \cup PushRec, Stands(c),
           \A t \in SkillNames : Len(lines[t]) <= Len(lines'[t])
                                 /\ \A j \in 1..Len(lines[t]) : lines'[t][j] = lines[t][j],
           \A t \in SkillNames : judged[t] \subseteq judged'[t], lines' \in [SkillNames -> Seq(LineRec)]
    PROVE  Stands(c)'
<1>1. ASSUME c \in ResolveRec
      PROVE  Unanswered(c)'
    <2>1. Unanswered(c) /\ c.skill \in SkillNames /\ c.read \in Nat
        BY <1>1 DEF Stands, ResolveRec
    <2>2. Len(lines[c.skill]) \in Nat /\ Len(lines'[c.skill]) \in Nat
        BY <2>1 DEF LedgerInv, LedgerRecords
    <2>3. \A j \in 1..c.read : lines'[c.skill][j] = lines[c.skill][j]
        BY <2>1, <2>2 DEF Unanswered
    <2> QED BY <2>1, <2>2, <2>3 DEF Unanswered
<1>2. ASSUME c \in PushRec
      PROVE  Passed(c)' /\ c.next # 0
    <2>1. Passed(c) /\ c.skill \in SkillNames /\ c.next # 0
        BY <1>2 DEF Stands, PushRec
    <2> QED BY <2>1 DEF Passed
<1> QED
    BY <1>1, <1>2 DEF Stands

(* One process goes on to a command that stands. *)
LEMMA CommandStands ==
    ASSUME LedgerInv, NEW p \in Procs, NEW c \in {Idle} \cup ResolveRec \cup PushRec,
           command' = [command EXCEPT ![p] = c], Stands(c)',
           lines' \in [SkillNames -> Seq(LineRec)], AnsweredTwiceOnlyTogether',
           \A t \in SkillNames : Len(lines[t]) <= Len(lines'[t])
                                 /\ \A j \in 1..Len(lines[t]) : lines'[t][j] = lines[t][j],
           judged' \in [SkillNames -> SUBSET Nat], \A t \in SkillNames : judged[t] \subseteq judged'[t],
           cursors' \in [SkillNames -> Nat], NoRecordSkipped'
    PROVE  LedgerInv'
<1>1. /\ command' \in [Procs -> {Idle} \cup ResolveRec \cup PushRec] /\ command'[p] = c
      /\ \A q \in Procs : q # p => command'[q] = command[q]
    BY DEF LedgerInv, LedgerRecords
<1>2. ASSUME NEW q \in Procs
      PROVE  Stands(command[q])'
    <2>1. CASE q = p
        BY <1>1, <2>1 DEF Stands, Unanswered, Passed
    <2>2. CASE q # p
        <3>1. PICK d : d = command[q]
            OBVIOUS
        <3>2. d \in {Idle} \cup ResolveRec \cup PushRec /\ Stands(d)
            BY <3>1 DEF LedgerInv, LedgerRecords
        <3>3. Stands(d)' /\ command'[q] = d
            BY <1>1, <2>2, <3>1, <3>2, StandsOn
        <3> QED BY <3>3 DEF Stands, Unanswered, Passed
    <2> QED BY <2>1, <2>2
<1> QED
    BY <1>1, <1>2 DEF LedgerInv, LedgerRecords

(* The same when the ledgers stay. *)
LEMMA LinesStay ==
    ASSUME LedgerInv, UNCHANGED lines
    PROVE  /\ lines' \in [SkillNames -> Seq(LineRec)] /\ AnsweredTwiceOnlyTogether'
           /\ \A t \in SkillNames : Len(lines[t]) <= Len(lines'[t])
                                    /\ \A j \in 1..Len(lines[t]) : lines'[t][j] = lines[t][j]
<1>1. \A t \in SkillNames : Len(lines[t]) \in Nat
    BY DEF LedgerInv, LedgerRecords
<1> QED
    BY <1>1 DEF LedgerInv, LedgerRecords, AnsweredTwiceOnlyTogether

LEMMA RunAppends ==
    ASSUME LedgerInv, NEW s \in SkillNames, AppendRun(s)
    PROVE  LedgerInv'
<1>1. PICK kind \in Kinds : lines' = [lines EXCEPT ![s] = appendFile(@, Line(kind))]
    BY DEF AppendRun, Kinds
<1>2. PICK line : line = Line(kind)
    OBVIOUS
<1>3. line \in LineRec /\ line.read = 0 /\ line.answers = {} /\ lines[s] \in Seq(LineRec)
    BY <1>2 DEF Line, LineRec, LedgerInv, LedgerRecords
<1>4. line.read <= Len(lines[s]) /\ \A j \in 1..line.read : line.answers \cap lines[s][j].answers = {}
    BY <1>3
<1>5. lines' = [lines EXCEPT ![s] = appendFile(@, line)]
    BY <1>1, <1>2
<1>6. /\ lines' \in [SkillNames -> Seq(LineRec)] /\ AnsweredTwiceOnlyTogether'
      /\ \A t \in SkillNames : Len(lines[t]) <= Len(lines'[t])
                               /\ \A j \in 1..Len(lines[t]) : lines'[t][j] = lines[t][j]
    BY <1>3, <1>4, <1>5, LineStands
<1>7. UNCHANGED <<cursors, judged, command>>
    BY DEF AppendRun
<1>8. ASSUME NEW q \in Procs
      PROVE  Stands(command[q])'
    <2>1. PICK d : d = command[q]
        OBVIOUS
    <2>2. d \in {Idle} \cup ResolveRec \cup PushRec /\ Stands(d)
        BY <2>1 DEF LedgerInv, LedgerRecords
    <2>3. Stands(d)' /\ command'[q] = d
        BY <1>6, <1>7, <2>1, <2>2, StandsOn
    <2> QED BY <2>3 DEF Stands, Unanswered, Passed
<1> QED
    BY <1>6, <1>7, <1>8 DEF LedgerInv, LedgerRecords, NoRecordSkipped

(* What a command is by its verb. *)
LEMMA ByVerb ==
    ASSUME LedgerInv, NEW p \in Procs
    PROVE  /\ command[p].verb = "resolve" => command[p] \in ResolveRec /\ Unanswered(command[p])
           /\ command[p].verb = "push" => command[p] \in PushRec /\ Passed(command[p]) /\ command[p].next # 0
           /\ Idle \notin ResolveRec /\ Idle \notin PushRec
           /\ \A c \in ResolveRec : c \notin PushRec
<1>1. command[p] \in {Idle} \cup ResolveRec \cup PushRec /\ Stands(command[p])
    BY DEF LedgerInv, LedgerRecords
<1>2. /\ Idle.verb = "none" /\ \A c \in ResolveRec : c.verb = "resolve"
      /\ \A c \in PushRec : c.verb = "push"
    BY DEF Idle, ResolveRec, PushRec
<1> QED
    BY <1>1, <1>2 DEF Stands

LEMMA CommandEnds ==
    ASSUME LedgerInv, NEW p \in Procs, command' = [command EXCEPT ![p] = Idle],
           UNCHANGED <<lines, cursors, judged>>
    PROVE  LedgerInv'
<1>1. Stands(Idle)'
    BY ByVerb DEF Stands
<1>2. cursors' \in [SkillNames -> Nat] /\ judged' \in [SkillNames -> SUBSET Nat] /\ NoRecordSkipped'
    BY DEF LedgerInv, LedgerRecords, NoRecordSkipped
<1> QED
    BY <1>1, <1>2, LinesStay, CommandStands

LEMMA Resolves ==
    ASSUME LedgerInv, NEW p \in Procs,
           (\E s \in SkillNames : ResolveRead(p, s)) \/ ResolveProbe(p) \/ ResolveAppend(p)
    PROVE  LedgerInv'
<1>1. cursors' = cursors /\ judged' = judged
    BY DEF ResolveRead, ResolveProbe, ResolveAppend
<1>2. cursors' \in [SkillNames -> Nat] /\ judged' \in [SkillNames -> SUBSET Nat] /\ NoRecordSkipped'
      /\ \A t \in SkillNames : judged[t] \subseteq judged'[t]
    BY <1>1 DEF LedgerInv, LedgerRecords, NoRecordSkipped
<1>3. ASSUME NEW s \in SkillNames, ResolveRead(p, s)
      PROVE  LedgerInv'
    <2>1. PICK c : c = [verb |-> "resolve", skill |-> s, read |-> Len(lines[s]),
                        todo |-> selectUnresolved(lines[s]), answers |-> {}]
        OBVIOUS
    <2>2. command' = [command EXCEPT ![p] = c] /\ lines' = lines
        BY <1>3, <2>1 DEF ResolveRead
    <2>3. lines[s] \in Seq(LineRec) /\ Len(lines[s]) \in Nat /\ DOMAIN lines[s] = 1..Len(lines[s])
        BY DEF LedgerInv, LedgerRecords
    <2>4. c \in ResolveRec
        BY <2>1, <2>3 DEF ResolveRec, selectUnresolved
    <2>5. Unanswered(c)
        BY <2>1, <2>3 DEF Unanswered, selectUnresolved
    <2>6. Stands(c)'
        BY <2>2, <2>4, <2>5, ByVerb DEF Stands, Unanswered
    <2> QED BY <1>2, <2>2, <2>4, <2>6, LinesStay, CommandStands
<1>4. CASE ResolveProbe(p)
    <2>1. command[p] \in ResolveRec /\ Unanswered(command[p]) /\ command[p].todo # {}
        BY <1>4, ByVerb DEF ResolveProbe
    <2>2. Min(command[p].todo) \in command[p].todo
        BY <2>1, LeastIsOne DEF ResolveRec
    <2>3. PICK i \in command[p].todo, answered \in BOOLEAN :
             command' = [command EXCEPT ![p].todo = @ \ {i}, ![p].answers = IF answered THEN @ \cup {i} ELSE @]
        BY <1>4, <2>2 DEF ResolveProbe
    <2>4. PICK c : c = [command[p] EXCEPT !.todo = @ \ {i}, !.answers = IF answered THEN @ \cup {i} ELSE @]
        OBVIOUS
    <2>5. command' = [command EXCEPT ![p] = c] /\ lines' = lines
        BY <1>4, <2>3, <2>4 DEF ResolveProbe, LedgerInv, LedgerRecords
    <2>6. c \in ResolveRec /\ c.skill = command[p].skill /\ c.read = command[p].read
          /\ c.todo \cup c.answers \subseteq command[p].todo \cup command[p].answers
        BY <2>1, <2>4 DEF ResolveRec
    <2>7. Stands(c)'
        <3>1. Unanswered(c)
            BY <2>1, <2>6 DEF Unanswered
        <3> QED BY <2>5, <2>6, <3>1, ByVerb DEF Stands, Unanswered
    <2> QED BY <1>2, <2>5, <2>6, <2>7, LinesStay, CommandStands
<1>5. CASE ResolveAppend(p)
    <2>1. command[p] \in ResolveRec /\ Unanswered(command[p])
        BY <1>5, ByVerb DEF ResolveAppend
    <2>2. command' = [command EXCEPT ![p] = Idle]
        BY <1>5 DEF ResolveAppend
    <2>3. CASE lines' = lines
        BY <1>1, <2>2, <2>3, CommandEnds
    <2>4. CASE lines' # lines
        <3>1. PICK line : line = [kind |-> "resolution", answers |-> command[p].answers, read |-> command[p].read]
            OBVIOUS
        <3>2. PICK s : s = command[p].skill
            OBVIOUS
        <3>3. s \in SkillNames /\ lines' = [lines EXCEPT ![s] = appendFile(@, line)]
            BY <1>5, <2>1, <2>4, <3>1, <3>2 DEF ResolveAppend, ResolveRec
        <3>4. line \in LineRec /\ line.read = command[p].read /\ line.answers = command[p].answers
            BY <2>1, <3>1 DEF LineRec, ResolveRec, Kinds
        <3>5. line.read <= Len(lines[s]) /\ \A j \in 1..line.read : line.answers \cap lines[s][j].answers = {}
            BY <2>1, <3>2, <3>4 DEF Unanswered
        <3>6. Stands(Idle)'
            BY ByVerb DEF Stands
        <3> QED BY <1>2, <2>2, <3>3, <3>4, <3>5, <3>6, LineStands, CommandStands
    <2> QED BY <2>3, <2>4
<1> QED
    BY <1>3, <1>4, <1>5

LEMMA Pushes ==
    ASSUME LedgerInv, NEW p \in Procs,
           (\E s \in SkillNames : PushRead(p, s)) \/ PushJudged(p) \/ PushStops(p) \/ PushWrite(p)
    PROVE  LedgerInv'
<1>1. lines' = lines /\ cursors \in [SkillNames -> Nat] /\ judged \in [SkillNames -> SUBSET Nat] /\ NoRecordSkipped
    BY DEF PushRead, PushJudged, PushStops, PushWrite, LedgerInv, LedgerRecords
<1>2. ASSUME NEW s \in SkillNames, PushRead(p, s)
      PROVE  LedgerInv'
    <2>1. PICK before \in {0, cursors[s]} :
             command' = [command EXCEPT ![p] = [verb |-> "push", skill |-> s, state |-> cursors,
                            next |-> before + 1, last |-> Len(lines[s]), ended |-> FALSE]]
        BY <1>2 DEF PushRead
    <2>2. PICK c : c = [verb |-> "push", skill |-> s, state |-> cursors,
                        next |-> before + 1, last |-> Len(lines[s]), ended |-> FALSE]
        OBVIOUS
    <2>3. before \in Nat /\ Len(lines[s]) \in Nat /\ \A i \in 1..before : i \in judged[s]
        BY <1>1 DEF LedgerInv, LedgerRecords, NoRecordSkipped
    <2>4. c \in PushRec /\ c.next = before + 1 /\ c.skill = s /\ c.state = cursors /\ c.next # 0
        BY <1>1, <2>2, <2>3 DEF PushRec
    <2>5. c.next - 1 = before
        BY <2>3, <2>4
    <2>6. UNCHANGED <<cursors, judged>> /\ command' = [command EXCEPT ![p] = c]
        BY <1>2, <2>1, <2>2 DEF PushRead
    <2>7. Stands(c)'
        BY <1>1, <2>3, <2>4, <2>5, <2>6, ByVerb DEF Stands, Passed, NoRecordSkipped
    <2>8. NoRecordSkipped'
        BY <1>1, <2>6 DEF NoRecordSkipped
    <2> QED BY <1>1, <2>4, <2>6, <2>7, <2>8, LinesStay, CommandStands
<1>3. CASE PushJudged(p)
    <2>1. command[p] \in PushRec /\ Passed(command[p]) /\ command[p].next # 0
        BY <1>3, ByVerb DEF PushJudged, Candidate
    <2>2. PICK c, s, k : c = [command[p] EXCEPT !.next = @ + 1] /\ s = command[p].skill /\ k = command[p].next
        OBVIOUS
    <2>3. /\ judged' = [judged EXCEPT ![s] = @ \cup {k}] /\ cursors' = cursors
          /\ command' = [command EXCEPT ![p] = c]
        BY <1>3, <2>2 DEF PushJudged, LedgerInv, LedgerRecords
    <2>4. s \in SkillNames /\ k \in Nat /\ k # 0 /\ c \in PushRec /\ c.next = k + 1 /\ c.skill = s
          /\ c.state = command[p].state
        BY <2>1, <2>2 DEF PushRec
    <2>5. judged' \in [SkillNames -> SUBSET Nat] /\ k \in judged'[s] /\ \A t \in SkillNames : judged[t] \subseteq judged'[t]
        BY <1>1, <2>3, <2>4
    <2>6. \A i \in 1..c.next - 1 : i \in 1..k - 1 \/ i = k
        BY <2>4
    <2>7. Stands(c)'
        BY <2>1, <2>2, <2>4, <2>5, <2>6, ByVerb DEF Stands, Passed
    <2>8. NoRecordSkipped'
        BY <1>1, <2>3, <2>5 DEF NoRecordSkipped
    <2> QED BY <1>1, <2>3, <2>4, <2>5, <2>7, <2>8, LinesStay, CommandStands
<1>4. CASE PushStops(p)
    <2>1. command[p] \in PushRec /\ Passed(command[p]) /\ command[p].next # 0
        BY <1>4, ByVerb DEF PushStops, Candidate
    <2>2. PICK c : c = [command[p] EXCEPT !.ended = TRUE]
        OBVIOUS
    <2>3. UNCHANGED <<judged, cursors>> /\ command' = [command EXCEPT ![p] = c]
        BY <1>4, <2>2 DEF PushStops, LedgerInv, LedgerRecords
    <2>4. c \in PushRec /\ c.next = command[p].next /\ c.skill = command[p].skill /\ c.state = command[p].state
        BY <2>1, <2>2 DEF PushRec
    <2>5. Passed(c)
        BY <2>1, <2>4 DEF Passed
    <2>6. Stands(c)'
        BY <2>1, <2>3, <2>4, <2>5, ByVerb DEF Stands, Passed
    <2>7. NoRecordSkipped'
        BY <1>1, <2>3 DEF NoRecordSkipped
    <2> QED BY <1>1, <2>3, <2>4, <2>6, <2>7, LinesStay, CommandStands
<1>5. CASE PushWrite(p)
    <2>1. command[p] \in PushRec /\ Passed(command[p]) /\ command[p].next # 0
        BY <1>5, ByVerb DEF PushWrite
    <2>2. PICK c : c = command[p]
        OBVIOUS
    <2>3. c.skill \in SkillNames /\ c.state \in [SkillNames -> Nat] /\ c.next \in Nat /\ c.next - 1 \in Nat
        BY <2>1, <2>2 DEF PushRec
    <2>4. cursors' = [c.state EXCEPT ![c.skill] = c.next - 1] /\ judged' = judged
          /\ command' = [command EXCEPT ![p] = Idle]
        BY <1>5, <2>2 DEF PushWrite
    <2>5. cursors' \in [SkillNames -> Nat] /\ judged' \in [SkillNames -> SUBSET Nat]
          /\ \A t \in SkillNames : judged[t] \subseteq judged'[t]
        BY <1>1, <2>3, <2>4
    <2>6. NoRecordSkipped'
        BY <2>1, <2>2, <2>3, <2>4 DEF NoRecordSkipped, Passed
    <2>7. Stands(Idle)'
        BY ByVerb DEF Stands
    <2> QED BY <1>1, <2>4, <2>5, <2>6, <2>7, LinesStay, CommandStands
<1> QED
    BY <1>2, <1>3, <1>4, <1>5

LEMMA LedgerStep ==
    ASSUME LedgerInv, [RunLedgerNext]_ledgerVars
    PROVE  LedgerInv'
<1>1. CASE UNCHANGED ledgerVars
    BY <1>1 DEF ledgerVars, LedgerInv, LedgerRecords, NoRecordSkipped, AnsweredTwiceOnlyTogether, Stands,
                Unanswered, Passed
<1>2. ASSUME NEW p \in Procs, Kill(p)
      PROVE  LedgerInv'
    BY <1>2, CommandEnds DEF Kill
<1> QED
    BY <1>1, <1>2, RunAppends, Resolves, Pushes DEF RunLedgerNext

(* No push leaves behind the cursor a record the cloud has not pronounced on, and only    *)
(* resolutions that overlapped answer a dispatch twice (src/push.ts, cmdResolve).          *)
THEOREM RecordsStayAnswered == RunLedgerSpec => []RecordsAreAnswered
<1>1. LedgerInv => RecordsAreAnswered
    BY DEF LedgerInv, RecordsAreAnswered
<1> QED
    BY <1>1, LedgerStart, LedgerStep, PTL DEF RunLedgerSpec

-----------------------------------------------------------------------------
(* The inspection, as long as the lease of a live run was not removed. *)

Saving   == {"write", "rename", "write state", "rename state"}
Holders  == {"sign", "list again", "read again", "release"} \cup Saving
Sweeping == {"sweep", "unlock"}
Leasing  == {"name", "recheck", "drop"} \cup Sweeping
Stages   == {"idle", "look", "clear", "lock", "lease", "list", "read", "acquire"} \cup Holders \cup Leasing

InitRun(loads) == [at : Stages, pid : Nat, recovered : BOOLEAN, listed : BOOLEAN, loaded : {<<>>, loads}]
InitFile(held) == held \in [pid : 0..inits, named : BOOLEAN] /\ (held.pid = 0 => held = NoInitFile)

InspectionRecords ==
    /\ initializer \in [Initializers -> InitRun(completed)]
    /\ InitFile(initLock) /\ InitFile(recoveryLease) /\ inits \in Nat
Numbered ==
    /\ \A p \in Initializers : Pid(p) <= inits /\ (Stage(p) = "idle" <=> Pid(p) = 0)
    /\ \A p, q \in Initializers : Pid(p) # 0 /\ Pid(p) = Pid(q) => p = q

(* Who has the lock and the lease, what is swept by then, and what a holder is about to  *)
(* write.                                                                              *)
Owns(p) ==
    /\ Stage(p) \in Holders => initLock.pid = Pid(p)
    /\ Stage(p) \in Leasing => recoveryLease.pid = Pid(p)
    /\ Stage(p) \in Sweeping => initLock # NoInitFile /\ \A q \in Initializers : Pid(q) # initLock.pid
Sweeps(p) ==
    /\ Stage(p) = "unlock" => residue = {}
    /\ Stage(p) \in Holders => residue = IF Stage(p) \in {"rename", "rename state"} THEN {Pid(p)} ELSE {}
Loads(p) ==
    /\ Stage(p) \in Saving => initializer[p].loaded = completed /\ Len(completed) < Checkpoints
    /\ initializer[p].loaded = <<>> \/ Stage(p) \in Holders
    /\ Stage(p) \in {"write state", "rename state"} => artifact[Checkpoint(p)] = Content(p)
Reported ==
    /\ artifact = [i \in 1..Checkpoints |-> artifact[i]] /\ \E S : completed \in Seq(S)
    /\ Len(completed) <= Checkpoints /\ Backed
    /\ Len(completed) = Checkpoints =>
          completed[Checkpoints] = FlattenSeq(SubSeq(completed, 1, Checkpoints - 1))

InspectionKept ==
    /\ InspectionRecords /\ Numbered /\ Reported /\ (initLock = NoInitFile => residue = {})
    /\ \A p \in Initializers : Owns(p) /\ Sweeps(p) /\ Loads(p)
InspectionInv == ousted \in BOOLEAN /\ (ousted \/ InspectionKept)

LEMMA InspectionStarts == InspectionStart => InspectionInv
<1> SUFFICES ASSUME InspectionStart
             PROVE  InspectionInv
    OBVIOUS
<1>1. NoInit \in InitRun(<<>>) /\ NoInit.at = "idle" /\ NoInit.pid = 0 /\ NoInit.loaded = <<>>
    BY DEF NoInit, InitRun, Stages
<1>2. InspectionRecords
    BY <1>1 DEF InspectionStart, InspectionRecords, InitFile, NoInitFile
<1>3. \A p \in Initializers : Stage(p) = "idle" /\ Pid(p) = 0 /\ initializer[p].loaded = <<>>
    BY <1>1 DEF InspectionStart, Stage, Pid
<1>4. Numbered
    BY <1>2, <1>3 DEF Numbered, InspectionRecords
<1>5. Checkpoints \in Nat /\ Checkpoints # 0 /\ completed = <<>> /\ <<>> \in Seq({}) /\ Len(<<>>) = 0 /\ DOMAIN <<>> = {}
    BY InspectionAssumption DEF InspectionStart
<1>6. Reported
    BY <1>5 DEF Reported, InspectionStart, Backed
<1>7. \A p \in Initializers : Owns(p) /\ Sweeps(p) /\ Loads(p)
    BY <1>3 DEF Owns, Sweeps, Loads, Holders, Leasing, Sweeping, Saving
<1> QED
    BY <1>2, <1>4, <1>6, <1>7 DEF InspectionInv, InspectionKept, InspectionStart

(* One process moves. *)
LEMMA Moved ==
    ASSUME InspectionRecords, NEW p \in Initializers, NEW r \in InitRun(completed'),
           initializer' = [initializer EXCEPT ![p] = r]
    PROVE  /\ initializer'[p] = r /\ Stage(p)' = r.at /\ Pid(p)' = r.pid
           /\ \A q \in Initializers : q # p => /\ initializer'[q] = initializer[q]
                                               /\ Stage(q)' = Stage(q) /\ Pid(q)' = Pid(q)
           /\ DOMAIN initializer' = Initializers /\ initializer' = [q \in Initializers |-> initializer'[q]]
BY DEF InspectionRecords, Stage, Pid

(* What a process is known to be. *)
LEMMA RunFields ==
    ASSUME InspectionRecords, NEW p \in Initializers
    PROVE  /\ initializer[p] \in InitRun(completed)
           /\ Stage(p) \in Stages /\ Pid(p) \in Nat /\ initializer[p].at = Stage(p) /\ initializer[p].pid = Pid(p)
BY DEF InspectionRecords, InitRun, Stage, Pid

(* The lock is its holder's alone, and under a sweep nobody's. *)
LEMMA OneHolder ==
    ASSUME InspectionKept, NEW p \in Initializers, NEW q \in Initializers, p # q, Stage(p) \in Holders
    PROVE  Stage(q) \notin Holders /\ Stage(q) \notin Sweeping
<1>1. Stage(p) # "idle" /\ (Stage(q) \in Holders \cup Sweeping => Stage(q) # "idle")
    BY DEF Holders, Saving, Sweeping
<1>2. Pid(p) # 0 /\ initLock.pid = Pid(p)
    BY <1>1 DEF InspectionKept, Numbered, Owns
<1> QED
    BY <1>1, <1>2 DEF InspectionKept, Numbered, Owns

LEMMA NoHolder ==
    ASSUME InspectionKept, NEW q \in Initializers,
           initLock = NoInitFile \/ \E p \in Initializers : Stage(p) \in Sweeping
    PROVE  Stage(q) \notin Holders /\ (initLock = NoInitFile => Stage(q) \notin Sweeping)
<1>1. Stage(q) \in Holders => Pid(q) # 0
    BY DEF InspectionKept, Numbered, Holders, Saving
<1> QED
    BY <1>1 DEF InspectionKept, Owns, NoInitFile

LEMMA OneLease ==
    ASSUME InspectionKept, NEW p \in Initializers, NEW q \in Initializers, p # q, Stage(q) \in Leasing
    PROVE  recoveryLease # NoInitFile /\ Stage(p) \notin Leasing
<1>1. Pid(q) # 0 /\ recoveryLease.pid = Pid(q)
    BY DEF InspectionKept, Numbered, Leasing, Sweeping, Owns
<1> QED
    BY <1>1 DEF InspectionKept, Numbered, Owns, NoInitFile

(* The processes that do not move stand, if what theirs is stays. *)
LEMMA OthersStand ==
    ASSUME InspectionKept, NEW p \in Initializers, NEW r \in InitRun(completed'),
           initializer' = [initializer EXCEPT ![p] = r],
           r.pid \in {0, Pid(p)} \/ r.pid > inits,
           NEW q \in Initializers, q # p,
           Stage(q) \in Holders \cup Sweeping => initLock'.pid = initLock.pid /\ initLock' # NoInitFile
                                                 /\ files' = files,
           Stage(q) \in Leasing => recoveryLease'.pid = recoveryLease.pid
    PROVE  Owns(q)' /\ Sweeps(q)' /\ Loads(q)' /\ initializer'[q] \in InitRun(completed')
<1>1. /\ initializer'[p] = r /\ Stage(p)' = r.at /\ Pid(p)' = r.pid
      /\ \A s \in Initializers : s # p => initializer'[s] = initializer[s] /\ Stage(s)' = Stage(s) /\ Pid(s)' = Pid(s)
    BY Moved DEF InspectionKept
<1>2. Owns(q) /\ Sweeps(q) /\ Loads(q) /\ initLock.pid \in 0..inits /\ inits \in Nat
      /\ (initLock.pid = 0 => initLock = NoInitFile) /\ initializer[q] \in InitRun(completed)
    BY RunFields DEF InspectionKept, InspectionRecords, InitFile
<1>3. Owns(q)'
    <2>1. ASSUME Stage(q) \in Sweeping
          PROVE  \A s \in Initializers : Pid(s)' # initLock'.pid
        <3>1. initLock.pid # 0 /\ initLock'.pid = initLock.pid /\ \A s \in Initializers : Pid(s) # initLock.pid
            BY <1>2, <2>1 DEF Owns
        <3>2. r.pid # initLock.pid
            BY <1>2, <3>1
        <3> QED BY <1>1, <3>1, <3>2
    <2> QED BY <1>1, <1>2, <2>1 DEF Owns
<1>4. Stage(q) = "unlock" => Stage(q) \in Sweeping
    BY DEF Sweeping
<1>5. Sweeps(q)'
    BY <1>1, <1>2, <1>4 DEF Sweeps, files
<1>6. Checkpoint(q)' = Checkpoint(q) /\ Content(q)' = Content(q)
    BY <1>1 DEF Checkpoint, Content, Pid
<1>7. Stage(q) \in Saving \/ Stage(q) \in {"write state", "rename state"} => Stage(q) \in Holders
    BY DEF Holders, Saving
<1>8. Loads(q)'
    BY <1>1, <1>2, <1>6, <1>7 DEF Loads, files
<1>9. initializer'[q] \in InitRun(completed')
    <2>1. CASE Stage(q) \in Holders
        BY <1>1, <1>2, <2>1 DEF files
    <2>2. CASE Stage(q) \notin Holders
        BY <1>1, <1>2, <2>2 DEF Loads, InitRun
    <2> QED BY <2>1, <2>2
<1> QED
    BY <1>3, <1>5, <1>8, <1>9

(* The step as a whole. *)
LEMMA MoveStands ==
    ASSUME InspectionKept, NEW p \in Initializers, NEW r \in InitRun(completed'),
           initializer' = [initializer EXCEPT ![p] = r],
           r.at = "idle" <=> r.pid = 0,
           \/ r.pid \in {0, Pid(p)} /\ inits' = inits
           \/ r.pid = inits + 1 /\ inits' = inits + 1,
           \A q \in Initializers \ {p} :
              /\ Stage(q) \in Holders \cup Sweeping => initLock'.pid = initLock.pid /\ initLock' # NoInitFile
                                                       /\ files' = files
              /\ Stage(q) \in Leasing => recoveryLease'.pid = recoveryLease.pid,
           InitFile(initLock)', InitFile(recoveryLease)', Reported', initLock' = NoInitFile => residue' = {},
           Owns(p)', Sweeps(p)', Loads(p)'
    PROVE  InspectionKept'
<1>1. /\ initializer'[p] = r /\ Stage(p)' = r.at /\ Pid(p)' = r.pid
      /\ \A q \in Initializers : q # p => initializer'[q] = initializer[q] /\ Stage(q)' = Stage(q) /\ Pid(q)' = Pid(q)
      /\ DOMAIN initializer' = Initializers /\ initializer' = [q \in Initializers |-> initializer'[q]]
    BY Moved DEF InspectionKept
<1>2. /\ inits \in Nat /\ inits' \in Nat /\ inits <= inits' /\ r.pid \in Nat
      /\ r.pid \in {0, Pid(p)} \/ r.pid > inits
      /\ \A q \in Initializers : Pid(q) \in Nat /\ Pid(q) <= inits
    BY RunFields DEF InspectionKept, InspectionRecords, Numbered, InitRun
<1>3. \A q \in Initializers : q # p => Owns(q)' /\ Sweeps(q)' /\ Loads(q)' /\ initializer'[q] \in InitRun(completed')
    BY <1>2, OthersStand
<1>4. Numbered'
    <2>1. \A q \in Initializers : Pid(q)' <= inits'
        BY <1>1, <1>2
    <2>2. \A q \in Initializers : Stage(q)' = "idle" <=> Pid(q)' = 0
        BY <1>1 DEF InspectionKept, Numbered
    <2>3. \A q \in Initializers : q # p => r.pid = 0 \/ r.pid # Pid(q)
        BY <1>2 DEF InspectionKept, Numbered
    <2>4. \A q, s \in Initializers : Pid(q)' # 0 /\ Pid(q)' = Pid(s)' => q = s
        BY <1>1, <2>3 DEF InspectionKept, Numbered
    <2> QED BY <2>1, <2>2, <2>4 DEF Numbered
<1>5. InspectionRecords'
    BY <1>1, <1>2, <1>3 DEF InspectionRecords
<1> QED
    BY <1>3, <1>4, <1>5 DEF InspectionKept

LEMMA Staged ==
    ASSUME InspectionRecords, NEW p \in Initializers, NEW at \in Stages, ToStage(p, at), completed' = completed
    PROVE  \E r \in InitRun(completed') : /\ initializer' = [initializer EXCEPT ![p] = r] /\ r.at = at
                                          /\ r.pid = Pid(p) /\ r.loaded = initializer[p].loaded
<1>1. PICK r : r = [initializer[p] EXCEPT !.at = at]
    OBVIOUS
<1>2. r \in InitRun(completed') /\ r.at = at /\ r.pid = Pid(p) /\ r.loaded = initializer[p].loaded
    BY <1>1, RunFields DEF InitRun
<1>3. initializer' = [initializer EXCEPT ![p] = r]
    BY <1>1 DEF ToStage, InspectionRecords
<1> QED
    BY <1>2, <1>3

LEMMA Idling ==
    ASSUME NEW s
    PROVE  NoInit \in InitRun(s) /\ NoInit.at = "idle" /\ NoInit.pid = 0 /\ NoInit.loaded = <<>>
BY DEF NoInit, InitRun, Stages

(* A process at a stage that neither holds nor leases. *)
LEMMA Bystander ==
    ASSUME NEW p \in Initializers, Stage(p)' \notin Holders \cup Leasing, initializer'[p].loaded = <<>>
    PROVE  Owns(p)' /\ Sweeps(p)' /\ Loads(p)'
BY DEF Owns, Sweeps, Loads, Leasing, Sweeping, Holders, Saving

(* Steps of the control alone. *)
LEMMA ControlStands ==
    ASSUME InspectionKept, NEW p \in Initializers, NEW r \in InitRun(completed'),
           initializer' = [initializer EXCEPT ![p] = r],
           r.at = "idle" <=> r.pid = 0, r.pid \in {0, Pid(p)},
           UNCHANGED <<initLock, recoveryLease, files, inits>>,
           Owns(p)', Sweeps(p)', Loads(p)'
    PROVE  InspectionKept'
<1>1. \A q \in Initializers \ {p} :
         /\ Stage(q) \in Holders \cup Sweeping => initLock'.pid = initLock.pid /\ initLock' # NoInitFile
                                                  /\ files' = files
         /\ Stage(q) \in Leasing => recoveryLease'.pid = recoveryLease.pid
    BY NoHolder
<1>2. InitFile(initLock)' /\ InitFile(recoveryLease)' /\ Reported' /\ (initLock' = NoInitFile => residue' = {})
    BY DEF InspectionKept, InspectionRecords, InitFile, Reported, Backed, files
<1> QED
    BY <1>1, <1>2, MoveStands

LEMMA EndStands ==
    ASSUME InspectionKept, NEW p \in Initializers, EndInit(p), UNCHANGED <<initLock, recoveryLease, files, inits>>
    PROVE  InspectionKept'
<1>1. /\ NoInit \in InitRun(completed') /\ NoInit.at = "idle" /\ NoInit.pid = 0 /\ NoInit.loaded = <<>>
      /\ initializer' = [initializer EXCEPT ![p] = NoInit]
    BY Idling DEF EndInit
<1>2. Owns(p)' /\ Sweeps(p)' /\ Loads(p)'
    <2>1. initializer'[p] = NoInit /\ Stage(p)' = "idle"
        BY <1>1, Moved DEF InspectionKept
    <2> QED BY <1>1, <2>1, Bystander DEF Holders, Saving, Leasing, Sweeping
<1> QED
    BY <1>1, <1>2, ControlStands

(* On to a stage where nothing is held. *)
LEMMA GoStands ==
    ASSUME InspectionKept, NEW p \in Initializers, NEW at \in Stages, ToStage(p, at),
           UNCHANGED <<initLock, recoveryLease, files, inits>>,
           Stage(p) # "idle", at # "idle", initializer[p].loaded = <<>> \/ at \in Holders,
           at \in Holders \cup Leasing => Owns(p)' /\ Sweeps(p)' /\ Loads(p)'
    PROVE  InspectionKept'
<1>1. PICK r \in InitRun(completed') : /\ initializer' = [initializer EXCEPT ![p] = r] /\ r.at = at
                                       /\ r.pid = Pid(p) /\ r.loaded = initializer[p].loaded
    BY Staged DEF InspectionKept, files
<1>2. Pid(p) # 0
    BY DEF InspectionKept, Numbered
<1>3. initializer'[p] = r /\ Stage(p)' = at
    BY <1>1, Moved DEF InspectionKept
<1>4. Owns(p)' /\ Sweeps(p)' /\ Loads(p)'
    BY <1>1, <1>3, Bystander
<1> QED
    BY <1>1, <1>2, <1>4, ControlStands

(* Only a holder has read anything. *)
LEMMA Unloaded ==
    ASSUME InspectionKept, NEW p \in Initializers, Stage(p) \notin Holders
    PROVE  initializer[p].loaded = <<>>
BY DEF InspectionKept, Loads

LEMMA LooksStand ==
    ASSUME InspectionKept, NEW p \in Initializers, ReadLease(p) \/ ReadLock(p) \/ ReadState(p)
    PROVE  InspectionKept'
<1>1. /\ UNCHANGED <<initLock, recoveryLease, files, inits>>
      /\ Stage(p) \in {"look", "lock", "read"}
    BY DEF ReadLease, ReadLock, ReadState, counters
<1>2. Stage(p) # "idle" /\ Stage(p) \notin Holders
    BY <1>1 DEF Holders, Saving
<1>3. ASSUME NEW at \in {"clear", "lock", "lease", "list", "acquire"}, ToStage(p, at)
      PROVE  InspectionKept'
    BY <1>1, <1>2, <1>3, GoStands, Unloaded DEF Stages, Holders, Saving, Leasing, Sweeping
<1>4. EndInit(p) \/ \E at \in {"clear", "lock", "lease", "list", "acquire"} : ToStage(p, at)
    BY DEF ReadLease, ReadLock, ReadState
<1> QED
    BY <1>1, <1>3, <1>4, EndStands

LEMMA RecheckStands ==
    ASSUME InspectionKept, NEW p \in Initializers, RecheckLock(p)
    PROVE  InspectionKept'
<1>1. /\ UNCHANGED <<initLock, recoveryLease, files, inits>> /\ Stage(p) = "recheck"
    BY DEF RecheckLock, counters
<1>2. Stage(p) # "idle" /\ Stage(p) \notin Holders /\ Stage(p) \in Leasing
    BY <1>1 DEF Holders, Saving, Leasing
<1>3. ASSUME NEW at \in {"sweep", "drop"}, ToStage(p, at), at = "sweep" => StillDead
      PROVE  InspectionKept'
    <2>1. PICK r \in InitRun(completed') : /\ initializer' = [initializer EXCEPT ![p] = r] /\ r.at = at
                                           /\ r.pid = Pid(p) /\ r.loaded = initializer[p].loaded
        BY <1>1, <1>3, Staged DEF InspectionKept, files, Stages, Leasing, Sweeping
    <2>2. /\ initializer'[p] = r /\ Stage(p)' = at /\ Pid(p)' = Pid(p)
          /\ \A q \in Initializers : Pid(q)' = Pid(q)
        BY <2>1, Moved DEF InspectionKept
    <2>3. ASSUME at = "sweep"
          PROVE  initLock # NoInitFile /\ \A q \in Initializers : Pid(q) # initLock.pid
        BY <1>3, <2>3 DEF StillDead, lockOwnerStatus, AliveInit, InspectionKept, InspectionRecords, InitFile
    <2>4. Owns(p)'
        BY <1>1, <1>2, <2>2, <2>3 DEF Owns, InspectionKept, Holders, Saving, Sweeping
    <2>5. Sweeps(p)' /\ Loads(p)'
        BY <1>2, <2>1, <2>2, Unloaded DEF Sweeps, Loads, Holders, Saving
    <2>6. at \in Stages /\ at # "idle"
        BY DEF Stages, Leasing, Sweeping
    <2> QED BY <1>1, <1>2, <1>3, <2>4, <2>5, <2>6, Unloaded, GoStands
<1> QED
    BY <1>3 DEF RecheckLock

LEMMA ListStands ==
    ASSUME InspectionKept, NEW p \in Initializers, ListDirectory(p)
    PROVE  InspectionKept'
<1>1. /\ UNCHANGED <<initLock, recoveryLease, files, inits>> /\ Stage(p) = "list"
    BY DEF ListDirectory, counters
<1>2. Stage(p) # "idle" /\ Stage(p) \notin Holders /\ initializer[p].loaded = <<>> /\ Pid(p) # 0
    BY <1>1, Unloaded DEF Holders, Saving, InspectionKept, Numbered
<1>3. CASE ToStage(p, "acquire")
    BY <1>1, <1>2, <1>3, GoStands DEF Stages, Holders, Saving, Leasing, Sweeping
<1>4. CASE initializer' = [initializer EXCEPT ![p].at = "read", ![p].listed = Listed]
    <2>1. PICK r : r = [initializer[p] EXCEPT !.at = "read", !.listed = Listed]
        OBVIOUS
    <2>2. r \in InitRun(completed') /\ r.at = "read" /\ r.pid = Pid(p) /\ r.loaded = <<>>
        <3>1. Listed \in BOOLEAN
            BY DEF Listed
        <3> QED BY <1>1, <1>2, <2>1, <3>1, RunFields DEF InitRun, InspectionKept, Stages
    <2>3. initializer' = [initializer EXCEPT ![p] = r]
        BY <1>4, <2>1 DEF InspectionKept, InspectionRecords
    <2>4. initializer'[p] = r /\ Stage(p)' = "read"
        BY <2>2, <2>3, Moved DEF InspectionKept
    <2>5. Owns(p)' /\ Sweeps(p)' /\ Loads(p)'
        BY <2>2, <2>4, Bystander DEF Holders, Saving, Leasing, Sweeping
    <2> QED BY <1>1, <1>2, <2>2, <2>3, <2>5, ControlStands
<1> QED
    BY <1>1, <1>3, <1>4, EndStands DEF ListDirectory

LEMMA OwnedStands ==
    ASSUME InspectionKept, NEW p \in Initializers, ListOwned(p) \/ ReadOwned(p)
    PROVE  InspectionKept'
<1>1. /\ UNCHANGED <<initLock, recoveryLease, files, inits>> /\ Stage(p) \in {"list again", "read again"}
    BY DEF ListOwned, ReadOwned, counters
<1>2. /\ Stage(p) # "idle" /\ Pid(p) # 0 /\ initLock.pid = Pid(p) /\ residue = {}
      /\ initializer[p].loaded \in {<<>>, completed}
    BY <1>1, RunFields DEF Holders, Saving, InspectionKept, Numbered, Owns, Sweeps, InitRun
<1>3. PICK r : /\ initializer' = [initializer EXCEPT ![p] = r] /\ r \in InitRun(completed')
               /\ r.pid = Pid(p)
               /\ \/ r.at \in {"release", "read again"} 
                  \/ r.at = "write" /\ r.loaded = completed /\ Len(completed) # Checkpoints
    <2>1. ASSUME ToStage(p, "release")
          PROVE  \E r \in InitRun(completed') : /\ initializer' = [initializer EXCEPT ![p] = r] /\ r.at = "release"
                                                /\ r.pid = Pid(p)
        <3>1. "release" \in Stages /\ completed' = completed
            BY <1>1 DEF Stages, Holders, files
        <3> QED BY <2>1, <3>1, Staged DEF InspectionKept
    <2>2. Listed \in BOOLEAN /\ initializer[p] \in InitRun(completed) /\ completed' = completed
        BY <1>1, RunFields DEF InspectionKept, files, Listed
    <2>3. CASE initializer' = [initializer EXCEPT ![p].at = "read again", ![p].listed = Listed]
        <3>1. PICK r : r = [initializer[p] EXCEPT !.at = "read again", !.listed = Listed]
            OBVIOUS
        <3>2. r \in InitRun(completed') /\ r.pid = Pid(p) /\ r.at = "read again"
            BY <2>2, <3>1 DEF InitRun, Pid, Stages, Holders
        <3>3. initializer' = [initializer EXCEPT ![p] = r]
            BY <2>3, <3>1 DEF InspectionKept, InspectionRecords
        <3> QED BY <3>2, <3>3
    <2>4. CASE /\ initializer' = [initializer EXCEPT ![p].at = "write", ![p].loaded = completed]
               /\ Len(completed) # Checkpoints
        <3>1. PICK r : r = [initializer[p] EXCEPT !.at = "write", !.loaded = completed]
            OBVIOUS
        <3>2. r \in InitRun(completed') /\ r.pid = Pid(p) /\ r.at = "write" /\ r.loaded = completed
            BY <2>2, <3>1 DEF InitRun, Pid, Stages, Holders, Saving
        <3>3. initializer' = [initializer EXCEPT ![p] = r]
            BY <2>4, <3>1 DEF InspectionKept, InspectionRecords
        <3> QED BY <2>4, <3>2, <3>3
    <2> QED BY <2>1, <2>3, <2>4 DEF ListOwned, ReadOwned
<1>4. initializer'[p] = r /\ Stage(p)' = r.at /\ Pid(p)' = Pid(p)
    BY <1>3, Moved DEF InspectionKept
<1>5. Owns(p)' /\ Sweeps(p)'
    BY <1>1, <1>2, <1>3, <1>4 DEF Owns, Sweeps, Leasing, Sweeping, Holders, Saving, files
<1>6. Loads(p)'
    <2>1. Len(completed) \in Nat /\ Len(completed) <= Checkpoints /\ Checkpoints \in Nat
        BY InspectionAssumption DEF InspectionKept, Reported
    <2>2. r.at = "write" => Len(completed) < Checkpoints
        BY <1>3, <2>1
    <2> QED BY <1>1, <1>3, <1>4, <2>2 DEF Loads, Holders, Saving, files
<1>7. r.at # "idle"
    BY <1>3
<1> QED
    BY <1>1, <1>2, <1>3, <1>5, <1>6, <1>7, ControlStands

LEMMA ComesAndGoes ==
    ASSUME InspectionKept, NEW p \in Initializers, StartInit(p) \/ DieInit(p)
    PROVE  InspectionKept'
<1>1. UNCHANGED <<initLock, recoveryLease, files>>
    BY DEF StartInit, DieInit, counters
<1>2. CASE DieInit(p)
    BY <1>1, <1>2, EndStands DEF DieInit
<1>3. CASE StartInit(p)
    <2>1. PICK r : r = [initializer[p] EXCEPT !.at = "look", !.pid = inits + 1]
        OBVIOUS
    <2>2. /\ initializer' = [initializer EXCEPT ![p] = r] /\ inits' = inits + 1 /\ inits \in Nat
          /\ Stage(p) = "idle" /\ initializer[p].loaded = <<>>
        <3>1. inits' = inits + 1 /\ Stage(p) = "idle"
              /\ initializer' = [initializer EXCEPT ![p].at = "look", ![p].pid = inits']
            BY <1>3 DEF StartInit
        <3>2. initializer' = [initializer EXCEPT ![p] = r]
            BY <2>1, <3>1 DEF InspectionKept, InspectionRecords
        <3> QED BY <3>1, <3>2, Unloaded DEF InspectionKept, InspectionRecords, Holders, Saving
    <2>3. r \in InitRun(completed') /\ r.at = "look" /\ r.pid = inits + 1 /\ r.loaded = <<>> /\ r.pid # 0
        <3>1. initializer[p] \in InitRun(completed) /\ completed' = completed /\ "look" \in Stages
            BY <1>1, RunFields DEF InspectionKept, Stages, files
        <3>2. inits + 1 \in Nat /\ inits + 1 # 0
            BY <2>2
        <3> QED BY <2>1, <2>2, <3>1, <3>2 DEF InitRun
    <2>4. initializer'[p] = r /\ Stage(p)' = "look"
        BY <2>2, <2>3, Moved DEF InspectionKept
    <2>5. Owns(p)' /\ Sweeps(p)' /\ Loads(p)'
        BY <2>3, <2>4, Bystander DEF Holders, Saving, Leasing, Sweeping
    <2>6. \A q \in Initializers \ {p} :
             /\ Stage(q) \in Holders \cup Sweeping => initLock'.pid = initLock.pid /\ initLock' # NoInitFile
                                                      /\ files' = files
             /\ Stage(q) \in Leasing => recoveryLease'.pid = recoveryLease.pid
        BY <1>1, NoHolder
    <2>7. InitFile(initLock)' /\ InitFile(recoveryLease)' /\ Reported' /\ (initLock' = NoInitFile => residue' = {})
        BY <1>1, <2>2 DEF InspectionKept, InspectionRecords, InitFile, Reported, Backed, files
    <2> QED BY <2>2, <2>3, <2>5, <2>6, <2>7, MoveStands
<1> QED
    BY <1>2, <1>3

(* A lock that its process creates, or puts its pid in. *)
LEMMA FileOf ==
    ASSUME inits \in Nat, NEW p, Pid(p) \in 1..inits, NEW held, InitFile(held), NEW next,
           \/ next = [pid |-> Pid(p), named |-> FALSE]
           \/ held.pid = Pid(p) /\ next = Signed(held, p)
    PROVE  next.pid = Pid(p) /\ next.pid # 0 /\ next \in [pid : 0..inits, named : BOOLEAN]
<1>1. Pid(p) \in 0..inits /\ Pid(p) # 0
    OBVIOUS
<1>2. CASE next = [pid |-> Pid(p), named |-> FALSE]
    BY <1>1, <1>2
<1>3. CASE held.pid = Pid(p) /\ next = [held EXCEPT !.named = TRUE]
    <2>1. held \in [pid : 0..inits, named : BOOLEAN]
        BY DEF InitFile
    <2> QED BY <1>1, <1>3, <2>1
<1> QED
    BY <1>2, <1>3 DEF Signed

(* Steps on the recovery lease: what another run leases is not at the path then. *)
LEMMA LeaseStands ==
    ASSUME InspectionKept, NEW p \in Initializers, NEW r \in InitRun(completed'),
           initializer' = [initializer EXCEPT ![p] = r],
           r.at = "idle" <=> r.pid = 0, r.pid \in {0, Pid(p)}, r.loaded = <<>>,
           r.at \notin Holders \cup Sweeping, r.at \in Leasing => recoveryLease'.pid = Pid(p),
           r.pid = 0 => r.at \notin Leasing,
           UNCHANGED <<initLock, files, inits>>,
           InitFile(recoveryLease)',
           \A q \in Initializers \ {p} : Stage(q) \in Leasing => recoveryLease'.pid = recoveryLease.pid
    PROVE  InspectionKept'
<1>1. \A q \in Initializers \ {p} :
         Stage(q) \in Holders \cup Sweeping => initLock'.pid = initLock.pid /\ initLock' # NoInitFile
                                               /\ files' = files
    BY NoHolder
<1>2. InitFile(initLock)' /\ Reported' /\ (initLock' = NoInitFile => residue' = {})
    BY DEF InspectionKept, InspectionRecords, InitFile, Reported, Backed, files
<1>3. initializer'[p] = r /\ Stage(p)' = r.at /\ Pid(p)' = r.pid
    BY Moved DEF InspectionKept
<1>4. Owns(p)' /\ Sweeps(p)' /\ Loads(p)'
    <2>1. r.at # "unlock" /\ r.at \notin Saving /\ r.at \notin {"write state", "rename state"}
        BY DEF Sweeping, Holders, Saving
    <2> QED BY <1>3, <2>1 DEF Owns, Sweeps, Loads
<1> QED
    BY <1>1, <1>2, <1>4, MoveStands

LEMMA LeasesStand ==
    ASSUME InspectionKept, NEW p \in Initializers,
           (ClearLease(p) /\ ~ousted') \/ TakeLease(p) \/ NameLease(p) \/ DropLease(p)
    PROVE  InspectionKept'
<1>1. UNCHANGED <<initLock, files, inits>> /\ Stage(p) \in {"clear", "lease", "name", "drop"} /\ completed' = completed
    BY DEF ClearLease, TakeLease, NameLease, DropLease, counters, files
<1>2. Stage(p) # "idle" /\ Pid(p) # 0 /\ initializer[p].loaded = <<>>
    BY <1>1, Unloaded DEF Holders, Saving, InspectionKept, Numbered
<1>3. Pid(p) \in 1..inits /\ InitFile(recoveryLease)
    BY <1>2, RunFields DEF InspectionKept, InspectionRecords, Numbered
<1>4. ASSUME recoveryLease' = NoInitFile
      PROVE  InitFile(recoveryLease)'
    BY <1>1, <1>4 DEF InitFile, NoInitFile, InspectionKept, InspectionRecords
<1>5. ASSUME NEW at \in {"lock", "name", "recheck", "list"}, ToStage(p, at)
      PROVE  \E r \in InitRun(completed') :
                /\ initializer' = [initializer EXCEPT ![p] = r] /\ r.at = at /\ r.pid = Pid(p) /\ r.loaded = <<>>
                /\ (r.at = "idle" <=> r.pid = 0) /\ r.pid # 0 /\ r.at \notin Holders \cup Sweeping
                /\ (r.at \in Leasing => at \in {"name", "recheck"})
    <2>1. at \in Stages /\ at # "idle" /\ at \notin Holders \cup Sweeping /\ (at \in Leasing => at \in {"name", "recheck"})
        BY DEF Stages, Leasing, Sweeping, Holders, Saving
    <2> QED BY <1>1, <1>2, <1>5, <2>1, Staged DEF InspectionKept
<1>6. CASE ClearLease(p) /\ ~ousted'
    <2>1. recoveryLease' = NoInitFile /\ ToStage(p, "lock") /\ ~AliveInit(recoveryLease.pid)
        BY <1>6 DEF ClearLease
    <2>2. \A q \in Initializers : Stage(q) \notin Leasing
        <3>1. \A q \in Initializers : Stage(q) \in Leasing => Pid(q) = recoveryLease.pid /\ Pid(q) # 0
            BY DEF InspectionKept, Owns, Numbered, Leasing, Sweeping
        <3> QED BY <2>1, <3>1 DEF AliveInit
    <2>3. PICK r \in InitRun(completed') :
             /\ initializer' = [initializer EXCEPT ![p] = r] /\ r.at = "lock" /\ r.pid = Pid(p) /\ r.loaded = <<>>
             /\ (r.at = "idle" <=> r.pid = 0) /\ r.pid # 0 /\ r.at \notin Holders \cup Sweeping /\ r.at \notin Leasing
        BY <1>5, <2>1
    <2> QED BY <1>1, <1>4, <2>1, <2>2, <2>3, LeaseStands
<1>7. CASE DropLease(p)
    <2>1. recoveryLease' = NoInitFile /\ Stage(p) = "drop" /\ (ToStage(p, "list") \/ EndInit(p))
        BY <1>7 DEF DropLease
    <2>2. \A q \in Initializers \ {p} : Stage(q) \notin Leasing
        BY <2>1, OneLease DEF Leasing
    <2>3. PICK r \in InitRun(completed') :
             /\ initializer' = [initializer EXCEPT ![p] = r] /\ r.pid \in {0, Pid(p)} /\ r.loaded = <<>>
             /\ (r.at = "idle" <=> r.pid = 0) /\ r.at \notin Holders \cup Sweeping /\ r.at \notin Leasing
        <3>1. CASE ToStage(p, "list")
            BY <1>5, <3>1
        <3>2. CASE EndInit(p)
            BY <3>2, Idling DEF EndInit, Holders, Saving, Sweeping, Leasing
        <3> QED BY <2>1, <3>1, <3>2
    <2> QED BY <1>1, <1>4, <2>1, <2>2, <2>3, LeaseStands
<1>8. CASE TakeLease(p) \/ NameLease(p)
    <2>1. CASE EndInit(p) /\ UNCHANGED recoveryLease
        BY <1>1, <2>1, EndStands
    <2>2. CASE \/ recoveryLease = NoInitFile /\ recoveryLease' = [pid |-> Pid(p), named |-> FALSE] /\ ToStage(p, "name")
               \/ Stage(p) = "name" /\ recoveryLease' = Signed(recoveryLease, p) /\ ToStage(p, "recheck")
        <3>1. \A q \in Initializers \ {p} : Stage(q) \notin Leasing
            BY <2>2, OneLease DEF Leasing
        <3>2. recoveryLease'.pid = Pid(p) /\ InitFile(recoveryLease)'
            <4>1. Stage(p) = "name" => recoveryLease.pid = Pid(p)
                BY DEF InspectionKept, Owns, Leasing
            <4>2. inits' = inits /\ inits \in Nat
                BY <1>1 DEF InspectionKept, InspectionRecords
            <4>3. recoveryLease'.pid = Pid(p) /\ recoveryLease'.pid # 0
                  /\ recoveryLease' \in [pid : 0..inits, named : BOOLEAN]
                BY <1>3, <2>2, <4>1, <4>2, FileOf
            <4> QED BY <4>2, <4>3 DEF InitFile
        <3>3. PICK at \in {"name", "recheck"} : ToStage(p, at)
            BY <2>2
        <3>4. PICK r \in InitRun(completed') :
                 /\ initializer' = [initializer EXCEPT ![p] = r] /\ r.at = at /\ r.pid = Pid(p) /\ r.loaded = <<>>
                 /\ (r.at = "idle" <=> r.pid = 0) /\ r.pid # 0 /\ r.at \notin Holders \cup Sweeping
            BY <1>5, <3>3
        <3> QED BY <1>1, <3>1, <3>2, <3>4, LeaseStands
    <2> QED BY <1>8, <2>1, <2>2 DEF TakeLease, NameLease
<1> QED
    BY <1>6, <1>7, <1>8

(* Steps on the lock: it is free, or the mover's, or nobody's. *)
LEMMA LocksStand ==
    ASSUME InspectionKept, NEW p \in Initializers,
           UnlinkLock(p) \/ AcquireLock(p) \/ SignLock(p) \/ ReleaseLock(p)
    PROVE  InspectionKept'
<1>1. /\ UNCHANGED <<recoveryLease, files, inits>> /\ completed' = completed /\ residue' = residue
      /\ Stage(p) \in {"unlock", "acquire", "sign", "release"}
    BY DEF UnlinkLock, AcquireLock, SignLock, ReleaseLock, counters, files
<1>2. Stage(p) # "idle" /\ Pid(p) # 0 /\ Pid(p) \in 1..inits /\ initializer[p] \in InitRun(completed)
      /\ InitFile(initLock) /\ Owns(p) /\ Sweeps(p) /\ initializer[p].loaded \in {<<>>, completed}
    BY <1>1, RunFields DEF InspectionKept, InspectionRecords, Numbered, InitRun
<1>3. InitFile(recoveryLease)' /\ Reported' /\ \A q \in Initializers \ {p} : recoveryLease'.pid = recoveryLease.pid
    BY <1>1 DEF InspectionKept, InspectionRecords, InitFile, Reported, Backed, files
<1>4. CASE UnlinkLock(p)
    <2>1. PICK r : r = [initializer[p] EXCEPT !.at = "drop", !.recovered = initLock # NoInitFile]
        OBVIOUS
    <2>2. Stage(p) = "unlock" /\ initLock' = NoInitFile /\ initializer' = [initializer EXCEPT ![p] = r]
        BY <1>4, <2>1 DEF UnlinkLock, InspectionKept, InspectionRecords
    <2>3. r \in InitRun(completed') /\ r.at = "drop" /\ r.pid = Pid(p) /\ r.loaded = <<>>
        <3>1. initializer[p].loaded = <<>>
            BY <2>2, Unloaded DEF Holders, Saving
        <3>2. (initLock # NoInitFile) \in BOOLEAN /\ "drop" \in Stages
            BY DEF Stages, Leasing
        <3> QED BY <1>1, <1>2, <2>1, <3>1, <3>2 DEF InitRun, Pid
    <2>4. \A q \in Initializers \ {p} : Stage(q) \notin Holders \cup Sweeping
        BY <2>2, NoHolder, OneLease DEF Sweeping, Leasing
    <2>5. initializer'[p] = r /\ Stage(p)' = "drop" /\ Pid(p)' = Pid(p)
        BY <2>2, <2>3, Moved DEF InspectionKept
    <2>6. Owns(p)' /\ Sweeps(p)' /\ Loads(p)'
        BY <1>1, <1>2, <2>2, <2>3, <2>5 DEF Owns, Sweeps, Loads, Leasing, Sweeping, Holders, Saving
    <2>7. InitFile(initLock)' /\ residue' = {}
        <3>1. residue = {}
            BY <1>2, <2>2 DEF Sweeps
        <3>2. inits' \in Nat
            BY <1>1 DEF InspectionKept, InspectionRecords
        <3> QED BY <1>1, <2>2, <3>1, <3>2 DEF InitFile, NoInitFile
    <2> QED BY <1>1, <1>2, <1>3, <2>2, <2>3, <2>4, <2>6, <2>7, MoveStands
<1>5. CASE AcquireLock(p) /\ initLock # NoInitFile
    BY <1>1, <1>5, EndStands DEF AcquireLock
<1>6. CASE (AcquireLock(p) /\ initLock = NoInitFile) \/ SignLock(p)
    <2>1. PICK at \in {"sign", "list again"} : ToStage(p, at)
        BY <1>6 DEF AcquireLock, SignLock
    <2>2. at \in Stages /\ at \in Holders /\ at \notin Saving /\ at \notin Leasing /\ at # "idle" /\ at \notin Sweeping
        BY DEF Stages, Holders, Saving, Leasing, Sweeping
    <2>3. PICK r \in InitRun(completed') : /\ initializer' = [initializer EXCEPT ![p] = r] /\ r.at = at
                                           /\ r.pid = Pid(p) /\ r.loaded = initializer[p].loaded
        BY <1>1, <2>1, <2>2, Staged DEF InspectionKept
    <2>4. initLock'.pid = Pid(p) /\ InitFile(initLock)' /\ initLock' # NoInitFile
        <3>1. Stage(p) = "sign" => initLock.pid = Pid(p)
            BY <1>2 DEF Owns, Holders
        <3>2. \/ initLock' = [pid |-> Pid(p), named |-> FALSE]
              \/ Stage(p) = "sign" /\ initLock' = Signed(initLock, p)
            BY <1>6 DEF AcquireLock, SignLock
        <3>3. inits' = inits /\ inits \in Nat
            BY <1>1 DEF InspectionKept, InspectionRecords
        <3>4. initLock'.pid = Pid(p) /\ initLock'.pid # 0 /\ initLock' \in [pid : 0..inits, named : BOOLEAN]
            BY <1>2, <3>1, <3>2, <3>3, FileOf
        <3>5. initLock' # NoInitFile
            <4>1. NoInitFile.pid = 0
                BY DEF NoInitFile
            <4> QED BY <3>4, <4>1
        <3> QED BY <3>3, <3>4, <3>5 DEF InitFile
    <2>5. \A q \in Initializers \ {p} : Stage(q) \notin Holders \cup Sweeping
        <3>1. CASE initLock = NoInitFile
            BY <3>1, NoHolder
        <3>2. CASE SignLock(p)
            BY <3>2, OneHolder DEF SignLock, Holders
        <3> QED BY <1>6, <3>1, <3>2
    <2>6. residue = {}
        <3>1. initLock = NoInitFile \/ Stage(p) = "sign"
            BY <1>6 DEF SignLock
        <3> QED BY <1>2, <3>1 DEF Sweeps, Holders, InspectionKept
    <2>7. initializer'[p] = r /\ Stage(p)' = at /\ Pid(p)' = Pid(p)
        BY <2>3, Moved DEF InspectionKept
    <2>8. at \notin {"rename", "rename state", "write state", "unlock"}
        BY <2>1
    <2>9. Owns(p)' /\ Sweeps(p)' /\ Loads(p)'
        BY <1>1, <2>2, <2>4, <2>6, <2>7, <2>8 DEF Owns, Sweeps, Loads
    <2> QED BY <1>1, <1>2, <1>3, <2>2, <2>3, <2>4, <2>5, <2>6, <2>9, MoveStands
<1>7. CASE ReleaseLock(p)
    <2>1. Stage(p) = "release" /\ initLock' = NoInitFile /\ initializer' = [initializer EXCEPT ![p] = NoInit]
        BY <1>7 DEF ReleaseLock, EndInit
    <2>2. residue = {}
        BY <1>2, <2>1 DEF Sweeps, Holders
    <2>3. \A q \in Initializers \ {p} : Stage(q) \notin Holders \cup Sweeping
        BY <2>1, OneHolder DEF Holders
    <2>4. NoInit \in InitRun(completed') /\ NoInit.at = "idle" /\ NoInit.pid = 0 /\ NoInit.loaded = <<>>
        BY Idling
    <2>5. initializer'[p] = NoInit /\ Stage(p)' = "idle"
        BY <2>1, <2>4, Moved DEF InspectionKept
    <2>6. Owns(p)' /\ Sweeps(p)' /\ Loads(p)'
        BY <2>4, <2>5, Bystander DEF Holders, Saving, Leasing, Sweeping
    <2>7. InitFile(initLock)'
        BY <1>1, <2>1 DEF InitFile, NoInitFile, InspectionKept, InspectionRecords
    <2> QED BY <1>1, <1>3, <2>1, <2>2, <2>3, <2>4, <2>6, <2>7, MoveStands
<1> QED
    BY <1>4, <1>5, <1>6, <1>7

(* Steps on what is written: a sweep when nobody holds, or a write of the one holder. *)
LEMMA SweepStands ==
    ASSUME InspectionKept, NEW p \in Initializers, SweepResidue(p)
    PROVE  InspectionKept'
<1>1. /\ UNCHANGED <<initLock, recoveryLease, inits, artifact, completed>> /\ residue' = {} /\ Stage(p) = "sweep"
      /\ ToStage(p, "unlock")
    BY DEF SweepResidue, counters
<1>2. Stage(p) \in Sweeping /\ Stage(p) \in Leasing /\ Stage(p) \notin Holders /\ "unlock" \in Stages
      /\ "unlock" \in Sweeping /\ "unlock" \notin Holders /\ "unlock" \notin Saving
    BY <1>1 DEF Sweeping, Leasing, Stages, Holders, Saving
<1>3. PICK r \in InitRun(completed') : /\ initializer' = [initializer EXCEPT ![p] = r] /\ r.at = "unlock"
                                       /\ r.pid = Pid(p) /\ r.loaded = initializer[p].loaded
    BY <1>1, <1>2, Staged DEF InspectionKept
<1>4. \A q \in Initializers \ {p} : Stage(q) \notin Holders \cup Sweeping
    BY <1>2, NoHolder, OneLease DEF Leasing
<1>5. /\ initializer'[p] = r /\ Stage(p)' = "unlock" /\ \A q \in Initializers : Pid(q)' = Pid(q)
    BY <1>3, Moved DEF InspectionKept
<1>6. Owns(p)' /\ Sweeps(p)' /\ Loads(p)'
    BY <1>1, <1>2, <1>3, <1>5, Unloaded DEF Owns, Sweeps, Loads, InspectionKept
<1>7. InitFile(initLock)' /\ InitFile(recoveryLease)' /\ Reported'
    BY <1>1 DEF InspectionKept, InspectionRecords, InitFile, Reported, Backed
<1>8. r.at # "idle" /\ r.pid # 0
    BY <1>1, <1>3 DEF InspectionKept, Numbered
<1> QED
    BY <1>1, <1>3, <1>4, <1>6, <1>7, <1>8, MoveStands

(* What a process that saves knows. *)
LEMMA SaverKnows ==
    ASSUME InspectionKept, NEW p \in Initializers, Stage(p) \in Saving
    PROVE  /\ Stage(p) # "idle" /\ Pid(p) # 0 /\ Pid(p) = initLock.pid /\ initLock # NoInitFile
           /\ initializer[p].loaded = completed /\ Len(completed) \in Nat /\ Len(completed) < Checkpoints
           /\ Checkpoint(p) = Len(completed) + 1 /\ Checkpoint(p) \in 1..Checkpoints
           /\ residue = IF Stage(p) \in {"rename", "rename state"} THEN {Pid(p)} ELSE {}
           /\ \A q \in Initializers \ {p} : Stage(q) \notin Holders \cup Sweeping
<1>1. Stage(p) \in Holders /\ Stage(p) # "idle"
    BY DEF Holders, Saving
<1>2. Pid(p) # 0 /\ Pid(p) = initLock.pid /\ initLock # NoInitFile
    BY <1>1, NoHolder DEF InspectionKept, Numbered, Owns
<1>3. initializer[p].loaded = completed /\ Len(completed) < Checkpoints /\ Len(completed) \in Nat
    <2>1. Len(completed) \in Nat
        BY DEF InspectionKept, Reported
    <2> QED BY <2>1 DEF InspectionKept, Loads
<1>4. Checkpoint(p) = Len(completed) + 1 /\ Checkpoint(p) \in 1..Checkpoints
    BY <1>3, InspectionAssumption DEF Checkpoint
<1>5. \A q \in Initializers \ {p} : Stage(q) \notin Holders \cup Sweeping
    BY <1>1, OneHolder
<1> QED
    BY <1>1, <1>2, <1>3, <1>4, <1>5 DEF InspectionKept, Sweeps

(* The step of the one that saves: who holds what stays. *)
LEMMA SaverStands ==
    ASSUME InspectionKept, NEW p \in Initializers, Stage(p) \in Saving, NEW r \in InitRun(completed'),
           initializer' = [initializer EXCEPT ![p] = r], r.pid = Pid(p), r.at \in Saving \cup {"release"},
           UNCHANGED <<initLock, recoveryLease, inits>>, Reported', Sweeps(p)', Loads(p)'
    PROVE  InspectionKept'
<1>1. r.at \in Holders /\ r.at \notin Leasing /\ r.at \notin Sweeping /\ r.at # "idle"
    BY DEF Holders, Saving, Leasing, Sweeping
<1>2. Owns(p)'
    <2>1. Pid(p) = initLock.pid /\ InspectionRecords
        BY SaverKnows DEF InspectionKept
    <2>2. Stage(p)' = r.at /\ Pid(p)' = Pid(p)
        BY <2>1, Moved
    <2> QED BY <1>1, <2>1, <2>2 DEF Owns
<1>3. InitFile(initLock)' /\ InitFile(recoveryLease)' /\ initLock' # NoInitFile
    BY SaverKnows DEF InspectionKept, InspectionRecords, InitFile
<1> QED
    BY <1>1, <1>2, <1>3, SaverKnows, MoveStands

LEMMA WritesTemporary ==
    ASSUME InspectionKept, NEW p \in Initializers, WriteTemporary(p)
    PROVE  InspectionKept'
<1>1. /\ UNCHANGED <<initLock, recoveryLease, inits, artifact, completed>> /\ residue' = residue \cup {Pid(p)}
      /\ \/ Stage(p) = "write" /\ ToStage(p, "rename")
         \/ Stage(p) = "write state" /\ ToStage(p, "rename state")
    BY DEF WriteTemporary, counters
<1>2. Stage(p) \in Saving
    BY <1>1 DEF Saving
<1>3. residue' = {Pid(p)}
    BY <1>1, <1>2, SaverKnows
<1>4. PICK at \in {"rename", "rename state"} : ToStage(p, at) /\ (at = "rename state" => Stage(p) = "write state")
    BY <1>1
<1>5. at \in Stages /\ at \in Saving
    BY DEF Stages, Holders, Saving
<1>6. PICK r \in InitRun(completed') : /\ initializer' = [initializer EXCEPT ![p] = r] /\ r.at = at
                                       /\ r.pid = Pid(p) /\ r.loaded = initializer[p].loaded
    BY <1>1, <1>4, <1>5, Staged DEF InspectionKept
<1>7. initializer'[p] = r /\ Stage(p)' = at /\ Pid(p)' = Pid(p) /\ initializer'[p].loaded = initializer[p].loaded
    BY <1>6, Moved DEF InspectionKept
<1>8. Sweeps(p)'
    BY <1>3, <1>4, <1>7 DEF Sweeps
<1>9. Checkpoint(p)' = Checkpoint(p) /\ Content(p)' = Content(p)
    BY <1>7 DEF Checkpoint, Content
<1>10. Loads(p)'
    BY <1>1, <1>2, <1>4, <1>5, <1>7, <1>9, SaverKnows DEF Loads, Holders, InspectionKept
<1>11. Reported'
    BY <1>1 DEF InspectionKept, Reported, Backed
<1> QED
    BY <1>1, <1>2, <1>5, <1>6, <1>8, <1>10, <1>11, SaverStands

(* A save that is given up leaves what was completed, and the lock to be released. *)
LEMMA GivesUp ==
    ASSUME InspectionKept, NEW p \in Initializers, Stage(p) \in Saving, ToStage(p, "release"), residue' = {},
           UNCHANGED <<initLock, recoveryLease, inits, artifact, completed>>
    PROVE  InspectionKept'
<1>1. "release" \in Stages /\ "release" \in Holders /\ "release" \notin Saving
    BY DEF Stages, Holders, Saving
<1>2. PICK r \in InitRun(completed') : /\ initializer' = [initializer EXCEPT ![p] = r] /\ r.at = "release"
                                       /\ r.pid = Pid(p)
    BY <1>1, Staged DEF InspectionKept
<1>3. initializer'[p] = r /\ Stage(p)' = "release"
    BY <1>2, Moved DEF InspectionKept
<1>4. Sweeps(p)' /\ Loads(p)'
    BY <1>1, <1>3 DEF Sweeps, Loads
<1>5. Reported'
    BY DEF InspectionKept, Reported, Backed
<1> QED
    BY <1>2, <1>4, <1>5, SaverStands

LEMMA FailsToWrite ==
    ASSUME InspectionKept, NEW p \in Initializers, FailWrite(p)
    PROVE  InspectionKept'
<1>1. UNCHANGED <<initLock, recoveryLease, inits, artifact, completed>> /\ residue' = residue \ {Pid(p)}
      /\ Stage(p) \in Saving /\ ToStage(p, "release")
    BY DEF FailWrite, Saving
<1>2. residue' = {}
    BY <1>1, SaverKnows
<1> QED
    BY <1>1, <1>2, GivesUp

LEMMA RenamesArtifact ==
    ASSUME InspectionKept, NEW p \in Initializers, RenameArtifact(p)
    PROVE  InspectionKept'
<1>1. UNCHANGED <<initLock, recoveryLease, inits, completed>> /\ Stage(p) = "rename" /\ Stage(p) \in Saving
    BY DEF RenameArtifact, counters, Saving
<1>2. Pid(p) \in residue
    BY <1>1, SaverKnows
<1>3. artifact' = [artifact EXCEPT ![Checkpoint(p)] = Content(p)] /\ residue' = residue \ {Pid(p)}
      /\ ToStage(p, "write state")
    BY <1>2 DEF RenameArtifact
<1>4. residue' = {}
    BY <1>1, <1>3, SaverKnows
<1>5. "write state" \in Stages /\ "write state" \in Saving
    BY DEF Stages, Holders, Saving
<1>6. PICK r \in InitRun(completed') : /\ initializer' = [initializer EXCEPT ![p] = r] /\ r.at = "write state"
                                       /\ r.pid = Pid(p) /\ r.loaded = initializer[p].loaded
    BY <1>1, <1>3, <1>5, Staged DEF InspectionKept
<1>7. initializer'[p] = r /\ Stage(p)' = "write state" /\ Pid(p)' = Pid(p)
      /\ initializer'[p].loaded = initializer[p].loaded
    BY <1>6, Moved DEF InspectionKept
<1>8. Sweeps(p)'
    BY <1>4, <1>7 DEF Sweeps
<1>9. Checkpoint(p)' = Checkpoint(p) /\ Content(p)' = Content(p)
    BY <1>7 DEF Checkpoint, Content
<1>10. /\ Checkpoint(p) \in 1..Checkpoints /\ Checkpoint(p) = Len(completed) + 1 /\ Len(completed) \in Nat
       /\ initializer[p].loaded = completed /\ Len(completed) < Checkpoints
    BY <1>1, SaverKnows
<1>11. artifact'[Checkpoint(p)] = Content(p) /\ artifact' = [i \in 1..Checkpoints |-> artifact'[i]]
       /\ \A i \in 1..Checkpoints : i # Checkpoint(p) => artifact'[i] = artifact[i]
    BY <1>3, <1>10 DEF InspectionKept, Reported
<1>12. Loads(p)'
    BY <1>1, <1>5, <1>7, <1>9, <1>10, <1>11 DEF Loads, Holders
<1>13. Backed'
    <2>1. DOMAIN completed = 1..Len(completed)
        BY DEF InspectionKept, Reported
    <2>2. \A i \in DOMAIN completed : i \in 1..Checkpoints /\ i # Checkpoint(p)
        BY <1>10, <2>1, InspectionAssumption
    <2> QED BY <1>1, <1>11, <2>2 DEF Backed, InspectionKept, Reported
<1>14. Reported'
    BY <1>1, <1>11, <1>13 DEF InspectionKept, Reported
<1> QED
    BY <1>1, <1>5, <1>6, <1>8, <1>12, <1>14, SaverStands

LEMMA RenamesState ==
    ASSUME InspectionKept, NEW p \in Initializers, RenameState(p)
    PROVE  InspectionKept'
<1>1. UNCHANGED <<initLock, recoveryLease, inits, artifact>> /\ Stage(p) = "rename state" /\ Stage(p) \in Saving
    BY DEF RenameState, counters, Saving
<1>2. Pid(p) \in residue
    BY <1>1, SaverKnows
<1>3. PICK state : state = Append(initializer[p].loaded, Content(p))
    OBVIOUS
<1>4. PICK at : at = IF Len(state) = Checkpoints THEN "release" ELSE "write"
    OBVIOUS
<1>5. completed' = state /\ residue' = residue \ {Pid(p)}
      /\ initializer' = [initializer EXCEPT ![p].loaded = state, ![p].at = at]
    BY <1>2, <1>3, <1>4 DEF RenameState
<1>6. residue' = {}
    BY <1>1, <1>5, SaverKnows
<1>7. /\ Checkpoint(p) \in 1..Checkpoints /\ Checkpoint(p) = Len(completed) + 1 /\ Len(completed) \in Nat
      /\ initializer[p].loaded = completed /\ Len(completed) < Checkpoints
      /\ artifact[Checkpoint(p)] = Content(p)
    BY <1>1, SaverKnows DEF InspectionKept, Loads
<1>8. PICK S : completed \in Seq(S)
    BY DEF InspectionKept, Reported
<1>9. PICK content : content = Content(p)
    OBVIOUS
<1>10. state = Append(completed, content) /\ completed \in Seq(S \cup {content}) /\ state \in Seq(S \cup {content})
    BY <1>3, <1>7, <1>8, <1>9
<1>11. /\ Len(state) = Len(completed) + 1 /\ DOMAIN state = 1..Len(state) /\ state[Len(completed) + 1] = content
       /\ \A i \in 1..Len(completed) : state[i] = completed[i]
    BY <1>10
<1>12. SubSeq(state, 1, Len(completed)) = completed
    BY <1>10, <1>11
<1>13. at \in {"release", "write"} /\ (at = "write" => Len(state) < Checkpoints) /\ Len(state) <= Checkpoints
    BY <1>4, <1>7, <1>11, InspectionAssumption
<1>14. at \in Stages /\ at \in Saving \cup {"release"} /\ at \in Holders
    BY <1>13 DEF Stages, Holders, Saving
<1>15. PICK r : r = [initializer[p] EXCEPT !.loaded = state, !.at = at]
    OBVIOUS
<1>16. r \in InitRun(completed') /\ r.at = at /\ r.pid = Pid(p) /\ r.loaded = state
    BY <1>5, <1>14, <1>15, RunFields DEF InspectionKept, InitRun, Pid
<1>17. initializer' = [initializer EXCEPT ![p] = r]
    BY <1>5, <1>15 DEF InspectionKept, InspectionRecords
<1>18. initializer'[p] = r /\ Stage(p)' = at
    BY <1>16, <1>17, Moved DEF InspectionKept
<1>19. Sweeps(p)' /\ Loads(p)'
    BY <1>5, <1>6, <1>13, <1>14, <1>16, <1>18 DEF Sweeps, Loads, Saving
<1>20. Backed'
    <2>1. \A i \in DOMAIN state : i \in 1..Len(completed) \/ i = Len(completed) + 1
        BY <1>7, <1>11
    <2>2. \A i \in 1..Len(completed) : artifact[i] = completed[i]
        BY <1>8 DEF InspectionKept, Reported, Backed
    <2>3. artifact[Len(completed) + 1] = state[Len(completed) + 1]
        BY <1>7, <1>9, <1>11
    <2>4. \A i \in DOMAIN state : artifact[i] = state[i]
        BY <1>11, <2>1, <2>2, <2>3, Zenon
    <2> QED BY <1>1, <1>5, <2>4 DEF Backed
<1>21. ASSUME Len(state) = Checkpoints
       PROVE  state[Checkpoints] = FlattenSeq(SubSeq(state, 1, Checkpoints - 1))
    <2>1. Checkpoint(p) = Checkpoints /\ Checkpoints - 1 = Len(completed)
        BY <1>7, <1>11, <1>21
    <2>2. content = FlattenSeq(completed)
        BY <1>7, <1>9, <2>1 DEF Content
    <2> QED BY <1>7, <1>11, <1>12, <2>1, <2>2
<1>22. Reported'
    BY <1>1, <1>5, <1>10, <1>13, <1>20, <1>21 DEF InspectionKept, Reported
<1> QED
    BY <1>1, <1>14, <1>16, <1>17, <1>19, <1>22, SaverStands

LEMMA InspectionSteps ==
    ASSUME InspectionInv, [InspectionNext]_inspectionVars
    PROVE  InspectionInv'
<1>1. CASE UNCHANGED inspectionVars
    BY <1>1 DEF inspectionVars, InspectionInv, InspectionKept, InspectionRecords, InitFile, Numbered, Reported, Backed,
                Owns, Sweeps, Loads, Stage, Pid, Checkpoint, Content
<1>2. CASE InspectionNext
    <2>1. PICK p \in Initializers :
             \/ StartInit(p) \/ ReadLease(p) \/ ClearLease(p) \/ ReadLock(p) \/ TakeLease(p)
             \/ NameLease(p) \/ RecheckLock(p) \/ SweepResidue(p) \/ UnlinkLock(p) \/ DropLease(p)
             \/ ListDirectory(p) \/ ReadState(p) \/ AcquireLock(p) \/ SignLock(p) \/ ListOwned(p)
             \/ ReadOwned(p) \/ WriteTemporary(p) \/ RenameArtifact(p) \/ RenameState(p)
             \/ FailWrite(p) \/ ReleaseLock(p) \/ DieInit(p)
        BY <1>2 DEF InspectionNext
    <2>2. ousted' = ousted \/ (ClearLease(p) /\ ousted' = (ousted \/ AliveInit(recoveryLease.pid)))
        BY <2>1 DEF StartInit, ReadLease, ClearLease, ReadLock, TakeLease, NameLease, RecheckLock, SweepResidue,
                    UnlinkLock, DropLease, ListDirectory, ReadState, AcquireLock, SignLock, ListOwned, ReadOwned,
                    WriteTemporary, RenameArtifact, RenameState, FailWrite, ReleaseLock, DieInit
    <2>3. ousted' \in BOOLEAN /\ (ousted => ousted')
        BY <2>2 DEF InspectionInv, AliveInit
    <2>4. ASSUME ~ousted'
          PROVE  InspectionKept'
        <3>1. InspectionKept
            BY <2>3, <2>4 DEF InspectionInv
        <3> QED BY <2>1, <2>4, <3>1, ComesAndGoes, LooksStand, LeasesStand, RecheckStands, SweepStands, LocksStand,
                   ListStands, OwnedStands, WritesTemporary, RenamesArtifact, RenamesState, FailsToWrite
    <2> QED BY <2>3, <2>4 DEF InspectionInv
<1> QED
    BY <1>1, <1>2

(* Until a run clears the lease of a live one, one run writes at a time, every completed       *)
(* checkpoint is backed by its artifact and the report is on the artifacts beside it           *)
(* (initializeInspectionCore).                                                               *)
THEOREM CheckpointsAreKept == InspectionSpec => []CheckpointsStand
<1>1. InspectionInv => CheckpointsStand
    <2> SUFFICES ASSUME InspectionKept
                 PROVE  CheckpointsStand
        BY DEF InspectionInv, CheckpointsStand
    <2>1. \A p, q \in Writing : p = q
        BY OneHolder DEF Writing, Saving, Holders
    <2> QED BY <2>1 DEF CheckpointsStand, InspectionKept, Reported
<1> QED
    BY <1>1, InspectionStarts, InspectionSteps, PTL DEF InspectionSpec

-----------------------------------------------------------------------------
(* The replay of a skill: what a step under way was permitted, and what of the calls that *)
(* went out is entered. *)

AtStep    == {"gate", "probe", "dispatch", "answer", "escalate", "second-answer", "record"}
BeforeIt  == {"idle", "gate", "probe", "dispatch"}
Gated     == {"probe", "dispatch", "answer", "escalate", "second-answer"}
CallRec   == [step : Nat, via : {"step", "heal"}, args : Args, mocked : BOOLEAN, effect : Effects,
              approve : Shapes \cup {NoApproval}, shape : Shapes, check : Checks]
WriteRec  == [args : Args, duplicateOf : Nat]
ExecRec   == [outcome : {"none", "passed", "unchecked", "failed"}, level : 0..2,
              write : WriteRec \cup {NoWrite}, observed : BOOLEAN]
RecordRec == [outcome : {"none", "passed", "unchecked", "failed", "skipped"}, level : 0..2,
              write : WriteRec \cup {NoWrite}, check : Checks, mocked : BOOLEAN]

RunnerRecords ==
    /\ options \in [allow : {"nothing", "writes", "destructive"}, maxLevel : 0..2, refuse : BOOLEAN,
                    mocks : SUBSET Nat]
    /\ skill \in Seq(Declarations) /\ n \in Nat \ {0} /\ phase \in Phases /\ check \in Checks
    /\ exec \in ExecRec /\ writeKeySeen \in [DOMAIN writeKeySeen -> Nat \ {0}]
    /\ steps \in Seq(RecordRec) /\ sent \in Seq(CallRec)

(* A run at a step has recorded the steps before it. *)
AtItsStep ==
    /\ phase = "idle" => n = 1 /\ skill # <<>> /\ steps = <<>>
    /\ phase \in AtStep => n \in 1..Len(skill) /\ Len(steps) = n - 1

(* The step at hand was permitted, and what of it was sent is bound as it is. *)
PermittedSoFar ==
    /\ phase \in Gated => Mocked \/ Permitted(skill[n])
    /\ phase \in {"probe", "dispatch", "answer"} => ~Mocked
    /\ phase = "dispatch" /\ options.refuse /\ skill[n].bound => check = "match"
    /\ \A i \in 1..Len(sent) :
          /\ sent[i].step <= n /\ (phase \in BeforeIt => sent[i].step < n)
          /\ phase \in AtStep /\ sent[i].step = n => sent[i].shape.bound = skill[n].bound

(* A write that went out is entered by the time its step goes on. *)
IsSentWrite(c) == c.effect # "read" /\ ~c.mocked
Entered(c)     == IsSentWrite(c) => c.args \in DOMAIN writeKeySeen
Fresh(args) ==
    \A j, k \in 1..Len(sent) :
        j < k /\ sent[k].step = n /\ sent[j].args = args /\ sent[k].args = args => ~IsSentWrite(sent[j])
EnteredSoFar ==
    /\ phase \in BeforeIt \cup {"escalate"} => \A i \in 1..Len(sent) : Entered(sent[i])
    /\ phase = "record" /\ exec.outcome # "failed" => \A i \in 1..Len(sent) : Entered(sent[i])
    /\ phase \in {"answer", "second-answer"} =>
          /\ Len(sent) # 0 /\ \A i \in 1..Len(sent) - 1 : Entered(sent[i])
          /\ sent[Len(sent)].effect = skill[n].effect /\ sent[Len(sent)].mocked = Mocked
    /\ phase = "answer" => sent[Len(sent)].args = skill[n].args
    /\ phase \in {"escalate", "second-answer"} =>
          exec.outcome = "failed" /\ (IsWrite(skill[n]) \/ exec.write = NoWrite)
    /\ phase \in {"escalate", "record"} /\ ~Mocked /\ exec.write # NoWrite /\ exec.write.duplicateOf = 0 =>
          (exec.outcome = "failed" /\ phase = "record") \/ Fresh(exec.write.args)

RunnerInv ==
    /\ RunnerRecords /\ AtItsStep /\ PermittedSoFar /\ EnteredSoFar
    /\ WritesAuthorised /\ BoundWriteChecked /\ DuplicatesFlagged

LEMMA RunnerStarts == RunnerInit => RunnerInv
<1> SUFFICES ASSUME RunnerInit
             PROVE  RunnerInv
    OBVIOUS
<1>1. options \in [allow : {"nothing", "writes", "destructive"}, maxLevel : 0..2, refuse : BOOLEAN,
                   mocks : SUBSET Nat]
      /\ skill \in Seq(Declarations) /\ skill # <<>>
    BY RunnerAssumption DEF RunnerInit
<1>2. exec \in ExecRec /\ <<>> \in [DOMAIN <<>> -> Nat \ {0}] /\ <<>> \in Seq(RecordRec) /\ <<>> \in Seq(CallRec)
    BY DEF RunnerInit, NotRun, ExecRec
<1>3. n = 1 /\ phase = "idle" /\ check = "none" /\ Len(sent) = 0 /\ Len(steps) = 0 /\ DOMAIN sent = {} /\ DOMAIN steps = {}
    BY DEF RunnerInit
<1>4. RunnerRecords
    BY <1>1, <1>2, <1>3 DEF RunnerInit, RunnerRecords, Phases, Checks
<1>5. AtItsStep /\ PermittedSoFar /\ EnteredSoFar
    BY <1>1, <1>3 DEF RunnerInit, AtItsStep, PermittedSoFar, EnteredSoFar, AtStep, Gated, BeforeIt
<1> QED
    BY <1>3, <1>4, <1>5 DEF RunnerInv, WritesAuthorised, BoundWriteChecked, DuplicatesFlagged

(* The step at hand, and the sequences of the run. *)
LEMMA AtHand ==
    ASSUME RunnerInv
    PROVE  /\ Len(sent) \in Nat /\ DOMAIN sent = 1..Len(sent) /\ \A i \in 1..Len(sent) : sent[i] \in CallRec
           /\ Len(steps) \in Nat /\ DOMAIN steps = 1..Len(steps) /\ n \in Nat /\ Len(skill) \in Nat
           /\ phase \in AtStep => n \in 1..Len(skill) /\ skill[n] \in Declarations /\ Len(steps) = n - 1
BY DEF RunnerInv, RunnerRecords, AtItsStep

(* While nothing is sent or recorded, what was stays as it was. *)
LEMMA NothingSent ==
    ASSUME RunnerInv, UNCHANGED <<options, steps, sent>>
    PROVE  WritesAuthorised' /\ BoundWriteChecked' /\ DuplicatesFlagged'
BY DEF RunnerInv, WritesAuthorised, BoundWriteChecked, DuplicatesFlagged

LEMMA ControlSteps ==
    ASSUME RunnerInv, StartRun \/ AppendRecord \/ LoseRun \/ GiveUp
    PROVE  RunnerInv'
<1>1. UNCHANGED <<options, skill, n, check, exec, writeKeySeen, steps, sent>>
    BY DEF StartRun, AppendRecord, LoseRun, GiveUp, runnerConfig
<1>2. \/ phase = "idle" /\ phase' = "gate"
      \/ phase = "append" /\ phase' = "done"
      \/ phase' = "lost"
      \/ phase = "escalate" /\ phase' = "record"
    BY DEF StartRun, AppendRecord, LoseRun, GiveUp
<1>3. phase' \in Phases
    BY <1>2 DEF Phases
<1>4. RunnerRecords'
    BY <1>1, <1>3 DEF RunnerInv, RunnerRecords
<1>5. AtItsStep'
    <2>1. phase = "idle" => n = 1 /\ Len(steps) = 0 /\ n \in 1..Len(skill)
        BY DEF RunnerInv, AtItsStep, RunnerRecords
    <2> QED BY <1>1, <1>2, <2>1 DEF RunnerInv, AtItsStep, AtStep
<1>6. PermittedSoFar'
    <2>1. Mocked' = Mocked /\ Len(sent) \in Nat /\ \A i \in 1..Len(sent) : sent[i].step \in Nat
        BY <1>1, AtHand DEF Mocked, CallRec
    <2> QED BY <1>1, <1>2, <2>1 DEF RunnerInv, PermittedSoFar, AtStep, Gated, BeforeIt
<1>7. EnteredSoFar'
    <2>1. Mocked' = Mocked /\ (Fresh(exec.write.args)' <=> Fresh(exec.write.args))
          /\ \A i \in 1..Len(sent) : Entered(sent[i])' <=> Entered(sent[i])
        BY <1>1 DEF Mocked, Fresh, Entered
    <2> QED BY <1>1, <1>2, <2>1 DEF RunnerInv, EnteredSoFar, BeforeIt
<1> QED
    BY <1>1, <1>4, <1>5, <1>6, <1>7, NothingSent DEF RunnerInv

LEMMA GatesStep ==
    ASSUME RunnerInv, MockStep \/ GateStep \/ ProbeStep
    PROVE  RunnerInv'
<1>1. UNCHANGED <<options, skill, n, writeKeySeen, steps, sent>> /\ phase \in {"gate", "probe"}
    BY DEF MockStep, GateStep, ProbeStep, runnerConfig
<1>2. /\ n \in 1..Len(skill) /\ skill[n] \in Declarations /\ Len(steps) = n - 1 /\ exec \in ExecRec
      /\ \A i \in 1..Len(sent) : Entered(sent[i]) /\ sent[i].step < n
    BY <1>1, AtHand DEF AtStep, RunnerInv, EnteredSoFar, PermittedSoFar, BeforeIt, RunnerRecords
<1>3. Mocked' = Mocked /\ (\A i \in 1..Len(sent) : Entered(sent[i])' <=> Entered(sent[i]))
    BY <1>1 DEF Mocked, Entered
<1>4. NotRun.outcome = "none" /\ NotRun.write = NoWrite
    BY DEF NotRun
<1>5. \/ phase' = "record" /\ exec'.write = NoWrite
      \/ phase' = "escalate" /\ exec'.write = NoWrite /\ exec'.outcome = "failed" /\ Mocked
      \/ phase' \in {"probe", "dispatch"} /\ ~Mocked
    <2>1. CASE Fails
        BY <2>1, <1>4 DEF Fails, NotRun
    <2>2. CASE MockStep
        BY <2>2, <2>1 DEF MockStep, NotRun
    <2>3. CASE GateStep
        BY <2>3, <2>1 DEF GateStep
    <2>4. CASE ProbeStep
        <3>1. ~Mocked
            BY <2>4 DEF ProbeStep, RunnerInv, PermittedSoFar
        <3> QED BY <2>4, <2>1, <3>1 DEF ProbeStep
    <2> QED BY <2>2, <2>3, <2>4
<1>6. exec' \in ExecRec /\ check' \in Checks
    <2>1. PICK outcome \in {"passed", "unchecked", "failed"}, observed \in BOOLEAN :
             exec' = exec \/ exec' = [NotRun EXCEPT !.outcome = outcome, !.observed = observed]
        <3>1. Fails => exec' = [NotRun EXCEPT !.outcome = "failed", !.observed = FALSE]
            BY DEF Fails, NotRun
        <3>2. CASE MockStep
            BY <3>1, <3>2 DEF MockStep
        <3>3. CASE GateStep \/ ProbeStep
            BY <3>1, <3>3 DEF GateStep, ProbeStep
        <3> QED BY <3>2, <3>3
    <2>2. NotRun \in ExecRec
        BY DEF NotRun, ExecRec
    <2>3. exec' \in ExecRec
        BY <1>2, <2>1, <2>2 DEF ExecRec
    <2>4. check' \in Checks
        BY DEF MockStep, GateStep, ProbeStep, Checks, RunnerInv, RunnerRecords
    <2> QED BY <2>3, <2>4
<1>7. RunnerRecords'
    BY <1>1, <1>5, <1>6 DEF RunnerInv, RunnerRecords, Phases
<1>8. AtItsStep'
    BY <1>1, <1>2, <1>5 DEF AtItsStep, RunnerInv
<1>9. PermittedSoFar'
    <2>1. phase' = "probe" => Permitted(skill[n])
        BY <1>1, <1>5 DEF MockStep, GateStep, ProbeStep, Fails
    <2>2. phase' = "dispatch" => phase = "probe" /\ (options.refuse /\ skill[n].bound => check' = "match")
        BY DEF MockStep, GateStep, ProbeStep, Fails
    <2>3. phase = "probe" => Mocked \/ Permitted(skill[n])
        BY DEF RunnerInv, PermittedSoFar, Gated
    <2>4. (phase' \in Gated => Mocked \/ Permitted(skill[n])) /\ (Permitted(skill[n])' <=> Permitted(skill[n]))
        <3>1. phase' \in Gated => Mocked \/ Permitted(skill[n])
            BY <1>5, <2>1, <2>2, <2>3 DEF Gated
        <3>2. Permitted(skill[n])' <=> Permitted(skill[n])
            BY <1>1 DEF Permitted
        <3> QED BY <3>1, <3>2
    <2>5. phase' \in {"probe", "dispatch", "answer"} => ~Mocked
        BY <1>5
    <2>6. \A i \in 1..Len(sent) : sent[i].step < n /\ sent[i].step # n /\ sent[i].step <= n
        BY <1>2, AtHand DEF CallRec
    <2> QED BY <1>1, <1>3, <2>2, <2>4, <2>5, <2>6 DEF PermittedSoFar
<1>10. EnteredSoFar'
    <2>1. phase' = "escalate" \/ phase' = "record" => Mocked \/ exec'.write = NoWrite
        BY <1>5
    <2> QED BY <1>1, <1>2, <1>3, <1>5, <2>1 DEF EnteredSoFar
<1> QED
    BY <1>1, <1>7, <1>8, <1>9, <1>10, NothingSent DEF RunnerInv

(* A call that goes out for the step at hand: as it was permitted, and of a bound step *)
(* the first.                                                                          *)
LEMMA CallGoesOut ==
    ASSUME RunnerInv, phase \in {"dispatch", "escalate"}, NEW call \in CallRec, sent' = Append(sent, call),
           call.step = n, call.effect = skill[n].effect, call.approve = skill[n].approve,
           call.mocked = Mocked, call.shape.bound = skill[n].bound,
           options' = options, steps' = steps,
           call.approve # NoApproval /\ call.effect # "read" /\ ~Mocked => call.approve = call.shape,
           call.approve = NoApproval /\ ~Mocked => Permitted(skill[n]),
           skill[n].bound => phase = "dispatch" /\ call.check = check
    PROVE  WritesAuthorised' /\ BoundWriteChecked' /\ DuplicatesFlagged'
<1>1. /\ sent \in Seq(CallRec) /\ sent' \in Seq(CallRec) /\ Len(sent) \in Nat /\ Len(sent') = Len(sent) + 1
      /\ \A i \in 1..Len(sent) : sent'[i] = sent[i]
      /\ DOMAIN sent' = 1..Len(sent') /\ DOMAIN sent = 1..Len(sent)
    BY AtHand DEF RunnerInv, RunnerRecords
<1>2. sent'[Len(sent) + 1] = call
    BY <1>1
<1>3. \A i \in DOMAIN sent' : i \in DOMAIN sent \/ i = Len(sent) + 1
    BY <1>1
<1>4. /\ n \in 1..Len(skill) /\ skill[n] \in Declarations /\ Len(steps) = n - 1 /\ n \in Nat
      /\ DOMAIN steps = 1..(n - 1)
    BY AtHand DEF AtStep
<1>5. WritesAuthorised'
    <2>1. ASSUME call.effect # "read", ~call.mocked
          PROVE  IF call.approve # NoApproval THEN call.approve = call.shape
                 ELSE options.allow \in (IF call.effect = "destructive" THEN {"destructive"}
                                         ELSE {"writes", "destructive"})
        <3>1. call.effect \in {"idempotent-write", "destructive"}
            BY <1>4, <2>1 DEF Declarations, Effects
        <3>2. options.allow \in {"nothing", "writes", "destructive"}
            BY DEF RunnerInv, RunnerRecords
        <3> QED BY <2>1, <3>1, <3>2 DEF Permitted
    <2> QED BY <1>1, <1>2, <1>3, <2>1 DEF RunnerInv, WritesAuthorised
<1>6. BoundWriteChecked'
    <2>1. skill[n].bound /\ options.refuse => call.check = "match" /\ \A i \in DOMAIN sent : sent[i].step # n
        <3>1. phase = "dispatch" => \A i \in DOMAIN sent : sent[i].step < n
            BY <1>1 DEF RunnerInv, PermittedSoFar, BeforeIt
        <3>2. \A i \in DOMAIN sent : sent[i].step \in Nat
            BY <1>1, AtHand DEF CallRec
        <3> QED BY <1>4, <3>1, <3>2 DEF RunnerInv, PermittedSoFar
    <2>2. \A i \in DOMAIN sent : sent[i].step = n => sent[i].shape.bound = skill[n].bound
        BY <1>1 DEF RunnerInv, PermittedSoFar, AtStep
    <2>3. ASSUME options.refuse, NEW i \in DOMAIN sent', sent'[i].shape.bound
          PROVE  sent'[i].check = "match" /\ \A j \in DOMAIN sent' : sent'[j].step = sent'[i].step => i = j
        <3>1. CASE i = Len(sent) + 1
            BY <1>1, <1>2, <1>3, <2>1, <2>3, <3>1
        <3>2. CASE i \in DOMAIN sent
            <4>1. sent'[i] = sent[i] /\ sent[i].check = "match"
                  /\ \A j \in DOMAIN sent : sent[j].step = sent[i].step => i = j
                BY <1>1, <2>3, <3>2 DEF RunnerInv, BoundWriteChecked
            <4>2. sent[i].step # n
                BY <2>1, <2>2, <2>3, <3>2, <4>1
            <4> QED BY <1>1, <1>2, <1>3, <4>1, <4>2
        <3> QED BY <1>3, <2>3, <3>1, <3>2
    <2> QED BY <2>3 DEF BoundWriteChecked
<1>7. DuplicatesFlagged'
    <2>1. \A i \in DOMAIN steps : i # n
        BY <1>4
    <2>2. \A j, k \in DOMAIN sent' : j < k => j \in DOMAIN sent
        BY <1>1, <1>3
    <2> QED BY <1>1, <1>2, <1>3, <2>1, <2>2 DEF RunnerInv, DuplicatesFlagged
<1> QED
    BY <1>5, <1>6, <1>7

(* The same for the rest of the invariant. *)
LEMMA CallSent ==
    ASSUME RunnerInv, phase \in {"dispatch", "escalate"}, NEW call \in CallRec, sent' = Append(sent, call),
           UNCHANGED <<options, skill, n, check, exec, writeKeySeen, steps>>,
           call.step = n, call.effect = skill[n].effect, call.mocked = Mocked, call.shape.bound = skill[n].bound,
           \/ phase = "dispatch" /\ phase' = "answer" /\ call.args = skill[n].args
           \/ phase = "escalate" /\ phase' = "second-answer"
    PROVE  RunnerRecords' /\ AtItsStep' /\ PermittedSoFar' /\ EnteredSoFar'
<1>1. /\ sent \in Seq(CallRec) /\ sent' \in Seq(CallRec) /\ Len(sent) \in Nat /\ Len(sent') = Len(sent) + 1
      /\ \A i \in 1..Len(sent) : sent'[i] = sent[i]
    BY AtHand DEF RunnerInv, RunnerRecords
<1>2. sent'[Len(sent')] = call /\ sent'[Len(sent) + 1] = call
    BY <1>1
<1>3. Len(sent') # 0 /\ Len(sent') - 1 = Len(sent)
      /\ \A i \in 1..Len(sent') : i \in 1..Len(sent) \/ i = Len(sent) + 1
    BY <1>1
<1>4. /\ n \in 1..Len(skill) /\ skill[n] \in Declarations /\ Len(steps) = n - 1 /\ n \in Nat
    BY AtHand DEF AtStep
<1>5. RunnerRecords' /\ AtItsStep'
    BY <1>1, <1>4 DEF RunnerInv, RunnerRecords, AtItsStep, Phases
<1>6. PermittedSoFar'
    <2>1. Mocked' = Mocked /\ (Permitted(skill[n])' <=> Permitted(skill[n])) /\ (Mocked \/ Permitted(skill[n]))
          /\ (phase = "dispatch" => ~Mocked)
        BY DEF Mocked, Permitted, RunnerInv, PermittedSoFar, Gated
    <2>2. \A i \in 1..Len(sent) : sent[i].step <= n /\ (sent[i].step = n => sent[i].shape.bound = skill[n].bound)
        BY DEF RunnerInv, PermittedSoFar, AtStep
    <2>3. \A i \in 1..Len(sent') : sent'[i].step <= n /\ (sent'[i].step = n => sent'[i].shape.bound = skill[n].bound)
        BY <1>1, <1>2, <1>3, <1>4, <2>2
    <2> QED BY <2>1, <2>3 DEF PermittedSoFar, BeforeIt
<1>7. EnteredSoFar'
    <2>1. \A i \in 1..Len(sent) : Entered(sent[i])
        BY DEF RunnerInv, EnteredSoFar, BeforeIt
    <2>2. \A i \in 1..Len(sent') - 1 : Entered(sent[i])'
        BY <1>1, <1>3, <2>1 DEF Entered
    <2>3. Mocked' = Mocked
        BY DEF Mocked
    <2>4. phase' = "second-answer" => exec.outcome = "failed" /\ (IsWrite(skill[n]) \/ exec.write = NoWrite)
        BY DEF RunnerInv, EnteredSoFar
    <2> QED BY <1>2, <1>3, <2>2, <2>3, <2>4 DEF EnteredSoFar, BeforeIt
<1> QED
    BY <1>5, <1>6, <1>7

LEMMA Dispatches ==
    ASSUME RunnerInv, Dispatch \/ Redispatch
    PROVE  RunnerInv'
<1>1. UNCHANGED <<options, skill, n, check, exec, writeKeySeen, steps>>
      /\ \/ phase = "dispatch" /\ phase' = "answer"
         \/ phase = "escalate" /\ phase' = "second-answer"
    BY DEF Dispatch, Redispatch, runnerConfig
<1>2. /\ n \in Nat /\ skill[n] \in Declarations /\ check \in Checks /\ (phase = "dispatch" => ~Mocked)
      /\ Mocked \in BOOLEAN /\ (Mocked \/ Permitted(skill[n]))
    BY <1>1, AtHand DEF AtStep, RunnerInv, PermittedSoFar, RunnerRecords, Mocked, Gated
<1>3. PICK via \in {"step", "heal"}, args \in Args :
         /\ sent' = Append(sent, Call(via, args))
         /\ phase = "dispatch" => args = skill[n].args
         /\ phase = "escalate" => Resendable(args)
    <2>1. skill[n].args \in Args
        BY <1>2 DEF Declarations
    <2> QED BY <1>1, <2>1 DEF Dispatch, Redispatch
<1>4. PICK call : call = Call(via, args)
    OBVIOUS
<1>5. computeApprovalHash(skill[n]) \in Shapes /\ [computeApprovalHash(skill[n]) EXCEPT !.args = args] \in Shapes
      /\ [computeApprovalHash(skill[n]) EXCEPT !.args = args].bound = skill[n].bound
      /\ (args = skill[n].args => [computeApprovalHash(skill[n]) EXCEPT !.args = args] = computeApprovalHash(skill[n]))
    BY <1>2 DEF computeApprovalHash, Shapes, Declarations
<1>6. /\ call.step = n /\ call.effect = skill[n].effect /\ call.mocked = Mocked /\ call.approve = skill[n].approve
      /\ call.shape = [computeApprovalHash(skill[n]) EXCEPT !.args = args] /\ call.args = args /\ call.check = check
    BY <1>4 DEF Call
<1>7. call \in CallRec
    BY <1>2, <1>4, <1>5 DEF Call, CallRec, Declarations
<1>8. call.approve # NoApproval /\ call.effect # "read" /\ ~Mocked => call.approve = call.shape
    BY <1>1, <1>2, <1>3, <1>5, <1>6 DEF Permitted, Resendable, IsWrite
<1>9. skill[n].bound => phase = "dispatch" /\ call.check = check
    BY <1>1, <1>3, <1>6 DEF Resendable
<1>10. WritesAuthorised' /\ BoundWriteChecked' /\ DuplicatesFlagged'
    BY <1>1, <1>2, <1>3, <1>4, <1>5, <1>6, <1>7, <1>8, <1>9, CallGoesOut
<1>11. RunnerRecords' /\ AtItsStep' /\ PermittedSoFar' /\ EnteredSoFar'
    BY <1>1, <1>3, <1>4, <1>5, <1>6, <1>7, CallSent
<1> QED
    BY <1>10, <1>11 DEF RunnerInv

(* A receipt that marks no duplicate is of arguments not entered before; after it they are. *)
LEMMA ReceiptIsTrue ==
    ASSUME RunnerInv, NEW args \in Args
    PROVE  /\ Receipt(args) \in WriteRec /\ Receipt(args).args = args
           /\ Receipt(args).duplicateOf = 0 => args \notin DOMAIN writeKeySeen
           /\ Register(args) \in [DOMAIN Register(args) -> Nat \ {0}] /\ args \in DOMAIN Register(args)
           /\ DOMAIN writeKeySeen \subseteq DOMAIN Register(args)
<1>1. writeKeySeen \in [DOMAIN writeKeySeen -> Nat \ {0}] /\ n \in Nat \ {0}
    BY DEF RunnerInv, RunnerRecords
<1>2. Receipt(args) \in WriteRec /\ Receipt(args).args = args
      /\ (Receipt(args).duplicateOf = 0 => args \notin DOMAIN writeKeySeen)
    BY <1>1 DEF Receipt, WriteRec
<1>3. CASE args \in DOMAIN writeKeySeen
    BY <1>1, <1>2, <1>3 DEF Register
<1>4. CASE args \notin DOMAIN writeKeySeen
    <2>1. Register(args) = [a \in DOMAIN writeKeySeen \cup {args} |-> IF a = args THEN n ELSE writeKeySeen[a]]
        BY <1>4 DEF Register
    <2> QED BY <1>1, <1>2, <2>1
<1> QED
    BY <1>3, <1>4

LEMMA Answers ==
    ASSUME RunnerInv, Answer
    PROVE  RunnerInv'
<1>1. UNCHANGED <<options, skill, n, check, steps, sent>> /\ phase = "answer" /\ phase' \in {"record", "escalate"}
    BY DEF Answer, runnerConfig
<1>2. /\ n \in 1..Len(skill) /\ skill[n] \in Declarations /\ Len(steps) = n - 1 /\ ~Mocked
      /\ Len(sent) \in Nat /\ Len(sent) # 0 /\ \A i \in 1..Len(sent) - 1 : Entered(sent[i])
      /\ sent[Len(sent)].effect = skill[n].effect /\ sent[Len(sent)].args = skill[n].args
    BY <1>1, AtHand DEF AtStep, RunnerInv, EnteredSoFar, PermittedSoFar
<1>3. PICK args : args = skill[n].args
    OBVIOUS
<1>4. args \in Args /\ skill[n].asserts \in BOOLEAN
    BY <1>2, <1>3 DEF Declarations
<1>5. PICK entry : entry = IF IsWrite(skill[n]) THEN Receipt(args) ELSE NoWrite
    OBVIOUS
<1>6. entry \in WriteRec \cup {NoWrite} /\ (IsWrite(skill[n]) \/ entry = NoWrite)
    BY <1>4, <1>5, ReceiptIsTrue
<1>7. \/ exec' = [NotRun EXCEPT !.outcome = "failed", !.write = entry] /\ phase' = "record"
      \/ exec' = [NotRun EXCEPT !.outcome = "failed", !.write = entry, !.observed = TRUE]
      \/ /\ exec' = [NotRun EXCEPT !.outcome = IF skill[n].asserts THEN "passed" ELSE "unchecked",
                                   !.write = entry, !.observed = TRUE]
         /\ phase' = "record"
    BY <1>3, <1>5 DEF Answer
<1>8. exec' \in ExecRec /\ exec'.write = entry /\ (phase' = "escalate" => exec'.outcome = "failed")
    <2>1. NotRun \in ExecRec
        BY DEF NotRun, ExecRec
    <2> QED BY <1>6, <1>7, <2>1 DEF ExecRec
<1>9. writeKeySeen' = IF IsWrite(skill[n]) THEN Register(args) ELSE writeKeySeen
    BY <1>3 DEF Answer
<1>10. /\ writeKeySeen' \in [DOMAIN writeKeySeen' -> Nat \ {0}] /\ DOMAIN writeKeySeen \subseteq DOMAIN writeKeySeen'
       /\ IsWrite(skill[n]) => args \in DOMAIN writeKeySeen'
    BY <1>4, <1>9, ReceiptIsTrue DEF RunnerInv, RunnerRecords
<1>11. RunnerRecords' /\ AtItsStep'
    BY <1>1, <1>2, <1>8, <1>10 DEF RunnerInv, RunnerRecords, AtItsStep, Phases
<1>12. PermittedSoFar'
    <2>1. Mocked' = Mocked /\ (Permitted(skill[n])' <=> Permitted(skill[n])) /\ Permitted(skill[n])
        BY <1>1, <1>2 DEF Mocked, Permitted, RunnerInv, PermittedSoFar, Gated
    <2> QED BY <1>1, <2>1 DEF RunnerInv, PermittedSoFar, AtStep, BeforeIt
<1>13. EnteredSoFar'
    <2>1. \A i \in 1..Len(sent) : i \in 1..Len(sent) - 1 \/ i = Len(sent)
        BY <1>2
    <2>2. \A i \in 1..Len(sent) : Entered(sent[i])'
        BY <1>1, <1>2, <1>3, <1>10, <2>1 DEF Entered, IsSentWrite, IsWrite
    <2>3. ASSUME entry # NoWrite, entry.duplicateOf = 0
          PROVE  Fresh(entry.args)'
        <3>1. entry.args = args /\ args \notin DOMAIN writeKeySeen
            BY <1>4, <1>5, <2>3, ReceiptIsTrue
        <3>2. \A j, k \in 1..Len(sent) : j < k => j \in 1..Len(sent) - 1
            BY <1>2
        <3> QED BY <1>1, <1>2, <3>1, <3>2 DEF Fresh, Entered
    <2> QED BY <1>1, <1>6, <1>8, <2>2, <2>3 DEF EnteredSoFar, BeforeIt
<1> QED
    BY <1>1, <1>11, <1>12, <1>13, NothingSent DEF RunnerInv

(* A heal keeps the skill's shape but for the arguments of the step at hand. *)
LEMMA HealKeeps ==
    ASSUME RunnerInv, phase \in AtStep, NEW args \in Args, skill' = [skill EXCEPT ![n].args = args]
    PROVE  /\ skill' \in Seq(Declarations) /\ Len(skill') = Len(skill)
           /\ skill'[n].bound = skill[n].bound /\ skill'[n].effect = skill[n].effect
<1>1. skill \in Seq(Declarations) /\ n \in 1..Len(skill) /\ skill[n] \in Declarations
    BY AtHand DEF RunnerInv, RunnerRecords
<1>2. PICK step : step = [skill[n] EXCEPT !.args = args]
    OBVIOUS
<1>3. step \in Declarations /\ step.bound = skill[n].bound /\ step.effect = skill[n].effect
    BY <1>1, <1>2 DEF Declarations
<1>4. skill' = [skill EXCEPT ![n] = step]
    BY <1>1, <1>2
<1> QED
    BY <1>1, <1>3, <1>4

(* On to the record of the step at hand. *)
LEMMA ToRecord ==
    ASSUME RunnerInv, phase \in {"escalate", "second-answer"}, phase' = "record",
           UNCHANGED <<options, n, check, steps, sent>>,
           \/ skill' = skill
           \/ \E args \in Args : skill' = [skill EXCEPT ![n].args = args],
           exec' \in ExecRec, writeKeySeen' \in [DOMAIN writeKeySeen' -> Nat \ {0}],
           exec'.outcome # "failed" => /\ \A i \in 1..Len(sent) : Entered(sent[i])'
                                       /\ ~Mocked /\ exec'.write # NoWrite /\ exec'.write.duplicateOf = 0
                                             => Fresh(exec'.write.args)
    PROVE  RunnerInv'
<1>1. /\ skill' \in Seq(Declarations) /\ Len(skill') = Len(skill)
      /\ skill'[n].bound = skill[n].bound /\ skill'[n].effect = skill[n].effect
    BY HealKeeps DEF AtStep, RunnerInv, RunnerRecords
<1>2. RunnerRecords' /\ AtItsStep'
    BY <1>1, AtHand DEF RunnerInv, RunnerRecords, AtItsStep, AtStep, Phases
<1>3. PermittedSoFar'
    BY <1>1 DEF RunnerInv, PermittedSoFar, AtStep, BeforeIt, Gated
<1>4. EnteredSoFar'
    <2>1. Mocked' = Mocked /\ \A args : Fresh(args)' <=> Fresh(args)
        BY DEF Mocked, Fresh
    <2> QED BY <2>1 DEF EnteredSoFar, BeforeIt
<1> QED
    BY <1>2, <1>3, <1>4, NothingSent DEF RunnerInv

LEMMA HealedIsRecord ==
    ASSUME exec \in ExecRec, NEW level \in 0..2
    PROVE  Healed(level) \in ExecRec /\ Healed(level).write = exec.write
<1>1. PICK outcome \in {"passed", "unchecked"} : Healed(level) = [exec EXCEPT !.level = level, !.outcome = outcome]
    BY DEF Healed
<1> QED
    BY <1>1 DEF ExecRec

LEMMA Heals ==
    ASSUME RunnerInv, HealLevel1
    PROVE  RunnerInv'
<1>1. /\ phase = "escalate" /\ phase' = "record" /\ UNCHANGED <<options, n, check, writeKeySeen, steps, sent>>
      /\ skill' = [skill EXCEPT ![n].args = skill[n].args] /\ exec' = Healed(1)
    BY DEF HealLevel1, Heal
<1>2. skill[n] \in Declarations /\ skill[n].args \in Args /\ skill[n].asserts \in BOOLEAN /\ exec \in ExecRec
    BY <1>1, AtHand DEF AtStep, Declarations, RunnerInv, RunnerRecords
<1>3. exec' \in ExecRec /\ exec'.write = exec.write
    BY <1>1, <1>2, HealedIsRecord
<1>4. /\ \A i \in 1..Len(sent) : Entered(sent[i])'
      /\ ~Mocked /\ exec'.write # NoWrite /\ exec'.write.duplicateOf = 0 => Fresh(exec'.write.args)
    BY <1>1, <1>3 DEF RunnerInv, EnteredSoFar, Entered
<1>5. writeKeySeen' \in [DOMAIN writeKeySeen' -> Nat \ {0}]
    BY <1>1 DEF RunnerInv, RunnerRecords
<1> QED
    BY <1>1, <1>2, <1>3, <1>4, <1>5, ToRecord

LEMMA SecondAnswers ==
    ASSUME RunnerInv, SecondAnswer
    PROVE  RunnerInv'
<1>1. phase = "second-answer" /\ phase' = "record" /\ UNCHANGED <<n, check, steps, sent>>
    BY DEF SecondAnswer
<1>2. /\ Len(sent) \in Nat /\ Len(sent) # 0 /\ \A i \in 1..Len(sent) - 1 : Entered(sent[i])
      /\ sent[Len(sent)].effect = skill[n].effect /\ sent[Len(sent)].mocked = Mocked
      /\ exec.outcome = "failed" /\ (IsWrite(skill[n]) \/ exec.write = NoWrite)
      /\ sent[Len(sent)] \in CallRec /\ skill[n] \in Declarations /\ exec \in ExecRec
      /\ writeKeySeen \in [DOMAIN writeKeySeen -> Nat \ {0}]
    BY <1>1, AtHand DEF RunnerInv, EnteredSoFar, AtStep, RunnerRecords
<1>3. PICK args : args = Last(sent).args
    OBVIOUS
<1>4. args = sent[Len(sent)].args /\ args \in Args /\ skill[n].asserts \in BOOLEAN
    BY <1>2, <1>3 DEF Last, CallRec, Declarations
<1>5. PICK second : second = IF IsWrite(skill[n]) THEN [exec EXCEPT !.write = Receipt(args)] ELSE exec
    OBVIOUS
<1>6. PICK keys : keys = IF IsWrite(skill[n]) /\ ~Mocked THEN Register(args) ELSE writeKeySeen
    OBVIOUS
<1>7. second \in ExecRec /\ second.outcome = "failed"
      /\ second.write = IF IsWrite(skill[n]) THEN Receipt(args) ELSE NoWrite
    BY <1>2, <1>4, <1>5, ReceiptIsTrue DEF ExecRec
<1>8. /\ keys \in [DOMAIN keys -> Nat \ {0}] /\ DOMAIN writeKeySeen \subseteq DOMAIN keys
      /\ IsWrite(skill[n]) /\ ~Mocked => args \in DOMAIN keys
    BY <1>2, <1>4, <1>6, ReceiptIsTrue
<1>9. \/ UNCHANGED <<options, skill, exec, writeKeySeen>>
      \/ exec' = second /\ writeKeySeen' = keys /\ UNCHANGED <<options, skill>>
      \/ Heal(args) /\ exec' = [Healed(2) EXCEPT !.write = second.write] /\ writeKeySeen' = keys
    BY <1>3, <1>5, <1>6 DEF SecondAnswer, runnerConfig
<1>10. CASE UNCHANGED <<options, skill, exec, writeKeySeen>>
    BY <1>1, <1>2, <1>10, ToRecord
<1>11. CASE exec' = second /\ writeKeySeen' = keys /\ UNCHANGED <<options, skill>>
    BY <1>1, <1>7, <1>8, <1>11, ToRecord
<1>12. CASE Heal(args) /\ exec' = [Healed(2) EXCEPT !.write = second.write] /\ writeKeySeen' = keys
    <2>1. skill' = [skill EXCEPT ![n].args = args] /\ options' = options
        BY <1>12 DEF Heal
    <2>2. exec' \in ExecRec /\ exec'.write = second.write
        <3>1. Healed(2) \in ExecRec
            BY <1>2, HealedIsRecord
        <3>2. second.write \in WriteRec \cup {NoWrite}
            BY <1>7 DEF ExecRec
        <3> QED BY <1>12, <3>1, <3>2 DEF ExecRec
    <2>3. \A i \in 1..Len(sent) : Entered(sent[i])'
        <3>1. \A i \in 1..Len(sent) : i \in 1..Len(sent) - 1 \/ i = Len(sent)
            BY <1>2
        <3>2. ASSUME NEW i \in 1..Len(sent) - 1
              PROVE  Entered(sent[i])'
            BY <1>1, <1>2, <1>8, <1>12 DEF Entered, IsSentWrite
        <3>3. PICK last : last = sent[Len(sent)]
            OBVIOUS
        <3>4. last.effect = skill[n].effect /\ last.mocked = Mocked /\ last.args = args /\ Mocked \in BOOLEAN
            BY <1>2, <1>4, <3>3 DEF Mocked
        <3>5. last.effect # "read" /\ ~last.mocked => last.args \in DOMAIN keys
            <4>1. last.effect # "read" => IsWrite(skill[n])
                BY <3>4 DEF IsWrite
            <4> QED BY <1>8, <3>4, <4>1, Zenon
        <3>6. sent' = sent /\ Len(sent)' = Len(sent) /\ sent'[Len(sent)'] = last
            BY <1>1, <3>3
        <3>7. Entered(sent[Len(sent)])'
            BY <1>12, <3>5, <3>6 DEF Entered, IsSentWrite
        <3> QED BY <1>1, <3>1, <3>2, <3>7
    <2>4. ASSUME ~Mocked, second.write # NoWrite, second.write.duplicateOf = 0
          PROVE  Fresh(second.write.args)
        <3>1. second.write.args = args /\ args \notin DOMAIN writeKeySeen
            BY <1>4, <1>7, <2>4, ReceiptIsTrue
        <3>2. \A j, k \in 1..Len(sent) : j < k => j \in 1..Len(sent) - 1
            BY <1>2
        <3> QED BY <1>2, <3>1, <3>2 DEF Fresh, Entered
    <2> QED BY <1>1, <1>4, <1>8, <1>12, <2>1, <2>2, <2>3, <2>4, ToRecord
<1> QED
    BY <1>9, <1>10, <1>11, <1>12

LEMMA Records ==
    ASSUME RunnerInv, RecordStep
    PROVE  RunnerInv'
<1>1. /\ phase = "record" /\ n' = n + 1 /\ check' = "none" /\ exec' = NotRun
      /\ UNCHANGED <<options, skill, writeKeySeen, sent>>
      /\ phase' = IF Len(steps') = Len(skill) THEN "append" ELSE "gate"
    BY DEF RecordStep, runnerConfig
<1>2. /\ n \in 1..Len(skill) /\ Len(steps) = n - 1 /\ n \in Nat /\ Len(skill) \in Nat /\ exec \in ExecRec
      /\ check \in Checks /\ Mocked \in BOOLEAN /\ steps \in Seq(RecordRec) /\ DOMAIN steps = 1..(n - 1)
    BY <1>1, AtHand DEF AtStep, RunnerInv, RunnerRecords, Mocked
<1>3. PICK record : record = [outcome |-> exec.outcome, level |-> exec.level, mocked |-> Mocked,
                              write |-> IF Mocked THEN NoWrite ELSE exec.write,
                              check |-> IF Mocked THEN "none" ELSE check]
    OBVIOUS
<1>4. PICK rest : rest = IF exec.outcome = "failed" THEN [i \in 1..(Len(skill) - n) |-> Skipped] ELSE <<>>
    OBVIOUS
<1>5. steps' = Append(steps, record) \o rest
    BY <1>3, <1>4 DEF RecordStep
<1>6. record \in RecordRec /\ record.write = (IF Mocked THEN NoWrite ELSE exec.write)
      /\ record.outcome = exec.outcome
    BY <1>2, <1>3 DEF RecordRec, ExecRec, Checks
<1>7. rest \in Seq(RecordRec) /\ Len(rest) = (IF exec.outcome = "failed" THEN Len(skill) - n ELSE 0)
      /\ \A i \in 1..Len(rest) : rest[i].write = NoWrite
    <2>1. Skipped \in RecordRec /\ Skipped.write = NoWrite
        BY DEF Skipped, RecordRec, Checks
    <2>2. Len(skill) - n \in Nat
        BY <1>2
    <2> HIDE DEF Skipped
    <2> QED BY <1>4, <2>1, <2>2
<1>8. /\ steps' \in Seq(RecordRec) /\ Len(steps') = n + Len(rest) /\ DOMAIN steps' = 1..Len(steps')
      /\ \A i \in 1..(n - 1) : steps'[i] = steps[i]
      /\ steps'[n] = record
      /\ \A i \in 1..Len(rest) : steps'[n + i] = rest[i]
    <2>1. PICK first : first = Append(steps, record)
        OBVIOUS
    <2>2. first \in Seq(RecordRec) /\ Len(first) = n /\ first[n] = record /\ \A i \in 1..(n - 1) : first[i] = steps[i]
        BY <1>2, <1>6, <2>1
    <2>3. /\ Len(rest) \in Nat /\ n - 1 \in Nat /\ \A i \in 1..(n - 1) : i \in 1..n
          /\ n \in 1..n /\ \A i \in 1..Len(rest) : n + i \in (n + 1)..(n + Len(rest))
        BY <1>2, <1>7
    <2>4. steps' = first \o rest
        BY <1>5, <2>1
    <2>5. steps' \in Seq(RecordRec) /\ Len(steps') = n + Len(rest) /\ DOMAIN steps' = 1..Len(steps')
        <3>1. first \o rest \in Seq(RecordRec) /\ Len(first \o rest) = Len(first) + Len(rest)
            <4>1. ASSUME NEW s \in Seq(RecordRec), NEW t \in Seq(RecordRec)
                  PROVE  s \o t \in Seq(RecordRec) /\ Len(s \o t) = Len(s) + Len(t)
                OBVIOUS
            <4> QED BY <1>7, <2>2, <4>1
        <3>2. DOMAIN (first \o rest) = 1..Len(first \o rest)
            BY <3>1
        <3> QED BY <2>2, <2>4, <3>1, <3>2
    <2>6. \A i \in 1..n : steps'[i] = first[i]
        BY <1>2, <1>7, <2>2, <2>3, <2>4
    <2>7. \A i \in 1..Len(rest) : steps'[n + i] = rest[i]
        BY <1>2, <1>7, <2>2, <2>3, <2>4
    <2> QED BY <2>2, <2>3, <2>5, <2>6, <2>7
<1>9. phase' = "gate" => exec.outcome # "failed" /\ n + 1 \in 1..Len(skill) /\ Len(steps') = n
    BY <1>1, <1>2, <1>7, <1>8
<1>10. RunnerRecords'
    <2>1. exec' \in ExecRec
        BY <1>1 DEF NotRun, ExecRec
    <2>2. n' \in Nat \ {0} /\ phase' \in Phases /\ check' \in Checks
        BY <1>1, <1>2 DEF Phases, Checks
    <2> QED BY <1>1, <1>8, <2>1, <2>2 DEF RunnerInv, RunnerRecords
<1>11. AtItsStep'
    <2>1. phase' \in {"append", "gate"} /\ (n + 1) - 1 = n
        BY <1>1, <1>2
    <2> QED BY <1>1, <1>9, <2>1 DEF AtItsStep, AtStep
<1>12. PermittedSoFar'
    <2>1. \A i \in 1..Len(sent) : sent[i].step <= n /\ sent[i].step \in Nat
        BY AtHand DEF RunnerInv, PermittedSoFar, CallRec
    <2>2. \A i \in 1..Len(sent) : sent[i].step <= n + 1 /\ sent[i].step < n + 1 /\ sent[i].step # n + 1
        BY <1>2, <2>1
    <2> QED BY <1>1, <2>2 DEF PermittedSoFar, Gated
<1>13. EnteredSoFar'
    BY <1>1, <1>9 DEF EnteredSoFar, RunnerInv, BeforeIt, Entered
<1>14. WritesAuthorised' /\ BoundWriteChecked'
    BY <1>1 DEF RunnerInv, WritesAuthorised, BoundWriteChecked
<1>15. DuplicatesFlagged'
    <2>1. ASSUME NEW i \in DOMAIN steps', steps'[i].write # NoWrite, steps'[i].write.duplicateOf = 0,
                 NEW j \in DOMAIN sent, NEW k \in DOMAIN sent, j < k, sent[k].step = i,
                 sent[j].args = steps'[i].write.args, sent[k].args = steps'[i].write.args,
                 sent[j].effect # "read", ~sent[j].mocked
          PROVE  steps'[i].outcome = "failed"
        <3>1. i \in 1..(n - 1) \/ i = n \/ \E m \in 1..Len(rest) : i = n + m
            <4>1. i \in 1..(n + Len(rest)) /\ Len(rest) \in Nat
                BY <1>7, <1>8, <2>1
            <4>2. i > n => i - n \in 1..Len(rest) /\ i = n + (i - n)
                BY <1>2, <4>1
            <4> QED BY <1>2, <4>1, <4>2
        <3>2. CASE i \in 1..(n - 1)
            BY <1>2, <1>8, <2>1, <3>2 DEF RunnerInv, DuplicatesFlagged
        <3>3. CASE i = n
            <4>1. ~Mocked /\ exec.write # NoWrite /\ exec.write.duplicateOf = 0 /\ steps'[i].write = exec.write
                BY <1>6, <1>8, <2>1, <3>3
            <4>2. exec.outcome = "failed" \/ Fresh(exec.write.args)
                BY <1>1, <4>1 DEF RunnerInv, EnteredSoFar
            <4>3. j \in 1..Len(sent) /\ k \in 1..Len(sent)
                BY <2>1, AtHand
            <4>4. ~Fresh(exec.write.args)
                BY <2>1, <3>3, <4>1, <4>3 DEF Fresh, IsSentWrite
            <4> QED BY <1>6, <1>8, <3>3, <4>2, <4>4
        <3>4. CASE \E m \in 1..Len(rest) : i = n + m
            BY <1>7, <1>8, <2>1, <3>4
        <3> QED BY <3>1, <3>2, <3>3, <3>4
    <2> QED BY <1>1, <2>1 DEF DuplicatesFlagged
<1> QED
    BY <1>10, <1>11, <1>12, <1>13, <1>14, <1>15 DEF RunnerInv

LEMMA RunnerSteps ==
    ASSUME RunnerInv, [RunnerNext]_runnerVars
    PROVE  RunnerInv'
<1>1. CASE UNCHANGED runnerVars
    BY <1>1 DEF runnerVars, RunnerInv, RunnerRecords, AtItsStep, PermittedSoFar, EnteredSoFar, WritesAuthorised,
                BoundWriteChecked, DuplicatesFlagged, Mocked, Permitted, Entered, Fresh
<1> QED
    BY <1>1, ControlSteps, GatesStep, Dispatches, Answers, Heals, SecondAnswers, Records DEF RunnerNext

(* A write goes out only as it was approved or permitted by the flag for its effect, after  *)
(* any heal, and one bound to a state only where that state was just seen (executeStep).     *)
THEOREM WritesAreApproved == RunnerSpec => []WritesStand
<1>1. RunnerInv => WritesStand
    BY DEF RunnerInv, WritesStand
<1> QED
    BY <1>1, RunnerStarts, RunnerSteps, PTL DEF RunnerSpec

(* The second of two equal writes of a run says so in its receipt, also when both are one    *)
(* step's, unless the step failed and the run ends with it (runSkill's writeKeySeen).         *)
THEOREM DuplicatesAreFlagged == RunnerSpec => []DuplicatesFlagged
<1>1. RunnerInv => DuplicatesFlagged
    BY DEF RunnerInv
<1> QED
    BY <1>1, RunnerStarts, RunnerSteps, PTL DEF RunnerSpec

-----------------------------------------------------------------------------
(* The recording of a run: where every value of a trace comes from. *)

(* What is on disk and what waits for it, in one order: the log of a file is its lines and     *)
(* the appends that are queued for it, with a blank where another file's append stands.       *)
Blank == [t |-> "elsewhere"]
End(f) == Len(traces[f]) + Len(queue)
Log(f) == [p \in 1..End(f) |->
              IF p <= Len(traces[f]) THEN traces[f][p]
              ELSE IF queue[p - Len(traces[f])][1] = f THEN queue[p - Len(traces[f])][2] ELSE Blank]
Extended(L, N, r) == [p \in 1..N+1 |-> IF p <= N THEN L[p] ELSE r]

(* One start opened the file up to here; and what the log of a file says is true that far,     *)
(* the calls of S left out.                                                                *)
IsMeta(r) == r.t = "meta"
Response(r) == r.t = "result" /\ r.kind = "ok"
OneStart(L, k) == \A i, j \in 1..k : IsMeta(L[i]) /\ IsMeta(L[j]) => i = j

Begun(L, N) == \A k \in 1..N : L[k].t # "elsewhere" => \E j \in 1..k : IsMeta(L[j])

(* What a record at place k says, where j < k are the places before it.                       *)
AuthoredAfter(L, k, r) ==
    r.t = "prov" /\ r.kind = "authored" =>
       \A j \in 1..k-1 : Response(L[j]) => L[j].value \notin {r.value, "none"}
GroundedAfter(L, k, r) ==
    r.t = "prov" /\ r.kind = "grounded" =>
       \E j \in 1..k-1 : Response(L[j]) /\ L[j].i = r.from /\ L[j].value = r.value
ResultAfter(L, k, r, S) ==
    r.t = "result" /\ r.owner \notin S =>
       \E j \in 1..k-1 : L[j].t = "call" /\ L[j].i = r.i /\ L[j].owner = r.owner
CallAfter(L, k, r) ==
    r.t = "call" => \A j \in 1..k-1 : L[j].t = "call" => L[j].i # r.i
TrueAfter(L, k, r, S) == AuthoredAfter(L, k, r) /\ GroundedAfter(L, k, r) /\ ResultAfter(L, k, r, S)
                         /\ CallAfter(L, k, r)

LogHolds(L, N, S) == Begun(L, N) /\ \A k \in 1..N : OneStart(L, k) => TrueAfter(L, k, L[k], S)

(* The open window w knows its own log: the index of its calls is beyond those recorded, its   *)
(* provenance stands for the recorded responses, and a call under way has its record.          *)
UnderWay(h, w, hs) == hs[h].at = "downstream" /\ hs[h].isRecording /\ hs[h].id = w.id
LeavesStand(L, N, w) ==
    \A leaf \in w.provenance.leaves :
       \E j \in 1..N : Response(L[j]) /\ L[j].i = leaf.call /\ L[j].value = leaf.value
LeavesSuffice(L, N, w) ==
    w.provenance.gaps = {} /\ ~w.provenance.saturated =>
       \A j \in 1..N : Response(L[j]) =>
          L[j].value # "none" /\ \E leaf \in w.provenance.leaves : leaf.value = L[j].value
WindowReads(L, N, w, hs) ==
    /\ \A j \in 1..N : L[j].t = "call" => L[j].i < w.callIndex
    /\ LeavesStand(L, N, w)
    /\ LeavesSuffice(L, N, w)
    /\ \A h \in Handlers : UnderWay(h, w, hs) =>
          \E j \in 1..N : L[j].t = "call" /\ L[j].i = hs[h].i /\ L[j].owner = hs[h].owner
WindowStands(L, N, w, hs) == /\ \E j \in 1..N : IsMeta(L[j])
                             /\ OneStart(L, N) => WindowReads(L, N, w, hs)

RecordKinds == {"note", "call", "grounded", "authored", "unresolved", "ok", "error", "deny", "dry_run", "none"}
                  \cup {load.status : load \in PolicyLoads}
TraceLines == [t : {"meta", "note", "call", "prov", "result"}, i : Int, seq : Nat, owner : Nat,
               kind : RecordKinds, value : Values \cup {"none"}, from : Int]
LiveIndexes == [leaves : SUBSET [value : Values, call : Nat], accepted : Nat, gaps : SUBSET Nat,
                saturated : BOOLEAN]
Windows == [recording : BOOLEAN, path : Nat, seq : Nat, callIndex : Nat, provenance : LiveIndexes,
            id : Nat]
HandlerKept(c, w) ==
    /\ c.at = "naming" => c.path \in Nat
    /\ c.at = "downstream" =>
          c.owner \in Nat /\ c.i \in Nat /\ c.isRecording \in BOOLEAN /\ c.id \in 0..w.id

TraceRecords ==
    /\ policyLoad \in PolicyLoads
    /\ window \in Windows
    /\ handler = [h \in Handlers |-> handler[h]] /\ \A h \in Handlers : HandlerKept(handler[h], window)
    /\ queue \in Seq(Nat \X TraceLines) /\ enqueued \in Nat /\ broken \in BOOLEAN
    /\ traces \in [1..MaxStarts -> Seq(TraceLines)]
    /\ requests \in Nat

LogsHold == \A f \in 1..MaxStarts : LogHolds(Log(f), End(f), straddled)
OpenStands == window.path \in 1..MaxStarts /\ ~broken =>
                 WindowStands(Log(window.path), End(window.path), window, handler)
TraceKept == TraceRecords /\ LogsHold /\ OpenStands

-----------------------------------------------------------------------------
(* Logs that grow by a record, lose a blank, or are cut.                                    *)
LEMMA OneStartGrows ==
    ASSUME NEW N \in Nat, NEW L, NEW r
    PROVE  /\ \A k \in 1..N : OneStart(Extended(L, N, r), k) <=> OneStart(L, k)
           /\ ~IsMeta(r) => (OneStart(Extended(L, N, r), N + 1) <=> OneStart(L, N))
           /\ OneStart(Extended(L, N, r), N + 1) => OneStart(L, N)
           /\ IsMeta(r) /\ OneStart(Extended(L, N, r), N + 1) => \A j \in 1..N : ~IsMeta(L[j])
<1> DEFINE M == Extended(L, N, r)
<1>1. \A p \in 1..N : p \in 1..N+1 /\ M[p] = L[p]
    BY DEF Extended
<1>2. M[N+1] = r /\ N + 1 \in 1..N+1
    BY DEF Extended
<1>3. \A p \in 1..N+1 : p \in 1..N \/ p = N + 1
    OBVIOUS
<1>4. \A k \in 1..N : \A p \in 1..k : p \in 1..N
    OBVIOUS
<1> HIDE DEF M
<1>5. \A k \in 1..N : OneStart(M, k) <=> OneStart(L, k)
    BY <1>1, <1>4 DEF OneStart
<1>6. ~IsMeta(r) => (OneStart(M, N + 1) <=> OneStart(L, N))
    BY <1>1, <1>2, <1>3 DEF OneStart
<1>7. OneStart(M, N + 1) => OneStart(L, N)
    BY <1>1 DEF OneStart
<1>8. IsMeta(r) /\ OneStart(M, N + 1) => \A j \in 1..N : ~IsMeta(L[j])
    <2>1. \A j \in 1..N : j # N + 1
        OBVIOUS
    <2> QED BY <1>1, <1>2, <2>1 DEF OneStart
<1> QED
    BY <1>5, <1>6, <1>7, <1>8 DEF M

LEMMA TrueAfterGrows ==
    ASSUME NEW N \in Nat, NEW L, NEW r, NEW S, NEW k \in 1..N+1, NEW s
    PROVE  TrueAfter(Extended(L, N, r), k, s, S) <=> TrueAfter(L, k, s, S)
<1>1. \A p \in 1..k-1 : Extended(L, N, r)[p] = L[p]
    BY DEF Extended
<1> QED
    BY <1>1 DEF TrueAfter, AuthoredAfter, GroundedAfter, ResultAfter, CallAfter

LEMMA LogGrows ==
    ASSUME NEW N \in Nat, NEW L, NEW r, NEW S, LogHolds(L, N, S),
           r.t \notin {"elsewhere", "meta"} => \E j \in 1..N : IsMeta(L[j]),
           ~IsMeta(r) /\ OneStart(L, N) => TrueAfter(L, N + 1, r, S)
    PROVE  LogHolds(Extended(L, N, r), N + 1, S)
<1> DEFINE M == Extended(L, N, r)
<1>1. \A p \in 1..N : p \in 1..N+1 /\ M[p] = L[p]
    BY DEF Extended
<1>2. M[N+1] = r /\ N + 1 \in 1..N+1
    BY DEF Extended
<1>3. Begun(M, N + 1)
    <2>1. SUFFICES ASSUME NEW k \in 1..N+1, M[k].t # "elsewhere"
                   PROVE  \E j \in 1..k : IsMeta(M[j])
        BY DEF Begun
    <2>2. CASE k \in 1..N
        <3>1. PICK j \in 1..k : IsMeta(L[j])
            BY <1>1, <2>1, <2>2 DEF Begun, LogHolds
        <3> QED BY <1>1, <2>2, <3>1
    <2>3. CASE k = N + 1 /\ IsMeta(r)
        BY <1>2, <2>3
    <2>4. CASE k = N + 1 /\ ~IsMeta(r)
        <3>1. PICK j \in 1..N : IsMeta(L[j])
            BY <1>2, <2>1, <2>4 DEF IsMeta
        <3> QED BY <1>1, <2>4, <3>1
    <2> QED BY <2>2, <2>3, <2>4
<1>4. ASSUME NEW k \in 1..N+1, OneStart(M, k)
      PROVE  TrueAfter(M, k, M[k], S)
    <2>1. CASE k \in 1..N
        BY <1>1, <1>4, <2>1, OneStartGrows, TrueAfterGrows DEF LogHolds
    <2>2. CASE k = N + 1 /\ IsMeta(r)
        BY <1>2, <2>2 DEF IsMeta, TrueAfter, AuthoredAfter, GroundedAfter, ResultAfter, CallAfter
    <2>3. CASE k = N + 1 /\ ~IsMeta(r)
        BY <1>2, <1>4, <2>3, OneStartGrows, TrueAfterGrows
    <2> QED BY <2>1, <2>2, <2>3
<1> QED
    BY <1>3, <1>4 DEF LogHolds

LEMMA LogIsCut ==
    ASSUME NEW N \in Nat, NEW K \in 0..N, NEW L, NEW M, NEW S, LogHolds(L, N, S),
           \A p \in 1..K : M[p] = L[p]
    PROVE  LogHolds(M, K, S)
<1>1. Begun(M, K)
    <2>1. \A k \in 1..K : k \in 1..N /\ \A j \in 1..k : j \in 1..K
        OBVIOUS
    <2> QED BY <2>1 DEF Begun, LogHolds
<1>2. ASSUME NEW k \in 1..K, OneStart(M, k)
      PROVE  TrueAfter(M, k, M[k], S)
    <2>1. k \in 1..N /\ (\A j \in 1..k : M[j] = L[j]) /\ \A j \in 1..k-1 : M[j] = L[j]
        OBVIOUS
    <2>2. OneStart(L, k)
        BY <1>2, <2>1 DEF OneStart
    <2>3. TrueAfter(L, k, M[k], S)
        BY <2>1, <2>2 DEF LogHolds
    <2> QED BY <2>1, <2>3 DEF TrueAfter, AuthoredAfter, GroundedAfter, ResultAfter, CallAfter
<1> QED
    BY <1>1, <1>2 DEF LogHolds

LEMMA LogWidens ==
    ASSUME NEW N, NEW L, NEW S, NEW T, LogHolds(L, N, S), S \subseteq T
    PROVE  LogHolds(L, N, T)
BY DEF LogHolds, TrueAfter, ResultAfter

(* The places of a log without its c-th record, and where they were.                         *)
Without(L, N, c) == [p \in 1..N |-> IF p < c THEN L[p] ELSE L[p + 1]]
Was(c, p) == IF p < c THEN p ELSE p + 1
Is(c, o) == IF o < c THEN o ELSE o - 1

LEMMA PlacesWithout ==
    ASSUME NEW N \in Nat, NEW L, NEW c \in 1..N+1
    PROVE  /\ \A p \in 1..N : Was(c, p) \in 1..N+1 /\ Was(c, p) # c /\ Without(L, N, c)[p] = L[Was(c, p)]
           /\ \A o \in 1..N+1 : o # c => /\ Is(c, o) \in 1..N /\ Was(c, Is(c, o)) = o
                                         /\ Without(L, N, c)[Is(c, o)] = L[o]
           /\ \A k \in 1..N :
                 /\ \A j \in 1..k : Was(c, j) \in 1..Was(c, k) /\ j \in 1..N
                 /\ \A j \in 1..k-1 : Was(c, j) \in 1..Was(c, k)-1 /\ j \in 1..N
                 /\ \A o \in 1..Was(c, k) : o # c => Is(c, o) \in 1..k /\ o \in 1..N+1
                 /\ \A o \in 1..Was(c, k)-1 : o # c => Is(c, o) \in 1..k-1 /\ o \in 1..N+1
<1>1. \A p \in 1..N : Was(c, p) \in 1..N+1 /\ Was(c, p) # c /\ Without(L, N, c)[p] = L[Was(c, p)]
    BY DEF Without, Was
<1>2. \A o \in 1..N+1 : o # c => Is(c, o) \in 1..N /\ Was(c, Is(c, o)) = o
    BY DEF Was, Is
<1>3. ASSUME NEW k \in 1..N
      PROVE  /\ \A j \in 1..k : Was(c, j) \in 1..Was(c, k) /\ j \in 1..N
             /\ \A j \in 1..k-1 : Was(c, j) \in 1..Was(c, k)-1 /\ j \in 1..N
             /\ \A o \in 1..Was(c, k) : o # c => Is(c, o) \in 1..k /\ o \in 1..N+1
             /\ \A o \in 1..Was(c, k)-1 : o # c => Is(c, o) \in 1..k-1 /\ o \in 1..N+1
    BY DEF Was, Is
<1> QED
    BY <1>1, <1>2, <1>3

LEMMA LogSkips ==
    ASSUME NEW N \in Nat, NEW L, NEW c \in 1..N+1, L[c].t = "elsewhere", NEW S, LogHolds(L, N + 1, S)
    PROVE  LogHolds(Without(L, N, c), N, S)
<1> DEFINE M == Without(L, N, c)
<1>1. \A p \in 1..N : Was(c, p) \in 1..N+1 /\ M[p] = L[Was(c, p)]
    BY PlacesWithout
<1>2. ASSUME NEW k \in 1..N
      PROVE  /\ \A j \in 1..k : Was(c, j) \in 1..Was(c, k) /\ j \in 1..N
             /\ \A j \in 1..k-1 : Was(c, j) \in 1..Was(c, k)-1 /\ j \in 1..N
             /\ \A o \in 1..Was(c, k) : o # c => Is(c, o) \in 1..k /\ o \in 1..N+1
             /\ \A o \in 1..Was(c, k)-1 : o # c => Is(c, o) \in 1..k-1 /\ o \in 1..N+1
    BY PlacesWithout
<1>3. \A o \in 1..N+1 : o # c => Was(c, Is(c, o)) = o /\ M[Is(c, o)] = L[o]
    BY PlacesWithout
<1> HIDE DEF M
<1>4. Begun(M, N)
    <2>1. SUFFICES ASSUME NEW k \in 1..N, M[k].t # "elsewhere"
                   PROVE  \E j \in 1..k : IsMeta(M[j])
        BY DEF Begun
    <2>2. PICK o \in 1..Was(c, k) : IsMeta(L[o])
        BY <1>1, <2>1 DEF LogHolds, Begun
    <2>3. o # c
        BY <2>2 DEF IsMeta
    <2>4. Is(c, o) \in 1..k /\ M[Is(c, o)] = L[o]
        BY <1>2, <1>3, <2>2, <2>3
    <2> QED BY <2>2, <2>4
<1>5. ASSUME NEW k \in 1..N, OneStart(M, k)
      PROVE  TrueAfter(M, k, M[k], S)
    <2> DEFINE q == Was(c, k)
    <2>1. OneStart(L, q)
        <3>1. SUFFICES ASSUME NEW i \in 1..q, NEW j \in 1..q, IsMeta(L[i]), IsMeta(L[j])
                       PROVE  i = j
            BY DEF OneStart
        <3>2. i # c /\ j # c
            BY <3>1 DEF IsMeta
        <3>3. Is(c, i) \in 1..k /\ M[Is(c, i)] = L[i] /\ Was(c, Is(c, i)) = i
            BY <1>2, <1>3, <3>2
        <3>4. Is(c, j) \in 1..k /\ M[Is(c, j)] = L[j] /\ Was(c, Is(c, j)) = j
            BY <1>2, <1>3, <3>2
        <3>5. Is(c, i) = Is(c, j)
            BY <1>5, <3>1, <3>3, <3>4 DEF OneStart
        <3> QED BY <3>3, <3>4, <3>5
    <2>2. TrueAfter(L, q, M[k], S)
        BY <1>1, <2>1 DEF LogHolds
    <2>3. \A j \in 1..k-1 : Was(c, j) \in 1..q-1 /\ M[j] = L[Was(c, j)]
        BY <1>1, <1>2
    <2>4. \A o \in 1..q-1 : L[o].t # "elsewhere" => Is(c, o) \in 1..k-1 /\ M[Is(c, o)] = L[o]
        BY <1>2, <1>3
    <2> HIDE DEF q
    <2>5. AuthoredAfter(M, k, M[k])
        BY <2>2, <2>3 DEF TrueAfter, AuthoredAfter
    <2>6. GroundedAfter(M, k, M[k])
        <3>1. SUFFICES ASSUME M[k].t = "prov", M[k].kind = "grounded"
                       PROVE  \E j \in 1..k-1 : Response(M[j]) /\ M[j].i = M[k].from /\ M[j].value = M[k].value
            BY DEF GroundedAfter
        <3>2. PICK o \in 1..q-1 : Response(L[o]) /\ L[o].i = M[k].from /\ L[o].value = M[k].value
            BY <2>2, <3>1 DEF TrueAfter, GroundedAfter
        <3>3. Is(c, o) \in 1..k-1 /\ M[Is(c, o)] = L[o]
            BY <2>4, <3>2 DEF Response
        <3> QED BY <3>2, <3>3
    <2>7. ResultAfter(M, k, M[k], S)
        <3>1. SUFFICES ASSUME M[k].t = "result", M[k].owner \notin S
                       PROVE  \E j \in 1..k-1 : M[j].t = "call" /\ M[j].i = M[k].i /\ M[j].owner = M[k].owner
            BY DEF ResultAfter
        <3>2. PICK o \in 1..q-1 : L[o].t = "call" /\ L[o].i = M[k].i /\ L[o].owner = M[k].owner
            BY <2>2, <3>1 DEF TrueAfter, ResultAfter
        <3>3. Is(c, o) \in 1..k-1 /\ M[Is(c, o)] = L[o]
            BY <2>4, <3>2
        <3> QED BY <3>2, <3>3
    <2>8. CallAfter(M, k, M[k])
        BY <2>2, <2>3 DEF TrueAfter, CallAfter
    <2> QED BY <2>5, <2>6, <2>7, <2>8 DEF TrueAfter
<1> QED
    BY <1>4, <1>5 DEF LogHolds, M

LEMMA WindowSkips ==
    ASSUME NEW N \in Nat, NEW L, NEW c \in 1..N+1, L[c].t = "elsewhere", NEW w, NEW hs,
           WindowStands(L, N + 1, w, hs)
    PROVE  WindowStands(Without(L, N, c), N, w, hs)
<1> DEFINE M == Without(L, N, c)
<1>1. \A p \in 1..N : Was(c, p) \in 1..N+1 /\ M[p] = L[Was(c, p)]
    BY PlacesWithout
<1>2. \A o \in 1..N+1 : L[o].t # "elsewhere" => Is(c, o) \in 1..N /\ Was(c, Is(c, o)) = o /\ M[Is(c, o)] = L[o]
    BY PlacesWithout
<1> HIDE DEF M
<1>3. \E j \in 1..N : IsMeta(M[j])
    BY <1>2 DEF WindowStands, IsMeta
<1>4. ASSUME OneStart(M, N)
      PROVE  WindowReads(M, N, w, hs)
    <2>1. OneStart(L, N + 1)
        <3>1. \A i \in 1..N+1 : IsMeta(L[i]) => /\ Is(c, i) \in 1..N /\ Was(c, Is(c, i)) = i
                                                /\ IsMeta(M[Is(c, i)])
            BY <1>2 DEF IsMeta
        <3> QED BY <1>4, <3>1 DEF OneStart
    <2>2. WindowReads(L, N + 1, w, hs)
        BY <2>1 DEF WindowStands
    <2>3. \A j \in 1..N : M[j].t = "call" => M[j].i < w.callIndex
        BY <1>1, <2>2 DEF WindowReads
    <2>4. LeavesStand(M, N, w)
        BY <1>2, <2>2 DEF WindowReads, LeavesStand, Response
    <2>5. LeavesSuffice(M, N, w)
        BY <1>1, <2>2 DEF WindowReads, LeavesSuffice
    <2>6. ASSUME NEW h \in Handlers, UnderWay(h, w, hs)
          PROVE  \E j \in 1..N : M[j].t = "call" /\ M[j].i = hs[h].i /\ M[j].owner = hs[h].owner
        <3>1. PICK o \in 1..N+1 : L[o].t = "call" /\ L[o].i = hs[h].i /\ L[o].owner = hs[h].owner
            BY <2>2, <2>6 DEF WindowReads
        <3>2. Is(c, o) \in 1..N /\ M[Is(c, o)] = L[o]
            BY <1>2, <3>1
        <3> QED BY <3>1, <3>2
    <2> QED BY <2>3, <2>4, <2>5, <2>6 DEF WindowReads
<1> QED
    BY <1>3, <1>4 DEF WindowStands, M

-----------------------------------------------------------------------------
(* What the steps of a proxy do to a log.                                                   *)
For(f, path, r) == IF path = f THEN r ELSE Blank

LEMMA LogTyped ==
    ASSUME TraceRecords, NEW f \in 1..MaxStarts
    PROVE  /\ traces[f] \in Seq(TraceLines) /\ Len(traces[f]) \in Nat /\ Len(queue) \in Nat
           /\ End(f) \in Nat /\ \A p \in 1..End(f) : Log(f)[p] \in TraceLines \cup {Blank}
<1>1. traces[f] \in Seq(TraceLines) /\ Len(traces[f]) \in Nat /\ Len(queue) \in Nat
    BY DEF TraceRecords
<1>2. End(f) \in Nat
    BY <1>1 DEF End
<1>3. ASSUME NEW p \in 1..End(f)
      PROVE  Log(f)[p] \in TraceLines \cup {Blank}
    <2>1. CASE p <= Len(traces[f])
        <3>1. p \in 1..Len(traces[f])
            BY <1>1, <1>2, <2>1
        <3> QED BY <1>1, <1>3, <2>1, <3>1 DEF Log
    <2>2. CASE ~(p <= Len(traces[f]))
        <3>1. p - Len(traces[f]) \in 1..Len(queue)
            BY <1>1, <1>2, <2>2 DEF End
        <3>2. queue[p - Len(traces[f])] \in Nat \X TraceLines
            BY <3>1 DEF TraceRecords
        <3>3. queue[p - Len(traces[f])][2] \in TraceLines
            BY <3>2
        <3> QED BY <1>3, <2>2, <3>3 DEF Log
    <2> QED BY <2>1, <2>2
<1> QED
    BY <1>1, <1>2, <1>3

LEMMA Unlogged ==
    ASSUME UNCHANGED <<traces, queue>>, NEW f
    PROVE  Log(f)' = Log(f) /\ End(f)' = End(f)
BY DEF Log, End

QueuedOne(path, r) ==
    /\ queue' \in Seq(Nat \X TraceLines) /\ Len(queue') = Len(queue) + 1
    /\ \A p \in 1..Len(queue) : queue'[p] = queue[p]
    /\ queue'[Len(queue) + 1] = <<path, r>>
QueuedTwo(path, r, s) ==
    /\ queue' \in Seq(Nat \X TraceLines) /\ Len(queue') = Len(queue) + 2
    /\ \A p \in 1..Len(queue) : queue'[p] = queue[p]
    /\ queue'[Len(queue) + 1] = <<path, r>>
    /\ queue'[Len(queue) + 2] = <<path, s>>

LEMMA QueuesOne ==
    ASSUME TraceRecords, NEW path \in Nat, NEW r \in TraceLines,
           queue' = queue \o [k \in DOMAIN <<r>> |-> <<path, <<r>>[k]>>]
    PROVE  QueuedOne(path, r)
<1>1. [k \in DOMAIN <<r>> |-> <<path, <<r>>[k]>>] = <<<<path, r>>>>
    OBVIOUS
<1>2. queue \in Seq(Nat \X TraceLines) /\ <<path, r>> \in Nat \X TraceLines
    BY DEF TraceRecords
<1>3. queue' = queue \o <<<<path, r>>>>
    BY <1>1
<1> QED
    BY <1>2, <1>3 DEF QueuedOne

LEMMA QueuesTwo ==
    ASSUME TraceRecords, NEW path \in Nat, NEW r \in TraceLines, NEW s \in TraceLines,
           queue' = queue \o [k \in DOMAIN <<r, s>> |-> <<path, <<r, s>>[k]>>]
    PROVE  QueuedTwo(path, r, s)
<1>1. [k \in DOMAIN <<r, s>> |-> <<path, <<r, s>>[k]>>] = <<<<path, r>>, <<path, s>>>>
    OBVIOUS
<1>2. queue \in Seq(Nat \X TraceLines) /\ <<path, r>> \in Nat \X TraceLines /\ <<path, s>> \in Nat \X TraceLines
    BY DEF TraceRecords
<1>3. queue' = queue \o <<<<path, r>>, <<path, s>>>>
    BY <1>1
<1> QED
    BY <1>2, <1>3 DEF QueuedTwo

LEMMA LoggedOne ==
    ASSUME TraceRecords, NEW f \in 1..MaxStarts, NEW path, NEW r, traces' = traces, QueuedOne(path, r)
    PROVE  /\ End(f)' = End(f) + 1
           /\ Log(f)' = Extended(Log(f), End(f), For(f, path, r))
<1>4. /\ Len(queue') = Len(queue) + 1
      /\ \A p \in 1..Len(queue) : queue'[p] = queue[p]
      /\ queue'[Len(queue) + 1] = <<path, r>>
    BY DEF QueuedOne
<1> DEFINE len == Len(traces[f])
           waiting == Len(queue)
           M == Extended(Log(f), End(f), For(f, path, r))
<1>5. len \in Nat /\ waiting \in Nat /\ End(f) \in Nat /\ End(f) = len + waiting
    BY LogTyped DEF End
<1>5a. \A p \in 1..End(f) : Log(f)[p] = IF p <= len THEN traces[f][p]
                                ELSE IF queue[p - len][1] = f THEN queue[p - len][2] ELSE Blank
    BY DEF Log
<1>6. End(f)' = End(f) + 1
    <2>1. End(f)' = len + (waiting + 1)
        BY <1>4 DEF End
    <2> HIDE DEF len, waiting
    <2> QED BY <1>5, <2>1
<1>6a. \A p \in 1..End(f)+1 : Log(f)'[p] = IF p <= len THEN traces[f][p]
                                 ELSE IF queue'[p - len][1] = f THEN queue'[p - len][2] ELSE Blank
    BY <1>6 DEF Log
<1>4a. /\ \A p \in 1..waiting : queue'[p] = queue[p]
      /\ queue'[waiting + 1] = <<path, r>>
    BY <1>4
<1>7. ASSUME NEW p \in 1..End(f)+1
      PROVE  Log(f)'[p] = M[p]
    <2> HIDE DEF len, waiting
    <2>1. CASE p <= End(f)
        <3>1. M[p] = Log(f)[p] /\ p \in 1..End(f)
            BY <1>5, <2>1 DEF Extended
        <3>2. ~(p <= len) => queue'[p - len] = queue[p - len]
            BY <1>4a, <1>5, <2>1
        <3> QED BY <1>5a, <1>6a, <3>1, <3>2
    <2>2. CASE ~(p <= End(f))
        <3>1. p = End(f) + 1 /\ p - len = waiting + 1 /\ ~(p <= len)
            BY <1>5, <2>2
        <3>2. M[p] = For(f, path, r)
            BY <1>5, <3>1 DEF Extended
        <3> QED BY <1>4a, <1>6a, <3>1, <3>2 DEF For
    <2> QED BY <2>1, <2>2
<1>8. Log(f)' = [p \in 1..End(f)+1 |-> Log(f)'[p]]
    BY <1>6 DEF Log
<1>9. M = [p \in 1..End(f)+1 |-> M[p]]
    BY DEF Extended
<1>10. Log(f)' = M
    BY <1>7, <1>8, <1>9
<1> QED
    BY <1>4a, <1>6, <1>10

LEMMA LoggedTwo ==
    ASSUME TraceRecords, NEW f \in 1..MaxStarts, NEW path, NEW r, NEW s, traces' = traces,
           QueuedTwo(path, r, s)
    PROVE  /\ End(f)' = End(f) + 2
           /\ Log(f)' = Extended(Extended(Log(f), End(f), For(f, path, r)), End(f) + 1, For(f, path, s))
<1>4. /\ Len(queue') = Len(queue) + 2
      /\ \A p \in 1..Len(queue) : queue'[p] = queue[p]
      /\ queue'[Len(queue) + 1] = <<path, r>>
      /\ queue'[Len(queue) + 2] = <<path, s>>
    BY DEF QueuedTwo
<1> DEFINE len == Len(traces[f])
           waiting == Len(queue)
           K == Extended(Log(f), End(f), For(f, path, r))
           M == Extended(K, End(f) + 1, For(f, path, s))
<1>5. len \in Nat /\ waiting \in Nat /\ End(f) \in Nat /\ End(f) = len + waiting
    BY LogTyped DEF End
<1>5a. \A p \in 1..End(f) : Log(f)[p] = IF p <= len THEN traces[f][p]
                                ELSE IF queue[p - len][1] = f THEN queue[p - len][2] ELSE Blank
    BY DEF Log
<1>6. End(f)' = End(f) + 2
    <2>1. End(f)' = len + (waiting + 2)
        BY <1>4 DEF End
    <2> HIDE DEF len, waiting
    <2> QED BY <1>5, <2>1
<1>6a. \A p \in 1..End(f)+2 : Log(f)'[p] = IF p <= len THEN traces[f][p]
                                 ELSE IF queue'[p - len][1] = f THEN queue'[p - len][2] ELSE Blank
    BY <1>6 DEF Log
<1>4a. /\ \A p \in 1..waiting : queue'[p] = queue[p]
      /\ queue'[waiting + 1] = <<path, r>>
      /\ queue'[waiting + 2] = <<path, s>>
    BY <1>4
<1>7. ASSUME NEW p \in 1..End(f)+2
      PROVE  Log(f)'[p] = M[p]
    <2> HIDE DEF len, waiting
    <2>1. CASE p <= End(f)
        <3>1. M[p] = K[p] /\ K[p] = Log(f)[p] /\ p \in 1..End(f)
            BY <1>5, <2>1 DEF Extended
        <3>2. ~(p <= len) => queue'[p - len] = queue[p - len]
            BY <1>4a, <1>5, <2>1
        <3> QED BY <1>5a, <1>6a, <3>1, <3>2
    <2>2. CASE p = End(f) + 1
        <3>1. p - len = waiting + 1 /\ ~(p <= len)
            BY <1>5, <2>2
        <3>2. M[p] = For(f, path, r)
            BY <1>5, <2>2 DEF Extended
        <3> QED BY <1>4a, <1>6a, <3>1, <3>2 DEF For
    <2>3. CASE p = End(f) + 2
        <3>1. p - len = waiting + 2 /\ ~(p <= len)
            BY <1>5, <2>3
        <3>2. M[p] = For(f, path, s)
            BY <1>5, <2>3 DEF Extended
        <3> QED BY <1>4a, <1>6a, <3>1, <3>2 DEF For
    <2> QED BY <1>5, <2>1, <2>2, <2>3
<1>8. Log(f)' = [p \in 1..End(f)+2 |-> Log(f)'[p]]
    BY <1>6 DEF Log
<1>9. M = [p \in 1..(End(f)+1)+1 |-> M[p]] /\ (End(f)+1)+1 = End(f) + 2
    BY <1>5 DEF Extended
<1>10. Log(f)' = M
    BY <1>7, <1>8, <1>9
<1> QED
    BY <1>4a, <1>6, <1>10

(* An append that reaches the disk leaves its file's log as it is, and takes a blank out of    *)
(* every other.                                                                             *)
LEMMA AppendTyped ==
    ASSUME TraceRecords, AppendNext
    PROVE  traces' \in [1..MaxStarts -> Seq(TraceLines)] /\ queue' \in Seq(Nat \X TraceLines)
<1> DEFINE path == Head(queue)[1]
           r == Head(queue)[2]
<1>1. queue \in Seq(Nat \X TraceLines) /\ queue # <<>> /\ traces \in [1..MaxStarts -> Seq(TraceLines)]
    BY DEF TraceRecords, AppendNext
<1>2. r \in TraceLines
    <2>1. Head(queue) \in Nat \X TraceLines
        BY <1>1
    <2> QED BY <2>1
<1>3. traces' = [traces EXCEPT ![path] = Append(traces[path], r)]
    BY DEF AppendNext
<1>4. path \in 1..MaxStarts => Append(traces[path], r) \in Seq(TraceLines)
    BY <1>1, <1>2
<1>5. queue' \in Seq(Nat \X TraceLines)
    BY <1>1 DEF AppendNext
<1> HIDE DEF r, path
<1> QED
    BY <1>1, <1>3, <1>4, <1>5

LEMMA LogAppended ==
    ASSUME TraceRecords, NEW f \in 1..MaxStarts, AppendNext
    PROVE  \/ Log(f)' = Log(f) /\ End(f)' = End(f)
           \/ \E c \in 1..End(f) : /\ Log(f)[c].t = "elsewhere" /\ End(f)' = End(f) - 1
                                  /\ Log(f)' = Without(Log(f), End(f) - 1, c)
<1> DEFINE path == Head(queue)[1]
           r == Head(queue)[2]
           len == Len(traces[f])
<1>1. queue \in Seq(Nat \X TraceLines) /\ queue # <<>> /\ traces \in [1..MaxStarts -> Seq(TraceLines)]
    BY DEF TraceRecords, AppendNext
<1>2. /\ Head(queue) = queue[1] /\ queue[1] \in Nat \X TraceLines
      /\ Tail(queue) \in Seq(Nat \X TraceLines) /\ Len(Tail(queue)) = Len(queue) - 1
      /\ \A p \in 1..Len(queue)-1 : Tail(queue)[p] = queue[p + 1]
      /\ Len(queue) \in Nat /\ Len(queue) >= 1
    BY <1>1
<1>3. r \in TraceLines /\ queue[1] = <<path, r>>
    BY <1>2
<1>4. queue' = Tail(queue) /\ traces' = [traces EXCEPT ![path] = Append(traces[path], r)]
    BY DEF AppendNext
<1>5. traces[f] \in Seq(TraceLines) /\ len \in Nat /\ End(f) \in Nat /\ End(f) = len + Len(queue)
    BY LogTyped DEF End
<1>6. \A p \in 1..End(f) : Log(f)[p] = IF p <= len THEN traces[f][p]
                               ELSE IF queue[p - len][1] = f THEN queue[p - len][2] ELSE Blank
    BY DEF Log
<1>8. CASE path = f
    <2>1. traces'[f] = Append(traces[f], r)
        BY <1>1, <1>4, <1>8
    <2>2. /\ Len(traces'[f]) = len + 1 /\ traces'[f][len + 1] = r
          /\ \A p \in 1..len : traces'[f][p] = traces[f][p]
        BY <1>3, <1>5, <2>1
    <2>3. End(f)' = End(f)
        <3>1. End(f)' = Len(traces'[f]) + Len(queue') /\ Len(queue') = Len(queue) - 1
            BY <1>2, <1>4 DEF End
        <3>2. Len(traces'[f]) = len + 1 /\ len \in Nat /\ Len(queue) \in Nat /\ End(f) = len + Len(queue)
            BY <1>2, <1>5, <2>2
        <3> HIDE DEF len
        <3> QED BY <3>1, <3>2
    <2>4. ASSUME NEW p \in 1..End(f)
          PROVE  Log(f)'[p] = Log(f)[p]
        <3>1. Log(f)'[p] = IF p <= len + 1 THEN traces'[f][p]
                           ELSE IF queue'[p - (len + 1)][1] = f THEN queue'[p - (len + 1)][2] ELSE Blank
            BY <2>2, <2>3 DEF Log
        <3>2. CASE p <= len
            BY <1>5, <1>6, <2>2, <3>1, <3>2
        <3>3. CASE p = len + 1
            <4>1. Log(f)[p] = r
                BY <1>3, <1>5, <1>6, <1>8, <3>3
            <4> QED BY <1>5, <2>2, <3>1, <3>3, <4>1
        <3>4. CASE p > len + 1
            <4>1. p - (len + 1) \in 1..Len(queue)-1 /\ p - (len + 1) + 1 = p - len /\ ~(p <= len)
                BY <1>2, <1>5, <3>4
            <4>2. queue'[p - (len + 1)] = queue[p - len]
                BY <1>2, <1>4, <4>1
            <4> QED BY <1>5, <1>6, <3>1, <3>4, <4>1, <4>2
        <3> QED BY <1>5, <3>2, <3>3, <3>4
    <2>5. Log(f)' = Log(f)
        <3>1. Log(f)' = [p \in 1..End(f) |-> Log(f)'[p]] /\ Log(f) = [p \in 1..End(f) |-> Log(f)[p]]
            BY <2>3 DEF Log
        <3> QED BY <2>4, <3>1
    <2> QED BY <2>3, <2>5
<1>9. CASE path # f
    <2>1. traces'[f] = traces[f]
        BY <1>1, <1>4, <1>9
    <2>2. End(f)' = End(f) - 1 /\ len + 1 \in 1..End(f)
        <3>1. End(f)' = Len(traces'[f]) + Len(queue') /\ Len(queue') = Len(queue) - 1 /\ Len(queue) >= 1
            BY <1>2, <1>4 DEF End
        <3>2. Len(traces'[f]) = len /\ len \in Nat /\ Len(queue) \in Nat /\ End(f) = len + Len(queue)
            BY <1>2, <1>5, <2>1
        <3> HIDE DEF len
        <3> QED BY <3>1, <3>2
    <2>3. Log(f)[len + 1].t = "elsewhere"
        <3>1. /\ ~(len + 1 <= len) /\ (len + 1) - len = 1
            BY <1>5
        <3>2. Log(f)[len + 1] = Blank
            BY <1>3, <1>6, <1>9, <2>2, <3>1
        <3> QED BY <3>2 DEF Blank
    <2>4. ASSUME NEW p \in 1..End(f)-1
          PROVE  Log(f)'[p] = Without(Log(f), End(f) - 1, len + 1)[p]
        <3>1. Log(f)'[p] = IF p <= len THEN traces[f][p]
                           ELSE IF queue'[p - len][1] = f THEN queue'[p - len][2] ELSE Blank
            BY <2>1, <2>2 DEF Log
        <3>2. Without(Log(f), End(f) - 1, len + 1)[p] = IF p < len + 1 THEN Log(f)[p] ELSE Log(f)[p + 1]
            BY DEF Without
        <3>3. CASE p <= len
            <4>1. p < len + 1 /\ p \in 1..End(f)
                BY <1>5, <3>3
            <4> QED BY <1>6, <3>1, <3>2, <3>3, <4>1
        <3>4. CASE p > len
            <4>1. /\ ~(p < len + 1) /\ p + 1 \in 1..End(f) /\ ~(p + 1 <= len) /\ ~(p <= len)
                  /\ p - len \in 1..Len(queue)-1 /\ (p + 1) - len = (p - len) + 1
                BY <1>2, <1>5, <3>4
            <4>2. queue'[p - len] = queue[(p + 1) - len]
                BY <1>2, <1>4, <4>1
            <4> QED BY <1>6, <3>1, <3>2, <4>1, <4>2
        <3> QED BY <1>5, <3>3, <3>4
    <2>5. Log(f)' = Without(Log(f), End(f) - 1, len + 1)
        <3>1. Log(f)' = [p \in 1..End(f)-1 |-> Log(f)'[p]]
            BY <2>2 DEF Log
        <3>2. Without(Log(f), End(f) - 1, len + 1)
                 = [p \in 1..End(f)-1 |-> Without(Log(f), End(f) - 1, len + 1)[p]]
            BY DEF Without
        <3> QED BY <2>4, <3>1, <3>2
    <2> QED BY <2>2, <2>3, <2>5
<1> QED
    BY <1>8, <1>9

LEMMA LogCut ==
    ASSUME TraceRecords, NEW f \in 1..MaxStarts, traces' = traces, queue' = <<>>
    PROVE  End(f)' \in 0..End(f) /\ \A p \in 1..End(f)' : Log(f)'[p] = Log(f)[p]
<1> DEFINE len == Len(traces[f])
           waiting == Len(queue)
<1>1. len \in Nat /\ waiting \in Nat /\ End(f) = len + waiting
    BY LogTyped DEF End
<1>2. End(f)' = len
    <2>1. Len(queue') = 0
        OBVIOUS
    <2>2. End(f)' = len + 0
        BY <2>1 DEF End
    <2> HIDE DEF len
    <2> QED BY <1>1, <2>2
<1>3. \A p \in 1..End(f)' : Log(f)'[p] = IF p <= len THEN traces[f][p]
                               ELSE IF queue'[p - len][1] = f THEN queue'[p - len][2] ELSE Blank
    BY DEF Log
<1>4. \A p \in 1..End(f) : Log(f)[p] = IF p <= len THEN traces[f][p]
                               ELSE IF queue[p - len][1] = f THEN queue[p - len][2] ELSE Blank
    BY DEF Log
<1> HIDE DEF len, waiting
<1>5. \A p \in 1..End(f)' : p \in 1..End(f) /\ p <= len
    BY <1>1, <1>2
<1> QED
    BY <1>1, <1>2, <1>3, <1>4, <1>5

(* The open window, as its log grows by a record r: what it knows of r, and of the calls that   *)
(* are under way.                                                                           *)
Follows(w, w2, r) ==
    /\ w.callIndex \in Nat /\ w2.callIndex \in {w.callIndex, w.callIndex + 1}
    /\ r.t = "call" => r.i < w2.callIndex
    /\ \A leaf \in w2.provenance.leaves :
          leaf \in w.provenance.leaves \/ (Response(r) /\ r.i = leaf.call /\ r.value = leaf.value)
    /\ w2.provenance.gaps = {} /\ ~w2.provenance.saturated =>
          /\ w.provenance.gaps = {} /\ ~w.provenance.saturated
          /\ w.provenance.leaves \subseteq w2.provenance.leaves
          /\ Response(r) => r.value # "none" /\ \E leaf \in w2.provenance.leaves : leaf.value = r.value
Carried(w, w2, hs, hs2, r) ==
    \A h \in Handlers : UnderWay(h, w2, hs2) =>
       \/ UnderWay(h, w, hs) /\ hs2[h].i = hs[h].i /\ hs2[h].owner = hs[h].owner
       \/ r.t = "call" /\ r.i = hs2[h].i /\ r.owner = hs2[h].owner

LEMMA WindowGrows ==
    ASSUME NEW N \in Nat, NEW L, NEW r, ~IsMeta(r), NEW w, NEW w2, NEW hs, NEW hs2,
           WindowStands(L, N, w, hs),
           \A j \in 1..N : L[j].t = "call" => L[j].i \in Int,
           Follows(w, w2, r), Carried(w, w2, hs, hs2, r)
    PROVE  WindowStands(Extended(L, N, r), N + 1, w2, hs2)
<1> DEFINE M == Extended(L, N, r)
<1>1. \A p \in 1..N : p \in 1..N+1 /\ M[p] = L[p]
    BY DEF Extended
<1>2. M[N+1] = r /\ N + 1 \in 1..N+1
    BY DEF Extended
<1>3. \A p \in 1..N+1 : p \in 1..N \/ p = N + 1
    OBVIOUS
<1>4. OneStart(M, N + 1) => OneStart(L, N)
    BY OneStartGrows
<1> HIDE DEF M
<1>5. \E j \in 1..N+1 : IsMeta(M[j])
    BY <1>1 DEF WindowStands
<1>6. ASSUME OneStart(M, N + 1)
      PROVE  WindowReads(M, N + 1, w2, hs2)
    <2>1. WindowReads(L, N, w, hs)
        BY <1>4, <1>6 DEF WindowStands
    <2>2. ASSUME NEW j \in 1..N+1, M[j].t = "call"
          PROVE  M[j].i < w2.callIndex
        <3>1. CASE j \in 1..N
            <4>1. L[j].i \in Int /\ L[j].i < w.callIndex /\ M[j] = L[j]
                BY <1>1, <2>1, <2>2, <3>1 DEF WindowReads
            <4> QED BY <4>1 DEF Follows
        <3> QED BY <1>2, <1>3, <2>2, <3>1 DEF Follows
    <2>3. LeavesStand(M, N + 1, w2)
        <3>1. SUFFICES ASSUME NEW leaf \in w2.provenance.leaves
                       PROVE  \E j \in 1..N+1 : Response(M[j]) /\ M[j].i = leaf.call /\ M[j].value = leaf.value
            BY DEF LeavesStand
        <3>2. CASE leaf \in w.provenance.leaves
            BY <1>1, <2>1, <3>2 DEF WindowReads, LeavesStand
        <3> QED BY <1>2, <3>2 DEF Follows
    <2>4. LeavesSuffice(M, N + 1, w2)
        BY <1>1, <1>2, <1>3, <2>1 DEF WindowReads, LeavesSuffice, Follows
    <2>5. ASSUME NEW h \in Handlers, UnderWay(h, w2, hs2)
          PROVE  \E j \in 1..N+1 : M[j].t = "call" /\ M[j].i = hs2[h].i /\ M[j].owner = hs2[h].owner
        <3>1. CASE UnderWay(h, w, hs) /\ hs2[h].i = hs[h].i /\ hs2[h].owner = hs[h].owner
            BY <1>1, <2>1, <3>1 DEF WindowReads
        <3> QED BY <1>2, <2>5, <3>1 DEF Carried
    <2> QED BY <2>2, <2>3, <2>4, <2>5 DEF WindowReads
<1> QED
    BY <1>5, <1>6 DEF WindowStands, M

-----------------------------------------------------------------------------
(* What write() leaves: the logs of every file, and that of the window's.                     *)
LEMMA WriteOne ==
    ASSUME TraceKept, NEW r \in TraceLines, ~IsMeta(r), write(<<r>>), traces' = traces,
           NEW S, straddled \subseteq S,
           window.path \in 1..MaxStarts /\ ~broken /\ OneStart(Log(window.path), End(window.path)) =>
              TrueAfter(Log(window.path), End(window.path) + 1, r, S)
    PROVE  /\ queue' \in Seq(Nat \X TraceLines) /\ enqueued' \in Nat
           /\ \A f \in 1..MaxStarts : LogHolds(Log(f)', End(f)', S)
           /\ \A f \in 1..MaxStarts : f = window.path /\ ~broken =>
                 End(f)' = End(f) + 1 /\ Log(f)' = Extended(Log(f), End(f), r)
<1> DEFINE path == window.path
<1>0. TraceRecords /\ path \in Nat /\ enqueued \in Nat /\ broken \in BOOLEAN
    BY DEF TraceKept, TraceRecords, Windows
<1>1. \A f \in 1..MaxStarts : LogHolds(Log(f), End(f), S)
    BY LogWidens DEF TraceKept, LogsHold
<1>2. CASE path = 0 \/ broken
    <2>1. queue' = queue /\ enqueued' = enqueued
        BY <1>2 DEF write, Chain
    <2>2. \A f \in 1..MaxStarts : Log(f)' = Log(f) /\ End(f)' = End(f)
        BY <2>1, Unlogged
    <2>3. ~(path \in 1..MaxStarts /\ ~broken)
        BY <1>2
    <2> QED BY <1>0, <1>1, <2>1, <2>2, <2>3 DEF TraceRecords
<1>3. CASE path # 0 /\ ~broken
    <2>1. queue' = queue \o [k \in DOMAIN <<r>> |-> <<path, <<r>>[k]>>] /\ enqueued' = enqueued + 1
        BY <1>3 DEF write, Chain
    <2>2. QueuedOne(path, r)
        BY <1>0, <2>1, QueuesOne
    <2>3. \A f \in 1..MaxStarts : /\ End(f)' = End(f) + 1 /\ End(f) \in Nat
                                  /\ Log(f)' = Extended(Log(f), End(f), For(f, path, r))
        BY <1>0, <2>2, LoggedOne, LogTyped
    <2>4. ASSUME NEW f \in 1..MaxStarts
          PROVE  LogHolds(Log(f)', End(f)', S)
        <3>1. CASE f = path
            <4>1. For(f, path, r) = r
                BY <3>1 DEF For
            <4>2. \E j \in 1..End(f) : IsMeta(Log(f)[j])
                BY <1>3, <3>1 DEF TraceKept, OpenStands, WindowStands
            <4>3. ~IsMeta(r) /\ OneStart(Log(f), End(f)) => TrueAfter(Log(f), End(f) + 1, r, S)
                BY <1>3, <3>1
            <4>4. LogHolds(Extended(Log(f), End(f), r), End(f) + 1, S)
                BY <1>1, <2>3, <4>2, <4>3, LogGrows
            <4> QED BY <2>3, <4>1, <4>4
        <3>2. CASE f # path
            <4>1. For(f, path, r) = Blank
                BY <3>2 DEF For
            <4>2. TrueAfter(Log(f), End(f) + 1, Blank, S) /\ Blank.t = "elsewhere"
                BY DEF Blank, TrueAfter, AuthoredAfter, GroundedAfter, ResultAfter, CallAfter
            <4>3. LogHolds(Extended(Log(f), End(f), Blank), End(f) + 1, S)
                BY <1>1, <2>3, <4>2, LogGrows
            <4> QED BY <2>3, <4>1, <4>3
        <3> QED BY <3>1, <3>2
    <2>5. \A f \in 1..MaxStarts : f = path => Log(f)' = Extended(Log(f), End(f), r)
        BY <2>3 DEF For
    <2> QED BY <1>0, <2>1, <2>2, <2>3, <2>4, <2>5 DEF QueuedOne
<1> QED
    BY <1>2, <1>3

LEMMA WriteTwo ==
    ASSUME TraceKept, NEW r \in TraceLines, ~IsMeta(r), NEW s \in TraceLines, ~IsMeta(s),
           write(<<r, s>>), traces' = traces,
           window.path \in 1..MaxStarts /\ ~broken /\ OneStart(Log(window.path), End(window.path)) =>
              /\ TrueAfter(Log(window.path), End(window.path) + 1, r, straddled)
              /\ TrueAfter(Extended(Log(window.path), End(window.path), r), End(window.path) + 2, s, straddled)
    PROVE  /\ queue' \in Seq(Nat \X TraceLines) /\ enqueued' \in Nat
           /\ \A f \in 1..MaxStarts : LogHolds(Log(f)', End(f)', straddled)
           /\ \A f \in 1..MaxStarts : f = window.path /\ ~broken =>
                 /\ End(f)' = (End(f) + 1) + 1
                 /\ Log(f)' = Extended(Extended(Log(f), End(f), r), End(f) + 1, s)
<1> DEFINE path == window.path
           S == straddled
<1>0. TraceRecords /\ path \in Nat /\ enqueued \in Nat /\ broken \in BOOLEAN
    BY DEF TraceKept, TraceRecords, Windows
<1>1. \A f \in 1..MaxStarts : LogHolds(Log(f), End(f), S)
    BY DEF TraceKept, LogsHold
<1>2. CASE path = 0 \/ broken
    <2>1. queue' = queue /\ enqueued' = enqueued
        BY <1>2 DEF write, Chain
    <2>2. \A f \in 1..MaxStarts : Log(f)' = Log(f) /\ End(f)' = End(f)
        BY <2>1, Unlogged
    <2>3. ~(path \in 1..MaxStarts /\ ~broken)
        BY <1>2
    <2> QED BY <1>0, <1>1, <2>1, <2>2, <2>3 DEF TraceRecords
<1>3. CASE path # 0 /\ ~broken
    <2>1. queue' = queue \o [k \in DOMAIN <<r, s>> |-> <<path, <<r, s>>[k]>>] /\ enqueued' = enqueued + 2
        BY <1>3 DEF write, Chain
    <2>2. QueuedTwo(path, r, s)
        BY <1>0, <2>1, QueuesTwo
    <2>3. \A f \in 1..MaxStarts :
              /\ End(f)' = (End(f) + 1) + 1 /\ End(f) \in Nat /\ End(f) + 1 \in Nat
              /\ Log(f)' = Extended(Extended(Log(f), End(f), For(f, path, r)), End(f) + 1, For(f, path, s))
        <3>1. \A f \in 1..MaxStarts : End(f)' = End(f) + 2 /\ End(f) \in Nat
            BY <1>0, <2>2, LoggedTwo, LogTyped
        <3>2. \A f \in 1..MaxStarts :
                 Log(f)' = Extended(Extended(Log(f), End(f), For(f, path, r)), End(f) + 1, For(f, path, s))
            BY <1>0, <2>2, LoggedTwo
        <3> QED BY <3>1, <3>2
    <2>4. ASSUME NEW f \in 1..MaxStarts
          PROVE  LogHolds(Log(f)', End(f)', S)
        <3> DEFINE L == Log(f)
                   N == End(f)
        <3>1. CASE f = path
            <4>1. For(f, path, r) = r /\ For(f, path, s) = s
                BY <3>1 DEF For
            <4>2. \E j \in 1..N : IsMeta(L[j])
                BY <1>3, <3>1 DEF TraceKept, OpenStands, WindowStands
            <4>3. OneStart(L, N) => TrueAfter(L, N + 1, r, S) /\ TrueAfter(Extended(L, N, r), N + 2, s, S)
                BY <1>3, <3>1
            <4>4. N \in Nat /\ N + 1 \in Nat /\ (N + 1) + 1 = N + 2
                BY <2>3
            <4>5. LogHolds(L, N, S)
                BY <1>1
            <4> HIDE DEF L, N, S
            <4>6. LogHolds(Extended(L, N, r), N + 1, S)
                BY <4>2, <4>3, <4>4, <4>5, LogGrows
            <4>7. \E j \in 1..N+1 : IsMeta(Extended(L, N, r)[j])
                BY <4>2, <4>4 DEF Extended
            <4>8. OneStart(Extended(L, N, r), N + 1) => TrueAfter(Extended(L, N, r), (N + 1) + 1, s, S)
                BY <4>3, <4>4, OneStartGrows
            <4>9. LogHolds(Extended(Extended(L, N, r), N + 1, s), (N + 1) + 1, S)
                BY <4>4, <4>6, <4>7, <4>8, LogGrows
            <4> QED BY <2>3, <4>1, <4>9 DEF L, N
        <3>2. CASE f # path
            <4>1. For(f, path, r) = Blank /\ For(f, path, s) = Blank
                BY <3>2 DEF For
            <4>2. Blank.t = "elsewhere" /\ \A K, k : TrueAfter(K, k, Blank, S)
                BY DEF Blank, TrueAfter, AuthoredAfter, GroundedAfter, ResultAfter, CallAfter
            <4>3. LogHolds(L, N, S) /\ N \in Nat /\ N + 1 \in Nat
                BY <1>1, <2>3
            <4> HIDE DEF L, N, S
            <4>4. LogHolds(Extended(L, N, Blank), N + 1, S)
                BY <4>2, <4>3, LogGrows
            <4>5. LogHolds(Extended(Extended(L, N, Blank), N + 1, Blank), (N + 1) + 1, S)
                BY <4>2, <4>3, <4>4, LogGrows
            <4> QED BY <2>3, <4>1, <4>5 DEF L, N
        <3> QED BY <3>1, <3>2
    <2>5. \A f \in 1..MaxStarts : f = path =>
              /\ End(f)' = (End(f) + 1) + 1
              /\ Log(f)' = Extended(Extended(Log(f), End(f), r), End(f) + 1, s)
        BY <2>3 DEF For
    <2>6. enqueued' \in Nat
        BY <1>0, <2>1
    <2> QED BY <2>2, <2>4, <2>5, <2>6 DEF QueuedTwo
<1> QED
    BY <1>2, <1>3

-----------------------------------------------------------------------------
(* The steps.                                                                               *)
LEMMA GreatestNumber ==
    ASSUME NEW N \in Nat, NEW T \in SUBSET (0..N), T # {}
    PROVE  Max(T) \in T
<1> DEFINE D == {N - t : t \in T}
<1>1. D \in SUBSET Nat /\ D # {}
    <2>1. \A t \in T : N - t \in Nat
        <3>1. \A t \in T : t \in 0..N
            OBVIOUS
        <3> QED BY <3>1
    <2> QED BY <2>1
<1>2. PICK d \in D : \A e \in D : ~(<<e, d>> \in OpToRel(<, Nat))
    <2>1. IsWellFoundedOn(OpToRel(<, Nat), Nat)
        BY NatLessThanWellFounded
    <2> HIDE DEF D
    <2> QED BY <1>1, <2>1, WFMin, ZenonT(60)
<1>3. \A e \in D : ~(e < d)
    BY <1>1, <1>2 DEF OpToRel
<1>4. PICK g \in T : d = N - g
    BY <1>2
<1>5. \A t \in T : N - t \in D /\ t \in 0..N
    OBVIOUS
<1>6. \A t \in T : g >= t
    BY <1>3, <1>4, <1>5
<1> QED
    BY <1>4, <1>6, ZenonT(30) DEF Max

LEMMA TraceStarts ==
    ASSUME RecordingInit
    PROVE  TraceKept
<1> USE DEF RecordingInit, RecordingInitWith
<1>1. TraceRecords
    <2>1. window \in Windows
        BY DEF Closed, Windows, LiveProvenanceIndex, LiveIndexes
    <2>2. traces \in [1..MaxStarts -> Seq(TraceLines)] /\ queue \in Seq(Nat \X TraceLines)
        OBVIOUS
    <2> QED BY <2>1, <2>2 DEF TraceRecords, HandlerKept, HandlerIdle
<1>2. ASSUME NEW f \in 1..MaxStarts
      PROVE  LogHolds(Log(f), End(f), straddled)
    <2>1. Len(traces[f]) = 0 /\ Len(queue) = 0
        OBVIOUS
    <2>2. End(f) = 0
        BY <2>1 DEF End
    <2> QED BY <2>2 DEF LogHolds, Begun
<1>3. OpenStands
    BY DEF OpenStands, Closed
<1> QED
    BY <1>1, <1>2, <1>3 DEF TraceKept, LogsHold

LEMMA WindowQuiet ==
    ASSUME NEW N, NEW L, NEW w, NEW hs, NEW hs2, WindowStands(L, N, w, hs),
           \A h \in Handlers : UnderWay(h, w, hs2) =>
              UnderWay(h, w, hs) /\ hs2[h].i = hs[h].i /\ hs2[h].owner = hs[h].owner
    PROVE  WindowStands(L, N, w, hs2)
BY DEF WindowStands, WindowReads

(* A handler that goes on to where it is not under way.                                     *)
LEMMA QuietHandler ==
    ASSUME NEW h \in Handlers, NEW w, NEW c, c.at = "downstream" => ~c.isRecording,
           handler = [g \in Handlers |-> handler[g]],
           handler' = handler \/ handler' = [handler EXCEPT ![h] = c]
    PROVE  /\ handler' = [g \in Handlers |-> handler'[g]]
           /\ \A g \in Handlers : handler'[g] = handler[g] \/ (g = h /\ handler'[g] = c)
           /\ \A g \in Handlers : UnderWay(g, w, handler') =>
                 UnderWay(g, w, handler) /\ handler'[g].i = handler[g].i /\ handler'[g].owner = handler[g].owner
<1>1. handler' = [g \in Handlers |-> handler'[g]]
    <2>1. CASE handler' = [handler EXCEPT ![h] = c]
        <3>1. handler' = [g \in Handlers |-> IF g = h THEN c ELSE handler[g]]
            BY <2>1
        <3> QED BY <3>1
    <2> QED BY <2>1
<1>2. \A g \in Handlers : handler'[g] = handler[g] \/ (g = h /\ handler'[g] = c)
    OBVIOUS
<1> QED
    BY <1>1, <1>2 DEF UnderWay

(* Steps that write nothing and leave the window as it is, or close it.                       *)
LEMMA QuietSteps ==
    ASSUME TraceKept, NEW h \in Handlers,
           UNCHANGED <<policyLoad, queue, traces, enqueued, broken, straddled>>, requests' \in Nat,
           window' = window \/ window' = [window EXCEPT !.recording = FALSE, !.path = 0],
           NEW c, c.at = "downstream" => ~c.isRecording, HandlerKept(c, window),
           handler' = handler \/ handler' = [handler EXCEPT ![h] = c]
    PROVE  TraceKept'
<1>1. TraceRecords /\ handler = [g \in Handlers |-> handler[g]] /\ window \in Windows
    BY DEF TraceKept, TraceRecords
<1>2. window' \in Windows /\ window'.id = window.id /\ (window' = window \/ window'.path = 0)
    <2>1. CASE window' = window
        BY <1>1, <2>1
    <2>2. CASE window' = [window EXCEPT !.recording = FALSE, !.path = 0]
        BY <1>1, <2>2 DEF Windows
    <2> QED BY <2>1, <2>2
<1>3. /\ handler' = [g \in Handlers |-> handler'[g]]
      /\ \A g \in Handlers : handler'[g] = handler[g] \/ (g = h /\ handler'[g] = c)
      /\ \A g \in Handlers : UnderWay(g, window, handler') =>
           UnderWay(g, window, handler) /\ handler'[g].i = handler[g].i /\ handler'[g].owner = handler[g].owner
    BY <1>1, QuietHandler
<1>4. \A g \in Handlers : HandlerKept(handler'[g], window')
    BY <1>1, <1>2, <1>3 DEF TraceRecords, HandlerKept
<1>5. TraceRecords'
    BY <1>1, <1>2, <1>3, <1>4 DEF TraceRecords
<1>6. LogsHold'
    <2>1. \A f \in 1..MaxStarts : Log(f)' = Log(f) /\ End(f)' = End(f)
        BY Unlogged
    <2> QED BY <2>1 DEF TraceKept, LogsHold
<1>7. OpenStands'
    <2>1. CASE window' = window
        <3>1. \A f : Log(f)' = Log(f) /\ End(f)' = End(f)
            BY Unlogged
        <3>2. SUFFICES ASSUME NEW f \in 1..MaxStarts, f = window.path, ~broken
                       PROVE  WindowStands(Log(f)', End(f)', window, handler')
            BY <2>1 DEF OpenStands
        <3>3. WindowStands(Log(f), End(f), window, handler)
            BY <3>2 DEF TraceKept, OpenStands
        <3>4. WindowStands(Log(f), End(f), window, handler')
            BY <1>3, <3>3, WindowQuiet
        <3> QED BY <3>1, <3>4
    <2>2. CASE window'.path = 0
        <3>1. ~(window'.path \in 1..MaxStarts)
            BY <2>2
        <3> QED BY <3>1 DEF OpenStands
    <2> QED BY <1>2, <2>1, <2>2
<1> QED
    BY <1>5, <1>6, <1>7 DEF TraceKept

LEMMA Waits ==
    ASSUME TraceKept, NEW h \in Handlers,
           StartRecording(h) \/ nextTracePath(h) \/ Opened(h) \/ StopRecording(h) \/ CloseWindow(h)
    PROVE  TraceKept'
<1>0. requests \in Nat /\ enqueued \in Nat /\ window \in Windows
    BY DEF TraceKept, TraceRecords
<1>1. CASE StartRecording(h)
    <2> DEFINE c == [at |-> "listing"]
    <2>1. c.at # "downstream" /\ (c.at = "naming" => c.path \in Nat) /\ requests' \in Nat
        BY <1>0, <1>1 DEF StartRecording, NewRequest
    <2>2. handler' = handler \/ handler' = [handler EXCEPT ![h] = c]
        BY <1>1 DEF StartRecording
    <2>3. UNCHANGED <<policyLoad, queue, traces, enqueued, broken, straddled>> /\ window' = window
        BY <1>1 DEF StartRecording
    <2> HIDE DEF c
    <2> QED BY <2>1, <2>2, <2>3, QuietSteps DEF HandlerKept
<1>2. CASE nextTracePath(h)
    <2> DEFINE T == {0} \cup {f \in DOMAIN traces : traces[f] # <<>>}
               c == [at |-> "naming", path |-> 1 + Max(T)]
    <2>0. Max(T) \in Nat
        <3>1. T \in SUBSET (0..MaxStarts) /\ T # {} /\ MaxStarts \in Nat
            BY RecordingAssumption DEF TraceKept, TraceRecords
        <3> HIDE DEF T
        <3>2. Max(T) \in 0..MaxStarts
            BY <3>1, GreatestNumber
        <3> QED BY <3>2
    <2>1. c.at # "downstream" /\ c.path \in Nat /\ requests' \in Nat
        BY <1>0, <1>2, <2>0 DEF nextTracePath
    <2>2. handler' = [handler EXCEPT ![h] = c]
        BY <1>2 DEF nextTracePath
    <2>3. UNCHANGED <<policyLoad, queue, traces, enqueued, broken, straddled>> /\ window' = window
        BY <1>2 DEF nextTracePath
    <2> HIDE DEF c
    <2> QED BY <2>1, <2>2, <2>3, QuietSteps DEF HandlerKept
<1>3. CASE Opened(h) \/ CloseWindow(h)
    <2> DEFINE c == HandlerIdle
    <2>1. c.at # "downstream" /\ c.at # "naming" /\ requests' \in Nat
        BY <1>0, <1>3 DEF HandlerIdle, Opened, CloseWindow
    <2>2. handler' = [handler EXCEPT ![h] = c]
        BY <1>3 DEF Opened, CloseWindow, Return
    <2>3. /\ UNCHANGED <<policyLoad, queue, traces, enqueued, broken, straddled>>
          /\ window' = window \/ window' = [window EXCEPT !.recording = FALSE, !.path = 0]
        BY <1>3 DEF Opened, CloseWindow
    <2> HIDE DEF c
    <2> QED BY <2>1, <2>2, <2>3, QuietSteps DEF HandlerKept
<1>4. CASE StopRecording(h)
    <2> DEFINE c == [at |-> "flushing", until |-> enqueued]
    <2>1. c.at # "downstream" /\ c.at # "naming" /\ requests' \in Nat
        BY <1>0, <1>4 DEF StopRecording, NewRequest
    <2>2. handler' = [handler EXCEPT ![h] = c]
        BY <1>4 DEF StopRecording
    <2>3. UNCHANGED <<policyLoad, queue, traces, enqueued, broken, straddled>> /\ window' = window
        BY <1>4 DEF StopRecording
    <2> HIDE DEF c
    <2> QED BY <2>1, <2>2, <2>3, QuietSteps DEF HandlerKept
<1> QED
    BY <1>1, <1>2, <1>3, <1>4

(* The calls of a log have numbers.                                                          *)
LEMMA CallsAreNumbered ==
    ASSUME TraceRecords, NEW f \in 1..MaxStarts, NEW j \in 1..End(f), Log(f)[j].t = "call"
    PROVE  Log(f)[j].i \in Int
<1>1. Log(f)[j] \in TraceLines \cup {Blank}
    BY LogTyped
<1>2. Log(f)[j] \in TraceLines
    BY <1>1 DEF Blank
<1> QED
    BY <1>2 DEF TraceLines

LEMMA Notes ==
    ASSUME TraceKept, NEW h \in Handlers, Note(h)
    PROVE  TraceKept'
<1> DEFINE r == Record("note", -1, window.seq, 0, "note", "none")
<1>0. TraceRecords /\ window \in Windows /\ requests \in Nat
    BY DEF TraceKept, TraceRecords
<1>1. r \in TraceLines /\ r.t = "note"
    BY <1>0 DEF Record, TraceLines, RecordKinds, Windows
<1>2. /\ write(<<r>>) /\ traces' = traces /\ handler' = handler /\ straddled' = straddled /\ broken' = broken
      /\ window' = [window EXCEPT !.seq = @ + 1] /\ requests' = requests + 1 /\ policyLoad' = policyLoad
    BY DEF Note, NewRequest
<1> HIDE DEF r
<1>3. \A L, k : TrueAfter(L, k, r, straddled)
    BY <1>1 DEF TrueAfter, AuthoredAfter, GroundedAfter, ResultAfter, CallAfter
<1>4. /\ queue' \in Seq(Nat \X TraceLines) /\ enqueued' \in Nat
      /\ \A f \in 1..MaxStarts : LogHolds(Log(f)', End(f)', straddled)
      /\ \A f \in 1..MaxStarts : f = window.path /\ ~broken =>
            End(f)' = End(f) + 1 /\ Log(f)' = Extended(Log(f), End(f), r)
    <2>1. ~IsMeta(r)
        BY <1>1 DEF IsMeta
    <2> QED BY <1>1, <1>2, <1>3, <2>1, WriteOne
<1>5. /\ window' \in Windows /\ window'.path = window.path /\ window'.id = window.id
      /\ window'.callIndex = window.callIndex /\ window'.provenance = window.provenance
    BY <1>0, <1>2 DEF Windows
<1>6. TraceRecords'
    BY <1>0, <1>2, <1>4, <1>5 DEF TraceRecords, HandlerKept
<1>7. LogsHold'
    BY <1>2, <1>4 DEF LogsHold
<1>8. OpenStands'
    <2>1. SUFFICES ASSUME NEW f \in 1..MaxStarts, f = window.path, ~broken
                   PROVE  WindowStands(Log(f)', End(f)', window', handler')
        BY <1>2, <1>5 DEF OpenStands
    <2>2. WindowStands(Log(f), End(f), window, handler)
        BY <2>1 DEF TraceKept, OpenStands
    <2>3. ~IsMeta(r) /\ ~Response(r) /\ r.t # "call" /\ End(f) \in Nat
        BY <1>0, <1>1, LogTyped DEF IsMeta, Response
    <2>4. \A j \in 1..End(f) : Log(f)[j].t = "call" => Log(f)[j].i \in Int
        BY <1>0, CallsAreNumbered
    <2>5. Carried(window, window', handler, handler', r)
        BY <1>2, <1>5 DEF UnderWay, Carried
    <2>5a. Follows(window, window', r)
        BY <1>0, <1>5, <2>3 DEF Windows, Follows
    <2>6. WindowStands(Extended(Log(f), End(f), r), End(f) + 1, window', handler')
        BY <2>2, <2>3, <2>4, <2>5, <2>5a, WindowGrows
    <2> QED BY <1>4, <2>1, <2>6
<1> QED
    BY <1>6, <1>7, <1>8 DEF TraceKept

LEMMA ResolveSays ==
    ASSUME window \in Windows, NEW value
    PROVE  LET found == resolve(window.provenance, value) IN
           /\ found.state \in {"grounded", "unresolved", "authored"} /\ found.from \in Int
           /\ found.state = "grounded" =>
                \E leaf \in window.provenance.leaves : leaf.value = value /\ leaf.call = found.from
           /\ found.state = "authored" =>
                /\ window.provenance.gaps = {} /\ ~window.provenance.saturated
                /\ \A leaf \in window.provenance.leaves : leaf.value # value
<1> DEFINE index == window.provenance
           hits == {leaf \in index.leaves : leaf.value = value}
           found == resolve(index, value)
<1>1. index.leaves \subseteq [value : Values, call : Nat]
    BY DEF Windows, LiveIndexes
<1>2. CASE hits # {}
    <2>1. found = [state |-> "grounded", from |-> (CHOOSE leaf \in hits : TRUE).call]
        BY <1>2 DEF resolve
    <2>2. PICK leaf \in hits : leaf = CHOOSE l \in hits : TRUE
        BY <1>2
    <2>3. leaf \in index.leaves /\ leaf.value = value /\ leaf.call \in Nat /\ found.from = leaf.call
        BY <1>1, <2>1, <2>2
    <2> HIDE DEF hits, index, found
    <2>4. found.state = "grounded"
        BY <2>1
    <2> QED BY <2>3, <2>4 DEF found, index
<1>3. CASE hits = {}
    <2>1. found = IF index.gaps # {} \/ index.saturated THEN [state |-> "unresolved", from |-> -1]
                  ELSE [state |-> "authored", from |-> -1]
        BY <1>3 DEF resolve
    <2>2. \A leaf \in index.leaves : leaf.value # value
        BY <1>3
    <2> HIDE DEF hits
    <2> QED BY <2>1, <2>2
<1> QED
    BY <1>2, <1>3

(* What a call is held by.                                                                  *)
LEMMA ForwardedHandler ==
    ASSUME NEW h \in Handlers, NEW c, handler = [g \in Handlers |-> handler[g]],
           handler' = handler \/ handler' = [handler EXCEPT ![h] = c]
    PROVE  /\ handler' = [g \in Handlers |-> handler'[g]]
           /\ \A g \in Handlers : handler'[g] = handler[g] \/ (g = h /\ handler'[g] = c)
<1>1. handler' = [g \in Handlers |-> handler'[g]]
    <2>1. CASE handler' = [handler EXCEPT ![h] = c]
        <3>1. handler' = [g \in Handlers |-> IF g = h THEN c ELSE handler[g]]
            BY <2>1
        <3> QED BY <3>1
    <2> QED BY <2>1
<1> QED
    BY <1>1

LEMMA Calls ==
    ASSUME TraceKept, NEW h \in Handlers, NEW tool \in Tools, NEW value \in Values, CallTool(h, tool, value)
    PROVE  TraceKept'
<1> DEFINE owner == requests'
           verdict == evaluatePolicy(tool, value)
           i == window.callIndex
           found == resolve(window.provenance, value)
           call == Record("call", i, window.seq, owner, "call", value)
           prov == [Record("prov", i, window.seq + 1, owner, found.state, value) EXCEPT !.from = found.from]
           blocked == Record("result", i, window.seq + 1, owner, verdict, "none")
           c == [at |-> "downstream", owner |-> owner, i |-> i, isRecording |-> window.recording,
                 id |-> window.id]
<1>0. TraceRecords /\ window \in Windows /\ requests \in Nat /\ handler = [g \in Handlers |-> handler[g]]
    BY DEF TraceKept, TraceRecords
<1>1. owner \in Nat /\ i \in Nat /\ window.seq \in Nat /\ window.id \in Nat /\ window.recording \in BOOLEAN
    BY <1>0 DEF CallTool, NewRequest, Windows
<1>2. /\ found.state \in {"grounded", "unresolved", "authored"} /\ found.from \in Int
      /\ found.state = "grounded" =>
            \E leaf \in window.provenance.leaves : leaf.value = value /\ leaf.call = found.from
      /\ found.state = "authored" =>
            /\ window.provenance.gaps = {} /\ ~window.provenance.saturated
            /\ \A leaf \in window.provenance.leaves : leaf.value # value
    BY <1>0, ResolveSays
<1>3. verdict \in {"allow", "deny", "dry_run"}
    BY DEF evaluatePolicy
<1>4. /\ UNCHANGED <<policyLoad, broken, traces, straddled>> /\ requests' \in Nat
      /\ handler' = handler \/ handler' = [handler EXCEPT ![h] = c]
    BY <1>1 DEF CallTool
<1>5. HandlerKept(c, window) /\ c.at = "downstream" /\ c.owner = owner /\ c.i = i
      /\ c.isRecording = window.recording /\ c.id = window.id
    BY <1>1 DEF HandlerKept
<1>6. CASE ~window.recording
    <2>1. UNCHANGED <<queue, enqueued, window>>
        BY <1>6 DEF CallTool
    <2> HIDE DEF c
    <2> QED BY <1>4, <1>5, <1>6, <2>1, QuietSteps
<1>7. CASE window.recording
    <2> DEFINE s == IF verdict = "allow" THEN prov ELSE blocked
    <2>1. /\ write(<<call, s>>)
          /\ window' = [window EXCEPT !.seq = @ + 2, !.callIndex = @ + 1]
        <3>1. verdict = "allow" => write(<<call, prov>>)
            BY <1>7 DEF CallTool
        <3>2. verdict # "allow" => write(<<call, blocked>>)
            BY <1>7 DEF CallTool
        <3> QED BY <1>7, <3>1, <3>2 DEF CallTool
    <2>2. call \in TraceLines /\ call.t = "call" /\ call.i = i /\ call.owner = owner
        BY <1>1 DEF Record, TraceLines, RecordKinds
    <2>3. /\ prov \in TraceLines /\ prov.t = "prov" /\ prov.kind = found.state /\ prov.value = value
          /\ prov.from = found.from
        <3>1. prov = [t |-> "prov", i |-> i, seq |-> window.seq + 1, owner |-> owner, kind |-> found.state,
                      value |-> value, from |-> found.from]
            BY DEF Record
        <3> HIDE DEF prov, found, i, owner
        <3> QED BY <1>1, <1>2, <3>1 DEF TraceLines, RecordKinds
    <2>4. verdict # "allow" =>
             /\ blocked \in TraceLines /\ blocked.t = "result" /\ blocked.i = i /\ blocked.owner = owner
             /\ blocked.kind # "ok"
        <3>1. blocked = [t |-> "result", i |-> i, seq |-> window.seq + 1, owner |-> owner, kind |-> verdict,
                         value |-> "none", from |-> -1]
            BY DEF Record
        <3> HIDE DEF blocked, i, owner, verdict
        <3> QED BY <1>1, <1>3, <3>1 DEF TraceLines, RecordKinds
    <2>5. /\ s \in TraceLines /\ s.t \in {"prov", "result"}
          /\ s.t = "prov" => s.kind = found.state /\ s.value = value /\ s.from = found.from
          /\ s.t = "result" => s.i = i /\ s.owner = owner /\ s.kind # "ok"
        <3> HIDE DEF prov, blocked, verdict, i, owner, found
        <3>1. CASE verdict = "allow"
            BY <2>3, <3>1
        <3>2. CASE verdict # "allow"
            BY <2>4, <3>2
        <3> QED BY <3>1, <3>2
    <2> HIDE DEF s, call, prov, blocked, verdict, i, owner, found, c
    <2>6. ~IsMeta(call) /\ ~IsMeta(s) /\ ~Response(call) /\ ~Response(s) /\ s.t # "call"
        BY <2>2, <2>5 DEF IsMeta, Response
    <2>7. ASSUME NEW f \in 1..MaxStarts, f = window.path, ~broken
          PROVE  /\ End(f) \in Nat /\ WindowStands(Log(f), End(f), window, handler)
                 /\ \A j \in 1..End(f) : Log(f)[j].t = "call" => Log(f)[j].i \in Int
        BY <1>0, <2>7, LogTyped, CallsAreNumbered DEF TraceKept, OpenStands
    <2>8. ASSUME NEW f \in 1..MaxStarts, f = window.path, ~broken, OneStart(Log(f), End(f))
          PROVE  /\ TrueAfter(Log(f), End(f) + 1, call, straddled)
                 /\ TrueAfter(Extended(Log(f), End(f), call), End(f) + 2, s, straddled)
        <3> DEFINE L == Log(f)
                   N == End(f)
                   K == Extended(L, N, call)
        <3>1. N \in Nat /\ WindowReads(L, N, window, handler)
              /\ \A j \in 1..N : L[j].t = "call" => L[j].i \in Int
            BY <2>7, <2>8 DEF WindowStands
        <3>2. /\ \A p \in 1..N : K[p] = L[p] /\ p \in 1..N+1
              /\ K[N+1] = call /\ N + 1 \in 1..N+1
              /\ \A p \in 1..N+1 : p \in 1..N \/ p = N + 1
              /\ N + 1 - 1 = N /\ N + 2 - 1 = N + 1
            BY <3>1 DEF Extended
        <3> HIDE DEF L, N, K
        <3>2a. 1..(N+2)-1 = 1..N+1 /\ 1..(N+1)-1 = 1..N
            BY <3>1
        <3>3. CallAfter(L, N + 1, call)
            <4>1. \A j \in 1..N : L[j].t = "call" => L[j].i < i /\ L[j].i \in Int
                BY <3>1 DEF WindowReads, i
            <4>2. \A j \in 1..N : L[j].t = "call" => L[j].i # i
                BY <1>1, <4>1
            <4> QED BY <2>2, <3>2, <4>2 DEF CallAfter
        <3>4. TrueAfter(L, N + 1, call, straddled)
            BY <2>2, <3>3 DEF TrueAfter, AuthoredAfter, GroundedAfter, ResultAfter
        <3>5. AuthoredAfter(K, N + 2, s)
            <4>1. SUFFICES ASSUME s.t = "prov", s.kind = "authored", NEW j \in 1..N+1, Response(K[j])
                           PROVE  K[j].value \notin {s.value, "none"}
                BY <3>2a DEF AuthoredAfter
            <4>2. j \in 1..N /\ Response(L[j]) /\ K[j] = L[j]
                BY <2>6, <3>2, <4>1
            <4>3. /\ window.provenance.gaps = {} /\ ~window.provenance.saturated
                  /\ \A leaf \in window.provenance.leaves : leaf.value # value
                BY <1>2, <2>5, <4>1
            <4>4. L[j].value # "none" /\ \E leaf \in window.provenance.leaves : leaf.value = L[j].value
                BY <3>1, <4>2, <4>3 DEF WindowReads, LeavesSuffice
            <4> QED BY <2>5, <4>1, <4>2, <4>3, <4>4
        <3>6. GroundedAfter(K, N + 2, s)
            <4>1. SUFFICES ASSUME s.t = "prov", s.kind = "grounded"
                           PROVE  \E j \in 1..N+1 : Response(K[j]) /\ K[j].i = s.from /\ K[j].value = s.value
                BY <3>2a DEF GroundedAfter
            <4>2. PICK leaf \in window.provenance.leaves : leaf.value = value /\ leaf.call = found.from
                BY <1>2, <2>5, <4>1
            <4>3. PICK j \in 1..N : Response(L[j]) /\ L[j].i = leaf.call /\ L[j].value = leaf.value
                BY <3>1, <4>2 DEF WindowReads, LeavesStand
            <4> QED BY <2>5, <3>2, <4>1, <4>2, <4>3
        <3>7. ResultAfter(K, N + 2, s, straddled)
            <4>1. s.t = "result" => K[N+1].t = "call" /\ K[N+1].i = s.i /\ K[N+1].owner = s.owner
                BY <2>2, <2>5, <3>2
            <4> QED BY <3>2, <3>2a, <4>1 DEF ResultAfter
        <3>8. CallAfter(K, N + 2, s)
            BY <2>6 DEF CallAfter
        <3> QED BY <3>4, <3>5, <3>6, <3>7, <3>8 DEF TrueAfter, L, N, K
    <2>9. /\ queue' \in Seq(Nat \X TraceLines) /\ enqueued' \in Nat
          /\ \A f \in 1..MaxStarts : LogHolds(Log(f)', End(f)', straddled)
          /\ \A f \in 1..MaxStarts : f = window.path /\ ~broken =>
                /\ End(f)' = (End(f) + 1) + 1
                /\ Log(f)' = Extended(Extended(Log(f), End(f), call), End(f) + 1, s)
        BY <1>4, <2>1, <2>2, <2>5, <2>6, <2>8, WriteTwo
    <2>10. /\ window' \in Windows /\ window'.path = window.path /\ window'.id = window.id
           /\ window'.callIndex = i + 1 /\ window'.provenance = window.provenance
        <3>1. window' = [window EXCEPT !.seq = window.seq + 2, !.callIndex = window.callIndex + 1]
            BY <1>0, <2>1
        <3>2. window.seq + 2 \in Nat /\ window.callIndex + 1 \in Nat
            BY <1>0 DEF Windows
        <3> QED BY <1>0, <3>1, <3>2 DEF Windows, i
    <2>11. /\ handler' = [g \in Handlers |-> handler'[g]]
           /\ \A g \in Handlers : handler'[g] = handler[g] \/ (g = h /\ handler'[g] = c)
        BY <1>0, <1>4, ForwardedHandler
    <2>12. TraceRecords'
        <3>1. \A g \in Handlers : HandlerKept(handler'[g], window')
            BY <1>0, <1>5, <2>10, <2>11 DEF TraceRecords, HandlerKept
        <3> QED BY <1>0, <1>4, <2>9, <2>10, <2>11, <3>1 DEF TraceRecords
    <2>13. LogsHold'
        BY <1>4, <2>9 DEF LogsHold
    <2>14. OpenStands'
        <3>1. SUFFICES ASSUME NEW f \in 1..MaxStarts, f = window.path, ~broken
                       PROVE  WindowStands(Log(f)', End(f)', window', handler')
            BY <1>4, <2>10 DEF OpenStands
        <3> DEFINE L == Log(f)
                   N == End(f)
        <3>2. /\ N \in Nat /\ WindowStands(L, N, window, handler)
              /\ \A j \in 1..N : L[j].t = "call" => L[j].i \in Int
            BY <2>7, <3>1
        <3>3. ASSUME NEW g \in Handlers, UnderWay(g, window', handler')
              PROVE  \/ /\ UnderWay(g, window, handler)
                        /\ handler'[g].i = handler[g].i /\ handler'[g].owner = handler[g].owner
                     \/ call.t = "call" /\ call.i = handler'[g].i /\ call.owner = handler'[g].owner
            <4>1. CASE handler'[g] = handler[g]
                BY <2>10, <3>3, <4>1 DEF UnderWay
            <4>2. CASE handler'[g] = c
                BY <1>5, <2>2, <4>2
            <4> QED BY <2>11, <4>1, <4>2
        <3>4. window.callIndex = i /\ i \in Nat /\ i < i + 1 /\ i + 1 \in Nat
            BY <1>1 DEF i
        <3>4a. Follows(window, window', call) /\ Carried(window, window', handler, handler', call)
            BY <2>2, <2>6, <2>10, <3>3, <3>4 DEF Follows, Carried
        <3>4b. Follows(window', window', s) /\ Carried(window', window', handler', handler', s)
            BY <2>6, <2>10, <3>4 DEF Follows, Carried
        <3> HIDE DEF L, N
        <3>5. WindowStands(Extended(L, N, call), N + 1, window', handler')
            BY <2>6, <3>2, <3>4a, WindowGrows
        <3>6. \A j \in 1..N+1 : Extended(L, N, call)[j].t = "call" => Extended(L, N, call)[j].i \in Int
            BY <2>2, <3>2, <3>4 DEF Extended
        <3>7. N + 1 \in Nat
            BY <3>2
        <3>8. WindowStands(Extended(Extended(L, N, call), N + 1, s), (N + 1) + 1, window', handler')
            BY <2>6, <3>4b, <3>5, <3>6, <3>7, WindowGrows
        <3> QED BY <2>9, <3>1, <3>8 DEF L, N
    <2> QED BY <2>12, <2>13, <2>14 DEF TraceKept
<1> QED
    BY <1>6, <1>7

LEMMA AddSourceSays ==
    ASSUME NEW index \in LiveIndexes, NEW call \in Nat, NEW value \in Values,
           NEW after, after = addSource(index, call, value)
    PROVE  /\ after \in LiveIndexes /\ after.gaps = index.gaps /\ index.leaves \subseteq after.leaves
           /\ \A leaf \in after.leaves : leaf \in index.leaves \/ (leaf.call = call /\ leaf.value = value)
           /\ ~after.saturated => ~index.saturated /\ \E leaf \in after.leaves : leaf.value = value
<1> DEFINE new == [value |-> value, call |-> call]
<1>1. new \in [value : Values, call : Nat] /\ new.call = call /\ new.value = value
    OBVIOUS
<1>2. index.leaves \subseteq [value : Values, call : Nat] /\ index.accepted + 1 \in Nat
    BY DEF LiveIndexes
<1> HIDE DEF new
<1>3. CASE index.accepted >= LeafCap
    <2>1. after = [index EXCEPT !.saturated = TRUE]
        BY <1>3 DEF addSource
    <2>2. after \in LiveIndexes /\ after.gaps = index.gaps /\ after.leaves = index.leaves /\ after.saturated = TRUE
        BY <2>1 DEF LiveIndexes
    <2> QED BY <2>2
<1>4. CASE ~(index.accepted >= LeafCap)
    <2> DEFINE leaves == IF \E leaf \in index.leaves : leaf.value = value THEN index.leaves
                         ELSE index.leaves \cup {new}
    <2>1. after = [index EXCEPT !.accepted = index.accepted + 1, !.leaves = leaves]
        BY <1>4 DEF addSource, new
    <2>2. /\ leaves \in SUBSET [value : Values, call : Nat] /\ index.leaves \subseteq leaves
          /\ \A leaf \in leaves : leaf \in index.leaves \/ leaf = new
          /\ \E leaf \in leaves : leaf.value = value
        BY <1>1, <1>2
    <2> HIDE DEF leaves
    <2>3. after \in LiveIndexes /\ after.gaps = index.gaps /\ after.leaves = leaves
          /\ after.saturated = index.saturated
        BY <1>2, <2>1, <2>2 DEF LiveIndexes
    <2> QED BY <1>1, <2>2, <2>3
<1> QED
    BY <1>3, <1>4

LEMMA Answered ==
    ASSUME TraceKept, NEW h \in Handlers, NEW outcome \in Outcomes, DownstreamAnswer(h, outcome)
    PROVE  TraceKept'
<1> DEFINE held == handler[h]
           late == ~window.recording \/ window.id # held.id
           kind == IF outcome.ok THEN "ok" ELSE "error"
           r == Record("result", held.i, window.seq, held.owner, kind, outcome.value)
           c == HandlerIdle
           w == window.provenance
           more == IF ~outcome.ok THEN w
                   ELSE IF outcome.value = "none" THEN [w EXCEPT !.gaps = w.gaps \cup {held.i}]
                   ELSE addSource(w, held.i, outcome.value)
<1>0. TraceRecords /\ window \in Windows /\ requests \in Nat /\ handler = [g \in Handlers |-> handler[g]]
      /\ HandlerKept(handler[h], window)
    BY DEF TraceKept, TraceRecords
<1>1. /\ held.at = "downstream" /\ held.owner \in Nat /\ held.i \in Nat /\ window.seq \in Nat
      /\ window.seq + 1 \in Nat /\ w \in LiveIndexes
    BY <1>0 DEF DownstreamAnswer, HandlerKept, Windows
<1>2. /\ UNCHANGED <<policyLoad, broken, traces, requests>>
      /\ handler' = [handler EXCEPT ![h] = c]
    BY DEF DownstreamAnswer, Return
<1>3. c.at = "idle" /\ c.at # "downstream" /\ HandlerKept(c, window)
    BY DEF HandlerIdle, HandlerKept
<1>4. outcome.value \in Values \cup {"none"} /\ outcome.ok \in BOOLEAN /\ (~outcome.ok => outcome.value = "none")
    BY DEF Outcomes
<1>5. CASE ~held.isRecording
    <2>1. UNCHANGED <<queue, enqueued, window, straddled>>
        BY <1>5 DEF DownstreamAnswer
    <2> HIDE DEF c
    <2> QED BY <1>0, <1>2, <1>3, <2>1, QuietSteps
<1>6. CASE held.isRecording
    <2>1. /\ write(<<r>>)
          /\ window' = [window EXCEPT !.seq = window.seq + 1, !.provenance = more]
          /\ straddled' = IF late THEN straddled \cup {held.owner} ELSE straddled
        <3>1. write(<<r>>) /\ straddled' = IF late THEN straddled \cup {held.owner} ELSE straddled
            BY <1>6 DEF DownstreamAnswer
        <3>2. window' = [window EXCEPT !.seq = window.seq + 1, !.provenance = more]
            <4>1. window' = [window EXCEPT !.seq = window.seq + 1,
                      !.provenance = IF ~outcome.ok THEN w
                                     ELSE IF outcome.value = "none"
                                          THEN [w EXCEPT !.gaps = @ \cup {held.i}]
                                          ELSE addSource(w, held.i, outcome.value)]
                BY <1>6 DEF DownstreamAnswer
            <4> QED BY <4>1
        <3> QED BY <3>1, <3>2
    <2>2. /\ r \in TraceLines /\ r.t = "result" /\ r.i = held.i /\ r.owner = held.owner /\ r.kind = kind
          /\ r.value = outcome.value
        <3>1. r = [t |-> "result", i |-> held.i, seq |-> window.seq, owner |-> held.owner, kind |-> kind,
                   value |-> outcome.value, from |-> -1]
            BY DEF Record
        <3>2. kind \in {"ok", "error"} /\ kind \in RecordKinds
            BY DEF RecordKinds
        <3> HIDE DEF r, kind, held
        <3> QED BY <1>1, <1>4, <3>1, <3>2 DEF TraceLines
    <2>3. /\ more \in LiveIndexes
          /\ \A leaf \in more.leaves : leaf \in w.leaves
                \/ (outcome.ok /\ leaf.call = held.i /\ leaf.value = outcome.value)
          /\ more.gaps = {} /\ ~more.saturated =>
                /\ w.gaps = {} /\ ~w.saturated /\ w.leaves \subseteq more.leaves
                /\ outcome.ok => outcome.value # "none" /\ \E leaf \in more.leaves : leaf.value = outcome.value
        <3>1. CASE ~outcome.ok
            BY <1>1, <3>1
        <3>2. CASE outcome.ok /\ outcome.value = "none"
            <4>1. more = [w EXCEPT !.gaps = w.gaps \cup {held.i}]
                BY <3>2
            <4> HIDE DEF more, w, held
            <4>2. more \in LiveIndexes /\ more.leaves = w.leaves /\ more.gaps = w.gaps \cup {held.i}
                BY <1>1, <4>1 DEF LiveIndexes
            <4> QED BY <4>2
        <3>3. CASE outcome.ok /\ outcome.value # "none"
            <4>1. more = addSource(w, held.i, outcome.value) /\ outcome.value \in Values
                BY <1>4, <3>3
            <4> HIDE DEF more, w, held
            <4>2. /\ more \in LiveIndexes /\ more.gaps = w.gaps /\ w.leaves \subseteq more.leaves
                  /\ \A leaf \in more.leaves :
                        leaf \in w.leaves \/ (leaf.call = held.i /\ leaf.value = outcome.value)
                  /\ ~more.saturated => ~w.saturated /\ \E leaf \in more.leaves : leaf.value = outcome.value
                <5>1. w \in LiveIndexes /\ held.i \in Nat /\ outcome.value \in Values
                    BY <1>1, <4>1
                <5>2. more \in LiveIndexes /\ more.gaps = w.gaps
                    BY <4>1, <5>1, AddSourceSays
                <5>3. w.leaves \subseteq more.leaves
                    BY <4>1, <5>1, AddSourceSays
                <5>4. \A leaf \in more.leaves :
                         leaf \in w.leaves \/ (leaf.call = held.i /\ leaf.value = outcome.value)
                    BY <4>1, <5>1, AddSourceSays
                <5>5. ~more.saturated => ~w.saturated /\ \E leaf \in more.leaves : leaf.value = outcome.value
                    BY <4>1, <5>1, AddSourceSays
                <5> QED BY <5>2, <5>3, <5>4, <5>5
            <4> QED BY <3>3, <4>2
        <3> QED BY <1>4, <3>1, <3>2, <3>3
    <2>4. Response(r) => outcome.ok
        BY <2>2 DEF Response
    <2>5. ~IsMeta(r) /\ r.t # "call" /\ straddled \subseteq straddled'
        BY <2>1, <2>2 DEF IsMeta
    <2>6. (outcome.ok /\ r.kind = "ok") \/ ~outcome.ok
        BY <1>4, <2>2
    <2>7. r.owner \notin straddled' => UnderWay(h, window, handler)
        BY <1>1, <1>6, <2>1, <2>2 DEF UnderWay
    <2> HIDE DEF r, kind, more, c, late, w
    <2>8. ASSUME NEW f \in 1..MaxStarts, f = window.path, ~broken
          PROVE  /\ End(f) \in Nat /\ WindowStands(Log(f), End(f), window, handler)
                 /\ \A j \in 1..End(f) : Log(f)[j].t = "call" => Log(f)[j].i \in Int
        BY <1>0, <2>8, LogTyped, CallsAreNumbered DEF TraceKept, OpenStands
    <2>9. ASSUME NEW f \in 1..MaxStarts, f = window.path, ~broken, OneStart(Log(f), End(f))
          PROVE  TrueAfter(Log(f), End(f) + 1, r, straddled')
        <3>1. WindowReads(Log(f), End(f), window, handler) /\ End(f) \in Nat
            BY <2>8, <2>9 DEF WindowStands
        <3>2. 1..(End(f) + 1) - 1 = 1..End(f)
            BY <3>1
        <3>3. ResultAfter(Log(f), End(f) + 1, r, straddled')
            BY <2>2, <2>7, <3>1, <3>2 DEF ResultAfter, WindowReads
        <3> QED BY <2>2, <3>3 DEF TrueAfter, AuthoredAfter, GroundedAfter, CallAfter
    <2>10. /\ queue' \in Seq(Nat \X TraceLines) /\ enqueued' \in Nat
           /\ \A f \in 1..MaxStarts : LogHolds(Log(f)', End(f)', straddled')
           /\ \A f \in 1..MaxStarts : f = window.path /\ ~broken =>
                 End(f)' = End(f) + 1 /\ Log(f)' = Extended(Log(f), End(f), r)
        BY <1>2, <2>1, <2>2, <2>5, <2>9, WriteOne
    <2>11. /\ window' \in Windows /\ window'.path = window.path /\ window'.id = window.id
           /\ window'.callIndex = window.callIndex /\ window'.provenance = more
        BY <1>0, <1>1, <2>1, <2>3 DEF Windows
    <2>12. /\ handler' = [g \in Handlers |-> handler'[g]]
           /\ \A g \in Handlers : handler'[g] = handler[g] \/ (g = h /\ handler'[g] = c)
           /\ \A g \in Handlers : UnderWay(g, window, handler') =>
                UnderWay(g, window, handler) /\ handler'[g].i = handler[g].i /\ handler'[g].owner = handler[g].owner
        BY <1>0, <1>2, <1>3, QuietHandler
    <2>13. TraceRecords'
        <3>1. \A g \in Handlers : HandlerKept(handler'[g], window')
            BY <1>0, <1>3, <2>11, <2>12 DEF TraceRecords, HandlerKept
        <3> QED BY <1>0, <1>2, <2>10, <2>11, <2>12, <3>1 DEF TraceRecords
    <2>14. LogsHold'
        BY <2>10 DEF LogsHold
    <2>15. OpenStands'
        <3>1. SUFFICES ASSUME NEW f \in 1..MaxStarts, f = window.path, ~broken
                       PROVE  WindowStands(Log(f)', End(f)', window', handler')
            BY <1>2, <2>11 DEF OpenStands
        <3> DEFINE L == Log(f)
                   N == End(f)
        <3>2. /\ N \in Nat /\ WindowStands(L, N, window, handler)
              /\ \A j \in 1..N : L[j].t = "call" => L[j].i \in Int
            BY <2>8, <3>1
        <3>3. window.callIndex \in Nat
            BY <1>0 DEF Windows
        <3>4. \A g \in Handlers : UnderWay(g, window', handler') =>
                 UnderWay(g, window, handler) /\ handler'[g].i = handler[g].i /\ handler'[g].owner = handler[g].owner
            BY <2>11, <2>12 DEF UnderWay
        <3>5. /\ \A leaf \in window'.provenance.leaves :
                   leaf \in window.provenance.leaves \/ (Response(r) /\ r.i = leaf.call /\ r.value = leaf.value)
              /\ window'.provenance.gaps = {} /\ ~window'.provenance.saturated =>
                   /\ window.provenance.gaps = {} /\ ~window.provenance.saturated
                   /\ window.provenance.leaves \subseteq window'.provenance.leaves
                   /\ Response(r) => r.value # "none" /\ \E leaf \in window'.provenance.leaves : leaf.value = r.value
            BY <2>2, <2>3, <2>4, <2>6, <2>11 DEF w, Response
        <3> HIDE DEF L, N
        <3>6. ~IsMeta(r) /\ Follows(window, window', r) /\ Carried(window, window', handler, handler', r)
            BY <2>5, <2>11, <3>3, <3>4, <3>5 DEF Follows, Carried
        <3>7. WindowStands(Extended(L, N, r), N + 1, window', handler')
            BY <3>2, <3>6, WindowGrows
        <3> QED BY <2>10, <3>1, <3>7 DEF L, N
    <2> QED BY <2>13, <2>14, <2>15 DEF TraceKept
<1> QED
    BY <1>5, <1>6

(* A window that opens on a file no start has opened finds no record in it.                   *)
LEMMA Opens ==
    ASSUME TraceKept, NEW h \in Handlers, OpenWindow(h)
    PROVE  TraceKept'
<1> DEFINE path == handler[h].path
           r == Record("meta", -1, 0, 0, policyLoad.status, "none")
           c == [at |-> "opened", until |-> enqueued']
<1>0. /\ TraceRecords /\ window \in Windows /\ handler = [g \in Handlers |-> handler[g]]
      /\ policyLoad \in PolicyLoads /\ enqueued \in Nat /\ path \in Nat
    BY DEF TraceKept, TraceRecords, HandlerKept, OpenWindow
<1>1. /\ window' = [recording |-> TRUE, path |-> path, seq |-> 1, callIndex |-> 0,
                    provenance |-> LiveProvenanceIndex, id |-> window.id + 1]
      /\ Chain(path, <<r>>) /\ handler' = [handler EXCEPT ![h] = c]
      /\ UNCHANGED <<policyLoad, broken, traces, requests, straddled>>
    BY DEF OpenWindow
<1>2. r \in TraceLines /\ r.t = "meta" /\ IsMeta(r)
    BY <1>0 DEF Record, TraceLines, RecordKinds, IsMeta
<1>3. c.at = "opened"
    OBVIOUS
<1>4. window' \in Windows /\ window'.id = window.id + 1 /\ window.id \in Nat /\ window'.path = path
    <2>1. window.id \in Nat
        BY <1>0 DEF Windows
    <2> HIDE DEF path
    <2> QED BY <1>0, <1>1, <2>1 DEF Windows, LiveProvenanceIndex, LiveIndexes
<1> HIDE DEF r, c, path
<1>5. /\ handler' = [g \in Handlers |-> handler'[g]]
      /\ \A g \in Handlers : handler'[g] = handler[g] \/ (g = h /\ handler'[g] = c)
    BY <1>0, <1>1, ForwardedHandler
<1>6. \A g \in Handlers : HandlerKept(handler'[g], window') /\ ~UnderWay(g, window', handler')
    <2>1. \A g \in Handlers : HandlerKept(handler[g], window)
        BY <1>0 DEF TraceRecords
    <2>2. \A g \in Handlers : handler[g].at = "downstream" => /\ handler[g].id \in 0..window'.id
                                                             /\ handler[g].id # window'.id
        BY <1>4, <2>1 DEF HandlerKept
    <2>3. ASSUME NEW g \in Handlers
          PROVE  HandlerKept(handler'[g], window') /\ ~UnderWay(g, window', handler')
        BY <1>3, <1>5, <2>1, <2>2 DEF HandlerKept, UnderWay
    <2> QED BY <2>3
<1>7. CASE path = 0 \/ broken
    <2>1. queue' = queue /\ enqueued' = enqueued
        BY <1>7, <1>1 DEF Chain
    <2>2. \A f \in 1..MaxStarts : Log(f)' = Log(f) /\ End(f)' = End(f)
        BY <1>1, <2>1, Unlogged
    <2>3. LogsHold'
        BY <1>1, <2>2 DEF TraceKept, LogsHold
    <2>4. OpenStands'
        <3>1. ~(path \in 1..MaxStarts /\ ~broken)
            BY <1>7
        <3> QED BY <1>1, <1>4, <3>1 DEF OpenStands
    <2>5. TraceRecords'
        BY <1>0, <1>1, <1>4, <1>5, <1>6, <2>1 DEF TraceRecords
    <2> QED BY <2>3, <2>4, <2>5 DEF TraceKept
<1>8. CASE path # 0 /\ ~broken
    <2>1. queue' = queue \o [k \in DOMAIN <<r>> |-> <<path, <<r>>[k]>>] /\ enqueued' = enqueued + 1
        BY <1>8, <1>1 DEF Chain
    <2>2. QueuedOne(path, r)
        BY <1>0, <1>2, <2>1, QueuesOne
    <2>3. \A f \in 1..MaxStarts : /\ End(f)' = End(f) + 1 /\ End(f) \in Nat
                                  /\ Log(f)' = Extended(Log(f), End(f), For(f, path, r))
        BY <1>0, <1>1, <2>2, LoggedOne, LogTyped
    <2>4. ASSUME NEW f \in 1..MaxStarts
          PROVE  LogHolds(Log(f)', End(f)', straddled)
        <3>1. LogHolds(Log(f), End(f), straddled)
            BY DEF TraceKept, LogsHold
        <3>2. \/ For(f, path, r) = r
              \/ For(f, path, r) = Blank
            BY DEF For
        <3>3. \A L, k : TrueAfter(L, k, Blank, straddled) /\ Blank.t = "elsewhere"
            BY DEF Blank, TrueAfter, AuthoredAfter, GroundedAfter, ResultAfter, CallAfter
        <3>4. LogHolds(Extended(Log(f), End(f), For(f, path, r)), End(f) + 1, straddled)
            BY <1>2, <2>3, <3>1, <3>2, <3>3, LogGrows
        <3> QED BY <2>3, <3>4
    <2>5. OpenStands'
        <3>1. SUFFICES ASSUME NEW f \in 1..MaxStarts, f = path
                       PROVE  WindowStands(Log(f)', End(f)', window', handler')
            BY <1>4 DEF OpenStands
        <3> DEFINE L == Log(f)
                   N == End(f)
                   M == Extended(L, N, r)
        <3>2. /\ N \in Nat /\ LogHolds(L, N, straddled) /\ For(f, path, r) = r
              /\ Log(f)' = M /\ End(f)' = N + 1
            BY <2>3, <3>1 DEF TraceKept, LogsHold, For
        <3> HIDE DEF L, N
        <3>3. M[N+1] = r /\ N + 1 \in 1..N+1 /\ \A p \in 1..N+1 : p = N + 1 \/ (p \in 1..N /\ M[p] = L[p])
            BY <3>2 DEF Extended
        <3>4. ASSUME OneStart(M, N + 1)
              PROVE  WindowReads(M, N + 1, window', handler')
            <4>1. \A j \in 1..N : ~IsMeta(L[j])
                BY <1>2, <3>2, <3>4, OneStartGrows
            <4>2. \A j \in 1..N : L[j].t = "elsewhere"
                <5>1. \A k \in 1..N : \A j \in 1..k : j \in 1..N
                    BY <3>2
                <5> QED BY <3>2, <4>1, <5>1 DEF LogHolds, Begun
            <4> HIDE DEF M
            <4>3. \A j \in 1..N+1 : M[j].t # "call" /\ ~Response(M[j])
                BY <1>2, <3>3, <4>2 DEF Response
            <4>4. window'.provenance.leaves = {}
                BY <1>1 DEF LiveProvenanceIndex
            <4> QED BY <1>6, <4>3, <4>4 DEF WindowReads, LeavesStand, LeavesSuffice
        <3> QED BY <1>2, <3>2, <3>3, <3>4 DEF WindowStands
    <2>6. TraceRecords'
        <3>1. enqueued' \in Nat
            BY <1>0, <2>1
        <3> QED BY <1>0, <1>1, <1>4, <1>5, <1>6, <2>2, <3>1 DEF TraceRecords, QueuedOne
    <2>7. LogsHold'
        BY <1>1, <2>4 DEF LogsHold
    <2> QED BY <2>5, <2>6, <2>7 DEF TraceKept
<1> QED
    BY <1>7, <1>8

LEMMA Appends ==
    ASSUME TraceKept, AppendNext \/ AppendFails
    PROVE  TraceKept'
<1>0. TraceRecords
    BY DEF TraceKept
<1>1. UNCHANGED <<policyLoad, window, handler, enqueued, requests, straddled>>
    BY DEF AppendNext, AppendFails
<1>2. CASE AppendNext
    <2>1. broken' = broken
        BY <1>2 DEF AppendNext
    <2>2. ASSUME NEW f \in 1..MaxStarts
          PROVE  /\ LogHolds(Log(f)', End(f)', straddled)
                 /\ WindowStands(Log(f), End(f), window, handler)
                       => WindowStands(Log(f)', End(f)', window, handler)
        <3>1. LogHolds(Log(f), End(f), straddled) /\ End(f) \in Nat
            BY <1>0, LogTyped DEF TraceKept, LogsHold
        <3>2. CASE Log(f)' = Log(f) /\ End(f)' = End(f)
            BY <3>1, <3>2
        <3>3. CASE \E c \in 1..End(f) : /\ Log(f)[c].t = "elsewhere" /\ End(f)' = End(f) - 1
                                       /\ Log(f)' = Without(Log(f), End(f) - 1, c)
            <4> DEFINE L == Log(f)
                       N == End(f) - 1
            <4>1. PICK c \in 1..End(f) : /\ L[c].t = "elsewhere" /\ End(f)' = N
                                         /\ Log(f)' = Without(L, N, c)
                BY <3>3
            <4>2. N \in Nat /\ N + 1 = End(f) /\ c \in 1..N+1
                BY <3>1
            <4>3. LogHolds(L, N + 1, straddled)
                BY <3>1, <4>2
            <4> HIDE DEF L, N
            <4>4. LogHolds(Without(L, N, c), N, straddled)
                BY <4>1, <4>2, <4>3, LogSkips
            <4>5. WindowStands(L, N + 1, window, handler) => WindowStands(Without(L, N, c), N, window, handler)
                BY <4>1, <4>2, WindowSkips
            <4> QED BY <4>1, <4>2, <4>4, <4>5 DEF L
        <3> QED BY <1>0, <1>2, <3>2, <3>3, LogAppended
    <2>3. TraceRecords'
        <3>1. queue' \in Seq(Nat \X TraceLines) /\ traces' \in [1..MaxStarts -> Seq(TraceLines)]
            BY <1>0, <1>2, AppendTyped
        <3> QED BY <1>0, <1>1, <2>1, <3>1 DEF TraceRecords, HandlerKept
    <2>4. LogsHold'
        BY <1>1, <2>2 DEF LogsHold
    <2>5. OpenStands'
        <3>1. SUFFICES ASSUME NEW f \in 1..MaxStarts, f = window.path, ~broken
                       PROVE  WindowStands(Log(f)', End(f)', window, handler)
            BY <1>1, <2>1 DEF OpenStands
        <3> QED BY <2>2, <3>1 DEF TraceKept, OpenStands
    <2> QED BY <2>3, <2>4, <2>5 DEF TraceKept
<1>3. CASE AppendFails
    <2>1. traces' = traces /\ queue' = <<>> /\ broken' = TRUE
        BY <1>3 DEF AppendFails
    <2>2. ASSUME NEW f \in 1..MaxStarts
          PROVE  LogHolds(Log(f)', End(f)', straddled)
        <3>1. LogHolds(Log(f), End(f), straddled) /\ End(f) \in Nat
            BY <1>0, LogTyped DEF TraceKept, LogsHold
        <3>2. End(f)' \in 0..End(f) /\ \A p \in 1..End(f)' : Log(f)'[p] = Log(f)[p]
            BY <1>0, <2>1, LogCut
        <3> QED BY <3>1, <3>2, LogIsCut
    <2>3. TraceRecords'
        <3>1. queue' \in Seq(Nat \X TraceLines)
            BY <2>1
        <3> QED BY <1>0, <1>1, <2>1, <3>1 DEF TraceRecords, HandlerKept
    <2>4. LogsHold' /\ OpenStands'
        BY <1>1, <2>1, <2>2 DEF LogsHold, OpenStands
    <2> QED BY <2>3, <2>4 DEF TraceKept
<1> QED
    BY <1>2, <1>3

LEMMA TraceSteps ==
    ASSUME TraceKept, [RecordingNext]_recordingVars
    PROVE  TraceKept'
<1>1. CASE UNCHANGED recordingVars
    BY <1>1 DEF recordingVars, TraceKept, TraceRecords, LogsHold, OpenStands, Log, End
<1> QED
    BY <1>1, Appends, Waits, Opens, Notes, Calls, Answered DEF RecordingNext

-----------------------------------------------------------------------------
(* What is on disk is a beginning of the log.                                               *)
LEMMA DiskIsTrue ==
    ASSUME TraceKept, NEW f \in DOMAIN traces, OneWindow(traces[f])
    PROVE  /\ traces[f] \in Seq(TraceLines)
           /\ \A k \in 1..Len(traces[f]) :
                 OneStart(traces[f], k) /\ TrueAfter(traces[f], k, traces[f][k], straddled)
<1> DEFINE trace == traces[f]
           K == Len(trace)
<1>1. TraceRecords /\ f \in 1..MaxStarts /\ trace \in Seq(TraceLines) /\ K \in Nat /\ DOMAIN trace = 1..K
    BY DEF TraceKept, TraceRecords
<1>2. End(f) \in Nat /\ Len(queue) \in Nat /\ End(f) = K + Len(queue)
    BY <1>1, LogTyped DEF End
<1>3. K \in 0..End(f)
    <2> DEFINE waiting == Len(queue)
    <2>1. waiting \in Nat /\ End(f) = K + waiting /\ K \in Nat
        BY <1>1, <1>2
    <2> HIDE DEF K, waiting
    <2> QED BY <2>1
<1>4. \A p \in 1..K : trace[p] = Log(f)[p]
    <2>1. \A p \in 1..K : p \in 1..End(f) /\ p <= Len(traces[f])
        <3> HIDE DEF K
        <3>1. \A p \in 1..K : p \in 1..End(f) /\ p <= K
            BY <1>1, <1>2, <1>3
        <3> QED BY <3>1 DEF K
    <2> QED BY <2>1 DEF Log
<1>5. LogHolds(trace, K, straddled)
    <2>1. LogHolds(Log(f), End(f), straddled)
        BY <1>1 DEF TraceKept, LogsHold
    <2> HIDE DEF trace, K
    <2> QED BY <1>2, <1>3, <1>4, <2>1, LogIsCut
<1>6. \A i, j \in 1..K : IsMeta(trace[i]) /\ IsMeta(trace[j]) => i = j
    <2>1. Cardinality(Of(trace, "meta")) = 1 /\ Of(trace, "meta") \subseteq 1..K
        BY <1>1 DEF OneWindow, Of
    <2>2. IsFiniteSet(Of(trace, "meta"))
        <3>0. K \in Int /\ 1 \in Int
            BY <1>1
        <3> HIDE DEF K
        <3>1. IsFiniteSet(1..K)
            BY <3>0, FS_Interval
        <3> QED BY <2>1, <3>1, FS_Subset
    <2>3. \E x : Of(trace, "meta") = {x}
        BY <2>1, <2>2, FS_Singleton
    <2>4. \A i \in 1..K : IsMeta(trace[i]) => i \in Of(trace, "meta")
        BY <1>1 DEF IsMeta, Of
    <2> HIDE DEF trace, K
    <2> QED BY <2>3, <2>4
<1>7. \A k \in 1..K : \A i \in 1..k : i \in 1..K
    <2> HIDE DEF K
    <2> QED BY <1>1
<1> HIDE DEF trace, K
<1>8. \A k \in 1..K : OneStart(trace, k)
    BY <1>6, <1>7 DEF OneStart
<1>9. \A k \in 1..K : TrueAfter(trace, k, trace[k], straddled)
    BY <1>5, <1>8 DEF LogHolds
<1> QED
    BY <1>1, <1>8, <1>9 DEF trace, K

(* What a trace says of calls and values is what happened: "grounded" names an earlier response    *)
(* that holds the value, "authored" is said only where none does, and a result stands behind the   *)
(* one call of its index unless its window had closed (Recorder, LiveProvenanceIndex).            *)
THEOREM TracesAreTrue == RecordingSpec => []TraceIsTrue
<1>1. TraceKept => ProvenanceIsTrue
    <2>1. SUFFICES ASSUME TraceKept, NEW f \in DOMAIN traces, OneWindow(traces[f]),
                          NEW k \in Of(traces[f], "prov")
                   PROVE  LET trace == traces[f]
                              responses == {j \in Of(trace, "result") : j < k /\ trace[j].kind = "ok"} IN
                          /\ trace[k].kind = "authored" =>
                                \A j \in responses : trace[j].value \notin {trace[k].value, "none"}
                          /\ trace[k].kind = "grounded" =>
                                \E j \in responses : trace[j].i = trace[k].from
                                                     /\ trace[j].value = trace[k].value
        BY DEF ProvenanceIsTrue
    <2> DEFINE trace == traces[f]
               K == Len(trace)
    <2>2. /\ trace \in Seq(TraceLines) /\ K \in Nat /\ DOMAIN trace = 1..K
          /\ \A j \in 1..K : TrueAfter(trace, j, trace[j], straddled)
        BY <2>1, DiskIsTrue
    <2> HIDE DEF trace, K
    <2>3. k \in 1..K /\ trace[k].t = "prov" /\ TrueAfter(trace, k, trace[k], straddled)
        BY <2>1, <2>2 DEF Of, trace
    <2>4. \A j \in 1..K : j \in 1..k-1 <=> j < k
        BY <2>2, <2>3
    <2>5. \A j \in 1..k-1 : j \in 1..K /\ j < k
        BY <2>2, <2>3
    <2>6. \A j : j \in Of(trace, "result") /\ j < k /\ trace[j].kind = "ok"
                    <=> j \in 1..k-1 /\ Response(trace[j])
        BY <2>2, <2>4, <2>5 DEF Of, Response
    <2>7. trace[k].kind = "authored" => \A j \in 1..k-1 : Response(trace[j]) => trace[j].value \notin {trace[k].value, "none"}
        BY <2>3 DEF TrueAfter, AuthoredAfter
    <2>8. trace[k].kind = "grounded" =>
             \E j \in 1..k-1 : Response(trace[j]) /\ trace[j].i = trace[k].from /\ trace[j].value = trace[k].value
        BY <2>3 DEF TrueAfter, GroundedAfter
    <2> QED BY <2>6, <2>7, <2>8 DEF trace
<1>2. TraceKept => ResultsOfTheirCalls
    <2>1. SUFFICES ASSUME TraceKept, NEW f \in DOMAIN traces, OneWindow(traces[f]),
                          NEW k \in Of(traces[f], "result"), traces[f][k].owner \notin straddled
                   PROVE  LET trace == traces[f] IN
                          \E j \in Of(trace, "call") :
                             /\ j < k /\ trace[j].i = trace[k].i /\ trace[j].owner = trace[k].owner
                             /\ \A other \in Of(trace, "call") : trace[other].i = trace[k].i => other = j
        BY DEF ResultsOfTheirCalls
    <2> DEFINE trace == traces[f]
               K == Len(trace)
    <2>2. /\ trace \in Seq(TraceLines) /\ K \in Nat /\ DOMAIN trace = 1..K
          /\ \A j \in 1..K : TrueAfter(trace, j, trace[j], straddled)
        BY <2>1, DiskIsTrue
    <2> HIDE DEF trace, K
    <2>3. k \in 1..K /\ trace[k].t = "result" /\ trace[k].owner \notin straddled
        BY <2>1, <2>2 DEF Of, trace
    <2>4. PICK j \in 1..k-1 : trace[j].t = "call" /\ trace[j].i = trace[k].i /\ trace[j].owner = trace[k].owner
        BY <2>2, <2>3 DEF TrueAfter, ResultAfter
    <2>5. j \in 1..K /\ j < k
        BY <2>2, <2>3
    <2>6. ASSUME NEW other \in Of(trace, "call"), trace[other].i = trace[k].i
          PROVE  other = j
        <3>1. other \in 1..K /\ trace[other].t = "call" /\ CallAfter(trace, other, trace[other])
            BY <2>2 DEF Of, TrueAfter
        <3>2. CallAfter(trace, j, trace[j])
            BY <2>2, <2>5 DEF TrueAfter
        <3>3. ~(j \in 1..other-1) /\ ~(other \in 1..j-1)
            BY <2>4, <2>6, <3>1, <3>2 DEF CallAfter
        <3> QED BY <2>2, <2>5, <3>1, <3>3
    <2>7. j \in Of(trace, "call")
        BY <2>2, <2>4, <2>5 DEF Of
    <2> QED BY <2>4, <2>5, <2>6, <2>7 DEF trace
<1>3. TraceKept => TraceIsTrue
    BY <1>1, <1>2 DEF TraceIsTrue
<1> QED
    BY <1>3, TraceStarts, TraceSteps, PTL DEF RecordingSpec
================================================================================
