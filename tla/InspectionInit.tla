---------------------------- MODULE InspectionInit ----------------------------
(***************************************************************************)
(* The checkpointed inspection: initializeInspectionCore of                  *)
(* src/initialization.ts.  Runs of the initializer share .reelier/init: a     *)
(* lock file, a recovery lease over the lock of a dead run, an artifact and   *)
(* an entry of state.json per checkpoint, and the temporary files of both.    *)
(* Files are removed by path, whoever's they are.                           *)
(***************************************************************************)
EXTENDS Naturals, Sequences, SequencesExt

CONSTANTS
    Initializers,   \* processes that run the initializer, again and again
    Checkpoints,    \* how many checkpoints: the last one is the report on the others
    MaxInits, MaxInitDeaths, MaxWriteErrors     \* bounds

ASSUME InspectionAssumption ==
    /\ Checkpoints \in Nat \ {0, 1}
    /\ MaxInits \in Nat /\ MaxInitDeaths \in Nat /\ MaxWriteErrors \in Nat

VARIABLES
    initLock, recoveryLease,    \* .lock and .recovery: the pid in them
    residue,        \* temporary files, by the pid that writes them
    artifact,       \* the artifact of every checkpoint on disk
    completed,      \* state.json: the digests of the artifacts completed
    initializer,    \* the run under way in every process
    inits, initDeaths, writeErrors,
    ousted          \* a live run's recovery lease was removed

inspectionVars == <<initLock, recoveryLease, residue, artifact, completed, initializer, inits,
                    initDeaths, writeErrors, ousted>>

NoInitFile == [pid |-> 0, named |-> TRUE]
NoInit == [at |-> "idle", pid |-> 0, recovered |-> FALSE, listed |-> FALSE, loaded |-> <<>>]

InspectionStart ==
    /\ initLock = NoInitFile /\ recoveryLease = NoInitFile /\ residue = {}
    /\ artifact = [i \in 1..Checkpoints |-> <<>>] /\ completed = <<>>
    /\ initializer = [p \in Initializers |-> NoInit]
    /\ inits = 0 /\ initDeaths = 0 /\ writeErrors = 0 /\ ousted = FALSE

Stage(p) == initializer[p].at
Pid(p) == initializer[p].pid
AliveInit(pid) == pid # 0 /\ \E p \in Initializers : Pid(p) = pid
ToStage(p, at) == initializer' = [initializer EXCEPT ![p].at = at]
EndInit(p) == initializer' = [initializer EXCEPT ![p] = NoInit]

(* A file whose pid is not written yet counts as active. *)
lockOwnerStatus(file) ==
    IF file = NoInitFile THEN "absent"
    ELSE IF ~file.named \/ AliveInit(file.pid) THEN "active" ELSE "dead"

files == <<residue, artifact, completed>>
counters == <<inits, initDeaths, writeErrors>>
-----------------------------------------------------------------------------
(* recoverDeadLock. *)

StartInit(p) ==
    /\ Stage(p) = "idle" /\ inits < MaxInits
    /\ inits' = inits + 1
    /\ initializer' = [initializer EXCEPT ![p].at = "look", ![p].pid = inits']
    /\ UNCHANGED <<initLock, recoveryLease, files, initDeaths, writeErrors, ousted>>

ReadLease(p) ==
    /\ Stage(p) = "look"
    /\ CASE lockOwnerStatus(recoveryLease) = "active" -> EndInit(p)
         [] lockOwnerStatus(recoveryLease) = "dead" -> ToStage(p, "clear")
         [] OTHER -> ToStage(p, "lock")
    /\ UNCHANGED <<initLock, recoveryLease, files, counters, ousted>>

ClearLease(p) ==
    /\ Stage(p) = "clear"
    /\ recoveryLease' = NoInitFile /\ ToStage(p, "lock")
    /\ ousted' = (ousted \/ AliveInit(recoveryLease.pid))
    /\ UNCHANGED <<initLock, files, counters>>

ReadLock(p) ==
    /\ Stage(p) = "lock"
    /\ CASE lockOwnerStatus(initLock) = "active" -> EndInit(p)
         [] lockOwnerStatus(initLock) = "dead" -> ToStage(p, "lease")
         [] OTHER -> ToStage(p, "list")
    /\ UNCHANGED <<initLock, recoveryLease, files, counters, ousted>>

TakeLease(p) ==
    /\ Stage(p) = "lease"
    /\ IF recoveryLease # NoInitFile THEN EndInit(p) /\ UNCHANGED recoveryLease
       ELSE /\ recoveryLease' = [pid |-> Pid(p), named |-> FALSE] /\ ToStage(p, "name")
    /\ UNCHANGED <<initLock, files, counters, ousted>>

(* The pid goes to the file that was opened, if that is still the one at the path. *)
Signed(file, p) == IF file.pid = Pid(p) THEN [file EXCEPT !.named = TRUE] ELSE file
NameLease(p) ==
    /\ Stage(p) = "name"
    /\ recoveryLease' = Signed(recoveryLease, p) /\ ToStage(p, "recheck")
    /\ UNCHANGED <<initLock, files, counters, ousted>>

StillDeadUnasked == TRUE  \* mutant: the lock is not looked at again under the lease
StillDead == lockOwnerStatus(initLock) = "dead"
RecheckLock(p) ==
    /\ Stage(p) = "recheck"
    /\ ToStage(p, IF StillDead THEN "sweep" ELSE "drop")
    /\ UNCHANGED <<initLock, recoveryLease, files, counters, ousted>>

SweepResidue(p) ==
    /\ Stage(p) = "sweep"
    /\ residue' = {} /\ ToStage(p, "unlock")
    /\ UNCHANGED <<initLock, recoveryLease, artifact, completed, counters, ousted>>

(* Removing a lock that is gone throws. *)
UnlinkLock(p) ==
    /\ Stage(p) = "unlock"
    /\ initLock' = NoInitFile
    /\ initializer' = [initializer EXCEPT ![p].at = "drop", ![p].recovered = initLock # NoInitFile]
    /\ UNCHANGED <<recoveryLease, files, counters, ousted>>

DropLease(p) ==
    /\ Stage(p) = "drop"
    /\ recoveryLease' = NoInitFile
    /\ IF initializer[p].recovered THEN ToStage(p, "list") ELSE EndInit(p)
    /\ UNCHANGED <<initLock, files, counters, ousted>>
-----------------------------------------------------------------------------
(* inspectExistingState reads the directory and then the files; with another's lock *)
(* in the directory it reads nothing, and the run finds itself busy.               *)

Strange == recoveryLease # NoInitFile \/ residue # {}
Listed == \E i \in 1..Checkpoints : artifact[i] # <<>>

ListDirectory(p) ==
    /\ Stage(p) = "list"
    /\ IF initLock # NoInitFile THEN ToStage(p, "acquire")
       ELSE IF Strange THEN EndInit(p)
       ELSE initializer' = [initializer EXCEPT ![p].at = "read", ![p].listed = Listed]
    /\ UNCHANGED <<initLock, recoveryLease, files, counters, ousted>>

Backed == \A i \in DOMAIN completed : artifact[i] = completed[i]
Refused(p) ==
    \/ completed = <<>> /\ initializer[p].listed /\ ~initializer[p].recovered
    \/ ~Backed

ReadState(p) ==
    /\ Stage(p) = "read"
    /\ IF Refused(p) \/ Len(completed) = Checkpoints THEN EndInit(p) ELSE ToStage(p, "acquire")
    /\ UNCHANGED <<initLock, recoveryLease, files, counters, ousted>>

AcquireLock(p) ==
    /\ Stage(p) = "acquire"
    /\ IF initLock # NoInitFile THEN EndInit(p) /\ UNCHANGED initLock
       ELSE /\ initLock' = [pid |-> Pid(p), named |-> FALSE] /\ ToStage(p, "sign")
    /\ UNCHANGED <<recoveryLease, files, counters, ousted>>

SignLock(p) ==
    /\ Stage(p) = "sign"
    /\ initLock' = Signed(initLock, p) /\ ToStage(p, "list again")
    /\ UNCHANGED <<recoveryLease, files, counters, ousted>>

ListOwned(p) ==
    /\ Stage(p) = "list again"
    /\ IF Strange THEN ToStage(p, "release")
       ELSE initializer' = [initializer EXCEPT ![p].at = "read again", ![p].listed = Listed]
    /\ UNCHANGED <<initLock, recoveryLease, files, counters, ousted>>

ReadOwned(p) ==
    /\ Stage(p) = "read again"
    /\ IF Refused(p) \/ Len(completed) = Checkpoints THEN ToStage(p, "release")
       ELSE initializer' = [initializer EXCEPT ![p].at = "write", ![p].loaded = completed]
    /\ UNCHANGED <<initLock, recoveryLease, files, counters, ousted>>
-----------------------------------------------------------------------------
(* A checkpoint: the artifact is written and renamed, then the state.  The world may *)
(* differ from run to run, and so do the artifacts; the report holds the others.     *)

Checkpoint(p) == Len(initializer[p].loaded) + 1
Content(p) == IF Checkpoint(p) = Checkpoints THEN FlattenSeq(initializer[p].loaded) ELSE <<Pid(p)>>

WriteTemporary(p) ==
    /\ Stage(p) \in {"write", "write state"}
    /\ residue' = residue \cup {Pid(p)}
    /\ ToStage(p, IF Stage(p) = "write" THEN "rename" ELSE "rename state")
    /\ UNCHANGED <<initLock, recoveryLease, artifact, completed, counters, ousted>>

(* The rename of a temporary file that a sweep removed throws. *)
RenameArtifact(p) ==
    /\ Stage(p) = "rename"
    /\ IF Pid(p) \in residue
       THEN /\ artifact' = [artifact EXCEPT ![Checkpoint(p)] = Content(p)]
            /\ residue' = residue \ {Pid(p)} /\ ToStage(p, "write state")
       ELSE ToStage(p, "release") /\ UNCHANGED <<artifact, residue>>
    /\ UNCHANGED <<initLock, recoveryLease, completed, counters, ousted>>

RenameState(p) ==
    /\ Stage(p) = "rename state"
    /\ IF Pid(p) \in residue
       THEN LET state == Append(initializer[p].loaded, Content(p))
            IN /\ completed' = state /\ residue' = residue \ {Pid(p)}
               /\ initializer' = [initializer EXCEPT ![p].loaded = state,
                    ![p].at = IF Len(state) = Checkpoints THEN "release" ELSE "write"]
       ELSE ToStage(p, "release") /\ UNCHANGED <<completed, residue>>
    /\ UNCHANGED <<initLock, recoveryLease, artifact, counters, ousted>>

(* An inspection or a write that throws leaves no temporary file. *)
FailWrite(p) ==
    /\ Stage(p) \in {"write", "rename", "write state", "rename state"}
    /\ writeErrors < MaxWriteErrors /\ writeErrors' = writeErrors + 1
    /\ residue' = residue \ {Pid(p)} /\ ToStage(p, "release")
    /\ UNCHANGED <<initLock, recoveryLease, artifact, completed, inits, initDeaths, ousted>>

ReleaseLock(p) ==
    /\ Stage(p) = "release"
    /\ initLock' = NoInitFile /\ EndInit(p)
    /\ UNCHANGED <<recoveryLease, files, counters, ousted>>

DieInit(p) ==
    /\ Stage(p) # "idle" /\ initDeaths < MaxInitDeaths
    /\ initDeaths' = initDeaths + 1 /\ EndInit(p)
    /\ UNCHANGED <<initLock, recoveryLease, files, inits, writeErrors, ousted>>

InspectionNext ==
    \E p \in Initializers :
        \/ StartInit(p) \/ ReadLease(p) \/ ClearLease(p) \/ ReadLock(p) \/ TakeLease(p)
        \/ NameLease(p) \/ RecheckLock(p) \/ SweepResidue(p) \/ UnlinkLock(p) \/ DropLease(p)
        \/ ListDirectory(p) \/ ReadState(p) \/ AcquireLock(p) \/ SignLock(p) \/ ListOwned(p)
        \/ ReadOwned(p) \/ WriteTemporary(p) \/ RenameArtifact(p) \/ RenameState(p)
        \/ FailWrite(p) \/ ReleaseLock(p) \/ DieInit(p)

InspectionSpec == InspectionStart /\ [][InspectionNext]_inspectionVars
-----------------------------------------------------------------------------
(* The directory holds files of runs, and runs are at their stages. *)
InspectionTypeOK ==
    /\ initLock.pid \in 0..MaxInits /\ recoveryLease.pid \in 0..MaxInits
    /\ residue \subseteq 1..MaxInits /\ Len(completed) <= Checkpoints
    /\ \A p \in Initializers : Pid(p) \in 0..MaxInits

(* The recovery lease is exclusive: "stale-lock cleanup owns an exclusive recovery     *)
(* lease until residue is gone" (test/initialization.test.ts:397).  It is not, after a   *)
(* recovering run died: two runs may both clear its lease, the later one that of the     *)
(* earlier.                                                                        *)
Recovering == {p \in Initializers : Stage(p) \in {"sweep", "unlock"}}
RecoveryLeaseExclusive == \A p, q \in Recovering : p = q

(* Unless that happens, one run writes at a time, every completed checkpoint is backed *)
(* by its artifact, and the report is on the very artifacts beside it, whichever runs   *)
(* died, were resumed or failed in between (initializeInspectionCore).                 *)
Writing == {p \in Initializers : Stage(p) \in {"write", "rename", "write state", "rename state"}}
CheckpointsStand ==
    ousted \/
    /\ \A p, q \in Writing : p = q
    /\ Backed /\ (initLock = NoInitFile => residue = {})
    /\ Len(completed) = Checkpoints =>
          completed[Checkpoints] = FlattenSeq(SubSeq(completed, 1, Checkpoints - 1))

(* Nothing a run leaves without its lock is refused as unknown or stale for ever.        *)
(* It is: the first artifact stays when its state could not be written, or when the run  *)
(* that recovered a dead lock over it does not become its owner.                         *)
CanResume ==
    (\A p \in Initializers : Stage(p) = "idle") /\ initLock = NoInitFile =>
        residue = {} /\ (Listed => completed # <<>>)
=============================================================================
