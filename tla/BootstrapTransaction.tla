-------------------------- MODULE BootstrapTransaction --------------------------
(***************************************************************************)
(* Preparing a named agent project: src/bootstrap/initialize.ts.  A lock file,*)
(* a journal, a staged generation that becomes the published one, a pointer   *)
(* to it and the local MCP configuration; the process may die between any two *)
(* writes, any write may fail, and the next run claims the orphaned lock and  *)
(* rolls back what the journal names.  The native helper holds an OS lock, so *)
(* one initialisation runs at a time.                                        *)
(***************************************************************************)
EXTENDS Integers

CONSTANTS MaxRuns, MaxFailures              \* bounds: initialisations; writes that fail

ASSUME BootstrapAssumption == MaxRuns \in Nat /\ MaxFailures \in Nat

VARIABLES
    lockFile,       \* who owns the project: owner token and transaction
    journal,        \* transaction.json
    staging,        \* the token of the checkpoint in the staged generation
    generation,     \* the token of the checkpoint in the published generation
    pointer,        \* current.json names a generation
    configured,     \* the local MCP configuration was rewritten
    run,            \* the initialisation under way
    runs, failures

bootstrapVars == <<lockFile, journal, staging, generation, pointer, configured, run, runs, failures>>

PREPARATION_STATES == {"absent", "locked", "prepared", "committing", "complete", "rolling-back",
                       "recovery-required"}

NoLock == [owner |-> 0, tx |-> 0]
Absent == [state |-> "absent", tx |-> 0, owner |-> 0, checkpoint |-> 0, rebound |-> 0]
NoRun  == [at |-> "none", lock |-> NoLock, changed |-> FALSE]

BootstrapInit ==
    /\ lockFile = NoLock /\ journal = Absent /\ staging = 0 /\ generation = 0
    /\ pointer = FALSE /\ configured = FALSE
    /\ run = NoRun /\ runs = 0 /\ failures = 0

disk == <<lockFile, journal, staging, generation, pointer, configured>>
At(step) == run.at = step
Go(step) == run' = [run EXCEPT !.at = step]

(* close: the lock file goes unless it must keep the project closed. *)
Close(removeLock) ==
    /\ lockFile' = IF removeLock THEN NoLock ELSE lockFile
    /\ run' = NoRun
-----------------------------------------------------------------------------
(* A lock file without a live holder is claimed with the bytes it had. *)
StartSession ==
    /\ At("none") /\ runs < MaxRuns
    /\ runs' = runs + 1
    /\ IF lockFile = NoLock
       THEN LET lock == [owner |-> runs', tx |-> runs']
            IN lockFile' = lock /\ run' = [NoRun EXCEPT !.at = "opened", !.lock = lock]
       ELSE /\ run' = [NoRun EXCEPT !.at = "claimed",
                         !.lock = [owner |-> runs', tx |-> lockFile.tx]]
            /\ UNCHANGED lockFile
    /\ UNCHANGED <<journal, staging, generation, pointer, configured, failures>>

(* A claimed lock without a journal, or one of another transaction, is put back: the *)
(* project stays busy.  A complete project is reported again.                        *)
ReadClaimed ==
    /\ At("claimed")
    /\ IF journal = Absent \/ journal.tx # lockFile.tx \/ journal.owner # lockFile.owner
       THEN Close(FALSE)
       ELSE IF journal.state = "complete" THEN Close(TRUE)
       ELSE /\ lockFile' = run.lock
            /\ run' = [run EXCEPT !.at = "rebind"]
    /\ UNCHANGED <<journal, staging, generation, pointer, configured, runs, failures>>

ReadFresh ==
    /\ At("opened")
    /\ IF journal # Absent
       THEN Close(TRUE) /\ UNCHANGED journal
       ELSE /\ journal' = [Absent EXCEPT !.state = "locked", !.tx = run.lock.tx,
                                         !.owner = run.lock.owner]
            /\ Go("prepare") /\ UNCHANGED lockFile
    /\ UNCHANGED <<staging, generation, pointer, configured, runs, failures>>

(* The writes of a preparation, in order. *)
Prepare ==
    /\ At("prepare") /\ staging' = run.lock.owner /\ Go("prepared")
    /\ UNCHANGED <<lockFile, journal, generation, pointer, configured, runs, failures>>

JournalPrepared ==
    /\ At("prepared") /\ Go("committing")
    /\ journal' = [journal EXCEPT !.state = "prepared", !.checkpoint = staging]
    /\ UNCHANGED <<lockFile, staging, generation, pointer, configured, runs, failures>>

JournalCommitting ==
    /\ At("committing") /\ Go("publish")
    /\ journal' = [journal EXCEPT !.state = "committing"]
    /\ UNCHANGED <<lockFile, staging, generation, pointer, configured, runs, failures>>

PublishGeneration ==
    /\ At("publish") /\ Go("point")
    /\ generation' = staging /\ staging' = 0
    /\ UNCHANGED <<lockFile, journal, pointer, configured, runs, failures>>

PointToGeneration ==
    /\ At("point") /\ Go("configure")
    /\ pointer' = TRUE
    /\ UNCHANGED <<lockFile, journal, staging, generation, configured, runs, failures>>

PublishConfiguration ==
    /\ At("configure")
    /\ configured' = TRUE
    /\ run' = [run EXCEPT !.at = "complete", !.changed = ~configured]
    /\ UNCHANGED <<lockFile, journal, staging, generation, pointer, runs, failures>>

JournalComplete ==
    /\ At("complete") /\ Go("completed")
    /\ journal' = [journal EXCEPT !.state = "complete"]
    /\ UNCHANGED <<lockFile, staging, generation, pointer, configured, runs, failures>>

ReportComplete ==
    /\ At("completed") /\ Close(TRUE)
    /\ UNCHANGED <<journal, staging, generation, pointer, configured, runs, failures>>
-----------------------------------------------------------------------------
(* A claimed transaction is bound to the new owner before it is undone: journal,     *)
(* checkpoint, journal.  The checkpoint must still be there, staged or published.     *)
Recoverable ==
    journal.checkpoint = 0
    \/ (IF staging # 0 THEN staging ELSE generation) \in
          ({journal.checkpoint, journal.rebound} \ {0})

Rebind ==
    /\ At("rebind")
    /\ IF ~Recoverable
       THEN /\ lockFile' = [lockFile EXCEPT !.owner = journal.owner]     \* put back
            /\ run' = NoRun /\ UNCHANGED journal
       ELSE /\ journal' = [journal EXCEPT !.state = "rolling-back", !.owner = run.lock.owner,
                             !.rebound = IF journal.checkpoint = 0 THEN 0 ELSE run.lock.owner]
            /\ Go(IF journal.checkpoint = 0 THEN "unstage" ELSE "rebind checkpoint")
            /\ UNCHANGED lockFile
    /\ UNCHANGED <<staging, generation, pointer, configured, runs, failures>>

RebindCheckpoint ==
    /\ At("rebind checkpoint") /\ Go("rebound")
    /\ staging' = IF staging # 0 THEN run.lock.owner ELSE 0
    /\ generation' = IF staging = 0 THEN run.lock.owner ELSE generation
    /\ UNCHANGED <<lockFile, journal, pointer, configured, runs, failures>>

Rebound ==
    /\ At("rebound") /\ Go("unstage")
    /\ journal' = [journal EXCEPT !.checkpoint = run.lock.owner, !.rebound = 0]
    /\ UNCHANGED <<lockFile, staging, generation, pointer, configured, runs, failures>>

(* A slip: the journal goes before the pointer.                                         *)
RollbackForgetful ==
    /\ \/ At("unstage") /\ staging' = 0 /\ Go("unpublish")
          /\ UNCHANGED <<lockFile, journal, generation, pointer>>
       \/ At("unpublish") /\ generation' = 0 /\ Go("unpoint")
          /\ UNCHANGED <<lockFile, journal, staging, pointer>>
       \/ At("unpoint") /\ journal' = Absent /\ Close(TRUE)
          /\ UNCHANGED <<staging, generation, pointer>>
    /\ UNCHANGED <<configured, runs, failures>>

(* rollbackAbsent: four removals, the journal last; then the lock goes. *)
RollbackAbsent ==
    /\ \/ At("unstage") /\ staging' = 0 /\ Go("unpublish")
          /\ UNCHANGED <<lockFile, journal, generation, pointer>>
       \/ At("unpublish") /\ generation' = 0 /\ Go("unpoint")
          /\ UNCHANGED <<lockFile, journal, staging, pointer>>
       \/ At("unpoint") /\ pointer' = FALSE /\ Go("forget")
          /\ UNCHANGED <<lockFile, journal, staging, generation>>
       \/ At("forget") /\ journal' = Absent /\ Go("undone")
          /\ UNCHANGED <<lockFile, staging, generation, pointer>>
       \/ At("undone") /\ Close(TRUE)
          /\ UNCHANGED <<journal, staging, generation, pointer>>
    /\ UNCHANGED <<configured, runs, failures>>

(* A write of a fresh preparation fails: the configuration is put back, the journal  *)
(* says rolling-back and the removals begin.  A complete project stays.               *)
PreparationFails ==
    /\ run.at \in {"prepare", "prepared", "committing", "publish", "point", "configure",
                   "complete", "completed"}
    /\ failures < MaxFailures /\ failures' = failures + 1
    /\ \/ /\ configured' = (configured /\ ~run.changed)
          /\ IF journal.state = "complete"
             THEN Close(TRUE) /\ UNCHANGED journal
             ELSE /\ journal' = [journal EXCEPT !.state = "rolling-back"]
                  /\ Go("unstage") /\ UNCHANGED lockFile
       \/ /\ run.changed                              \* nor can the configuration be put back
          /\ journal' = [journal EXCEPT !.state = "recovery-required"]
          /\ run' = NoRun /\ UNCHANGED <<lockFile, configured>>
    /\ UNCHANGED <<staging, generation, pointer, runs>>

(* A removal fails: recovery-required where the run was fresh, and the lock stays. *)
RollbackFails ==
    /\ run.at \in {"unstage", "unpublish", "unpoint", "forget"}
    /\ failures < MaxFailures /\ failures' = failures + 1
    /\ journal' = [journal EXCEPT !.state = "recovery-required", !.rebound = 0]
    /\ run' = NoRun
    /\ UNCHANGED <<lockFile, staging, generation, pointer, configured, runs>>

Die ==
    /\ ~At("none")
    /\ run' = NoRun
    /\ UNCHANGED <<disk, runs, failures>>

BootstrapNext ==
    \/ StartSession \/ ReadClaimed \/ ReadFresh
    \/ Prepare \/ JournalPrepared \/ JournalCommitting \/ PublishGeneration \/ PointToGeneration
    \/ PublishConfiguration \/ JournalComplete \/ ReportComplete
    \/ Rebind \/ RebindCheckpoint \/ Rebound \/ RollbackAbsent
    \/ PreparationFails \/ RollbackFails \/ Die

BootstrapSpec == BootstrapInit /\ [][BootstrapNext]_bootstrapVars
-----------------------------------------------------------------------------
BootstrapTypeOK ==
    /\ journal.state \in PREPARATION_STATES
    /\ {lockFile.owner, journal.owner, staging, generation} \subseteq 0..MaxRuns
    /\ pointer \in BOOLEAN /\ configured \in BOOLEAN /\ runs <= MaxRuns /\ failures <= MaxFailures

(* The project is open (no lock file) only when it is complete, with the checkpointed  *)
(* generation published and pointed to, or absent without any residue, wherever runs   *)
(* died, writes failed and recoveries died in turn.                                   *)
OpenProjectIsWhole ==
    /\ lockFile = NoLock =>
          \/ journal.state = "complete"
          \/ journal = Absent /\ staging = 0 /\ generation = 0 /\ ~pointer
    /\ journal.state = "complete" =>
          pointer /\ staging = 0 /\ generation = journal.checkpoint /\ generation # 0

(* An orphaned transaction can be rolled back by the next run: docs/superpowers/specs,  *)
(* "Every restart must attempt only the recorded rollback".                            *)
RollbackCanRestart ==
    At("none") /\ journal.state \notin {"absent", "complete"} => Recoverable
=============================================================================
