------------------------------- MODULE DecisionSink -------------------------------
(***************************************************************************)
(* The file store of gate decisions, src/authority/decision.ts: one file,      *)
(* rewritten whole under a lock directory whose owner file names a process.    *)
(* A dead owner's lock is reclaimed by a rename; the check of the owner and    *)
(* the rename are two steps, for a reclaimer and for an owner that lets go.    *)
(***************************************************************************)
EXTENDS Integers, FiniteSets

CONSTANTS
    Writers,            \* processes that append, one record each life
    Claims,             \* ingress claims
    MaxLives            \* bound: lives (process ids) drawn

ASSUME SinkAssumption == MaxLives \in Nat

VARIABLES
    lockDir,        \* 0 no lock, -1 a lock without its owner file, else the owner's life
    aside,          \* writer -> the lock it renamed away
    store,          \* the decisions in the file
    writer,         \* writer -> its life and where its append is
    lives,          \* process ids drawn
    acked,          \* history: records whose append was reported as done
    ousted          \* history: a live owner's lock was renamed away by another process

sinkVars == <<lockDir, aside, store, writer, lives, acked, ousted>>

Gone == [life |-> 0, at |-> "gone", claim |-> "none", expected |-> 0, read |-> {}, then |-> "none"]
Steps == {"gone", "acquire", "created", "check", "rename", "inspect", "load", "persist", "failed"}

SinkInit ==
    /\ lockDir = 0 /\ aside = [w \in Writers |-> 0]
    /\ store = {} /\ acked = {} /\ lives = 0 /\ ousted = FALSE
    /\ writer = [w \in Writers |-> Gone]

(* A slip: a live owner is known by its writing only.                                    *)
AliveWriting(life) == \E w \in Writers : writer[w].life = life /\ writer[w].at = "persist"

Alive(life)  == \E w \in Writers : writer[w].life = life
Record(w)    == [event |-> writer[w].life, claim |-> writer[w].claim]
Proceed(w, step) == writer' = [writer EXCEPT ![w].at = step]
sinkHistory  == <<acked, ousted>>

(* A slip: another event's primary of the claim does not count.                          *)
KnownEvent(w, records) == Record(w) \in records

(* classifyExisting: the same event, or another primary of the claim. *)
Known(w, records) == \E r \in records : r.claim = writer[w].claim
-----------------------------------------------------------------------------
(* A process starts and appends a record. *)
AppendStart(w, claim) ==
    /\ writer[w].at = "gone" /\ lives < MaxLives
    /\ lives' = lives + 1
    /\ writer' = [writer EXCEPT ![w] = [Gone EXCEPT !.life = lives', !.at = "acquire",
                                                    !.claim = claim]]
    /\ UNCHANGED <<lockDir, aside, store, sinkHistory>>

(* mkdir; while a live owner or an unpublished lock stands, wait; a dead owner's lock    *)
(* is taken apart; the deadline ends the wait.                                          *)
AcquireLockDir(w) ==
    /\ writer[w].at = "acquire"
    /\ \/ /\ lockDir = 0
          /\ lockDir' = -1 /\ Proceed(w, "created")
       \/ /\ lockDir > 0 /\ ~Alive(lockDir)
          /\ writer' = [writer EXCEPT ![w].at = "check", ![w].expected = lockDir,
                                      ![w].then = "acquire"]
          /\ UNCHANGED lockDir
       \/ /\ lockDir = -1 \/ (lockDir > 0 /\ Alive(lockDir))
          /\ Proceed(w, "failed") /\ UNCHANGED lockDir
    /\ UNCHANGED <<aside, store, lives, sinkHistory>>

(* The owner file is created exclusively, in whatever lock directory there is now.  A    *)
(* failure throws the directory away.                                                   *)
PublishOwner(w) ==
    /\ writer[w].at = "created"
    /\ \/ /\ lockDir = -1
          /\ lockDir' = writer[w].life /\ Proceed(w, "load") /\ UNCHANGED ousted
       \/ /\ lockDir' = 0 /\ Proceed(w, "failed")
          /\ ousted' = (ousted \/ (lockDir > 0 /\ Alive(lockDir)))
    /\ UNCHANGED <<aside, store, lives, acked>>

(* retireOwnedLock: is it still the lock that was read?                                 *)
CheckOwner(w) ==
    /\ writer[w].at = "check"
    /\ Proceed(w, IF lockDir = writer[w].expected THEN "rename"
                  ELSE IF writer[w].then # "acquire" THEN "gone"
                  ELSE IF lockDir > 0 THEN "acquire" ELSE "failed")
    /\ UNCHANGED <<lockDir, aside, store, lives, sinkHistory>>

RenameLock(w) ==
    /\ writer[w].at = "rename"
    /\ IF lockDir = 0
       THEN /\ Proceed(w, IF writer[w].then = "acquire" THEN "failed" ELSE "gone")
            /\ UNCHANGED <<lockDir, aside, ousted>>
       ELSE /\ aside' = [aside EXCEPT ![w] = lockDir]
            /\ lockDir' = 0
            /\ ousted' = (ousted \/ lockDir = -1 \/ (lockDir # writer[w].life /\ Alive(lockDir)))
            /\ Proceed(w, "inspect")
    /\ UNCHANGED <<store, lives, acked>>

(* The renamed lock is looked at once more and put back when it is another's; a rename   *)
(* replaces an empty directory and fails on a lock that has its owner file.             *)
InspectRenamed(w) ==
    /\ writer[w].at = "inspect"
    /\ aside' = [aside EXCEPT ![w] = 0]
    /\ IF aside[w] = writer[w].expected
       THEN Proceed(w, IF writer[w].then = "acquire" THEN "acquire" ELSE "gone")
            /\ UNCHANGED <<lockDir, ousted>>
       ELSE /\ lockDir' = IF aside[w] > 0 /\ lockDir <= 0 THEN aside[w] ELSE lockDir
            /\ ousted' = (ousted \/ (aside[w] > 0 /\ lockDir = -1))
            /\ Proceed(w, IF writer[w].then = "acquire" THEN "failed" ELSE "gone")
    /\ UNCHANGED <<store, lives, acked>>

LoadStore(w) ==
    /\ writer[w].at = "load"
    /\ writer' = IF Known(w, store)
                 THEN [writer EXCEPT ![w].at = "check", ![w].expected = writer[w].life,
                                     ![w].then = "gone"]
                 ELSE [writer EXCEPT ![w].at = "persist", ![w].read = store]
    /\ UNCHANGED <<lockDir, aside, store, lives, sinkHistory>>

(* What was read and the new record replace the file; then the lock is let go.          *)
PersistStore(w) ==
    /\ writer[w].at = "persist"
    /\ store' = writer[w].read \cup {Record(w)}
    /\ acked' = acked \cup {Record(w)}
    /\ writer' = [writer EXCEPT ![w].at = "check", ![w].expected = writer[w].life,
                                ![w].then = "gone", ![w].read = {}]
    /\ UNCHANGED <<lockDir, aside, lives, ousted>>

(* The lock could not be had: the store is classified once more and the answer is given.*)
AppendFails(w) ==
    /\ writer[w].at = "failed"
    /\ Proceed(w, "acquire") \/ writer' = [writer EXCEPT ![w] = Gone]
    /\ UNCHANGED <<lockDir, aside, store, lives, sinkHistory>>

(* The append has been answered and the process may end. *)
WriterDies(w) ==
    /\ writer[w].life > 0
    /\ writer' = [writer EXCEPT ![w] = Gone]
    /\ UNCHANGED <<lockDir, aside, store, lives, sinkHistory>>

SinkNext ==
    \E w \in Writers :
       \/ \E c \in Claims : AppendStart(w, c)
       \/ AcquireLockDir(w) \/ PublishOwner(w) \/ CheckOwner(w) \/ RenameLock(w)
       \/ InspectRenamed(w) \/ LoadStore(w) \/ PersistStore(w) \/ AppendFails(w)
       \/ WriterDies(w)

SinkSpec == SinkInit /\ [][SinkNext]_sinkVars
-----------------------------------------------------------------------------
SinkTypeOK ==
    /\ lockDir \in -1..MaxLives /\ lives \in 0..MaxLives
    /\ aside \in [Writers -> -1..MaxLives]
    /\ store \subseteq [event : 1..MaxLives, claim : Claims]
    /\ acked \subseteq [event : 1..MaxLives, claim : Claims]
    /\ \A w \in Writers : writer[w].at \in Steps /\ writer[w].life \in 0..MaxLives
    /\ ousted \in BOOLEAN

(* The file never names two primaries of one claim.                                     *)
OnePrimary == \A r, s \in store : r.claim = s.claim => r = s

(* Unless a live owner was ousted, what an append reported as done stays in the file.   *)
AppendedStays == ~ousted => acked \subseteq store

(* A reclaim never takes the lock of a live owner.                                      *)
ReclaimsOnlyTheDead == ~ousted

(* What an append reported as done is in the file.                                      *)
AppendsKept == acked \subseteq store
=============================================================================
