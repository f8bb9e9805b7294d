----------------------------- MODULE SessionActivation -----------------------------
(***************************************************************************)
(* The credentials of a dogfood task: activateCodexPrincipalSessions issues a   *)
(* credential per profile in the file of principals and writes its token to a  *)
(* file for the launcher; a failure revokes what was issued and       *)
(* removes what was written.  Two operators may activate one plan; the file is  *)
(* extended under a lock directory that is removed when it is 20 seconds old.   *)
(*                                                                         *)
(* A token is the number of its draw.  All the profiles belong to one task.     *)
(***************************************************************************)
EXTENDS Integers, Sequences, FiniteSets, SequencesExt

CONSTANTS
    Operators,          \* processes that run "authority certify activate-codex"
    Profiles,           \* the profiles of the plan are 1..Profiles, in its order
    MaxTokens,          \* bound: credentials drawn
    MaxMishaps          \* bound: deaths, failing writes, locks removed under a live owner

ASSUME SessionAssumption ==
    "free" \notin Operators /\ Profiles \in Nat \ {0} /\ MaxTokens \in Nat /\ MaxMishaps \in Nat

VARIABLES
    principals,     \* the lines of the file of principals
    tornLine,       \* its last line is not whole
    principalLock,  \* who made the lock directory; "free"
    tokenFiles,     \* profile -> the token in its file; None, or Blank when only created
    activation,     \* operator -> where its activation stands
    draws, mishaps,
    stolen,         \* history: a lock was removed from under a live owner
    orphans         \* history: tokens whose issuer died, or could not revoke them

sessionVars == <<principals, tornLine, principalLock, tokenFiles, activation, draws, mishaps, stolen,
                 orphans>>

None == 0
Blank == -1
AtRest == [at |-> "rest", profile |-> 1, token |-> None, issued |-> {}, wrote |-> {}]

SessionInit ==
    /\ principals = <<>> /\ tornLine = FALSE /\ principalLock = "free"
    /\ tokenFiles = [f \in 1..Profiles |-> None]
    /\ activation = [o \in Operators |-> AtRest]
    /\ draws = 0 /\ mishaps = 0 /\ stolen = FALSE /\ orphans = {}
-----------------------------------------------------------------------------
(* load: a credential stands until a later line revokes it or its task; one issued after *)
(* its task was revoked never stands.                                                   *)
Line(kind, token, profile) == [kind |-> kind, token |-> token, profile |-> profile]
RevokedTask == \E line \in ToSet(principals) : line.kind = "task-revoked"
LiveTokens ==
    IF RevokedTask THEN {}
    ELSE {line.token : line \in {x \in ToSet(principals) : x.kind = "issued"}}
         \ {line.token : line \in {x \in ToSet(principals) : x.kind = "revoked"}}
ProfileOf(token) ==
    (CHOOSE line \in ToSet(principals) : line.kind = "issued" /\ line.token = token).profile

InPlace(o, at) == activation[o].at = at
Continue(o, at) == activation' = [activation EXCEPT ![o].at = at]

registryFile  == <<principals, tornLine>>
limits == <<draws, mishaps, stolen>>
Mishap == mishaps < MaxMishaps /\ mishaps' = mishaps + 1

(* Every profile's binding is resolved and checked before anything is issued: one that is *)
(* missing, expired or of the wrong mode refuses the command, which may be run again.     *)
ResolveBindings(o) ==
    /\ activation[o].at \in {"rest", "refused"}
    /\ \E at \in {"issue", "refused"} : activation' = [activation EXCEPT ![o] = [AtRest EXCEPT !.at = at]]
    /\ UNCHANGED <<registryFile, principalLock, tokenFiles, limits, orphans>>

(* acquireFileLock, for an issue and for a revocation; a lock that lasts is waited for    *)
(* ten seconds.                                                                         *)
AcquireFileLock(o) ==
    /\ activation[o].at \in {"issue", "revoke"} /\ principalLock = "free"
    /\ principalLock' = o
    /\ Continue(o, IF InPlace(o, "issue") THEN "load" ELSE "append-revoked")
    /\ UNCHANGED <<registryFile, tokenFiles, limits, orphans>>

RegistryBusy(o) ==
    /\ activation[o].at \in {"issue", "revoke"} /\ principalLock # "free"
    /\ IF InPlace(o, "issue")
       THEN Continue(o, "undo") /\ UNCHANGED orphans
       ELSE /\ activation' = [activation EXCEPT ![o].at = "undo", ![o].issued = @ \ {activation[o].token}]
            /\ orphans' = orphans \cup {activation[o].token}
    /\ UNCHANGED <<registryFile, principalLock, tokenFiles, limits>>

HolderWorks ==
    /\ principalLock \in Operators
    /\ activation[principalLock].at \in {"load", "append-issued", "append-revoked", "release",
                                         "release-revoked"}

(* A lock that looked 20 seconds old: a dead owner's, or one that is removed from under a *)
(* slow owner, or made since by another contender that had removed the old one.           *)

RemoveOldRegistryLock(o) ==
    /\ activation[o].at \in {"issue", "revoke"} /\ principalLock # "free"
    /\ IF HolderWorks THEN Mishap /\ stolen' = TRUE ELSE UNCHANGED <<mishaps, stolen>>
    /\ principalLock' = "free"
    /\ UNCHANGED <<registryFile, tokenFiles, activation, draws, orphans>>

(* A runtime session has one credential at a time, expired or not. *)
Issuable(profile) ==
    /\ ~tornLine /\ ~RevokedTask
    /\ \A token \in LiveTokens : ProfileOf(token) # profile

LoadUnlocked(o) ==
    /\ InPlace(o, "load")
    /\ Continue(o, IF Issuable(activation[o].profile) THEN "append-issued" ELSE "release")
    /\ UNCHANGED <<registryFile, principalLock, tokenFiles, limits, orphans>>

AppendIssued(o) ==
    /\ InPlace(o, "append-issued")
    /\ draws < MaxTokens /\ draws' = draws + 1
    /\ activation' = [activation EXCEPT ![o].at = "release", ![o].token = draws']
    /\ principals' = Append(principals, Line("issued", draws', activation[o].profile))
    /\ UNCHANGED <<tornLine, principalLock, tokenFiles, mishaps, stolen, orphans>>

AppendRevoked(o) ==
    /\ InPlace(o, "append-revoked")
    /\ principals' = Append(principals, Line("revoked", activation[o].token,
                                             ProfileOf(activation[o].token)))
    /\ Continue(o, "release-revoked")
    /\ UNCHANGED <<tornLine, principalLock, tokenFiles, limits, orphans>>

(* The disk is full: the line stops in the middle, and every reader calls it corrupt.    *)
AppendTorn(o) ==
    /\ activation[o].at \in {"append-issued", "append-revoked"}
    /\ Mishap /\ tornLine' = TRUE
    /\ IF InPlace(o, "append-issued") THEN Continue(o, "release") /\ UNCHANGED orphans
       ELSE /\ Continue(o, "release-revoked") /\ orphans' = orphans \cup {activation[o].token}
    /\ UNCHANGED <<principals, principalLock, tokenFiles, draws, stolen>>

(* The lock directory is removed, whoever made it.  A credential counts as issued when    *)
(* the call returns.                                                                     *)
ReleaseFileLock(o) ==
    /\ activation[o].at \in {"release", "release-revoked"}
    /\ principalLock' = "free"
    /\ LET a == activation[o]
       IN activation' = [activation EXCEPT ![o] =
            IF a.at = "release-revoked"
            THEN [a EXCEPT !.at = "undo", !.issued = @ \ {a.token}, !.token = None]
            ELSE IF a.token = None THEN [a EXCEPT !.at = "undo"]
                 ELSE [a EXCEPT !.at = "write", !.issued = @ \cup {a.token}]]
    /\ UNCHANGED <<registryFile, tokenFiles, limits, orphans>>
-----------------------------------------------------------------------------
Next1(a) == IF a.profile = Profiles THEN [a EXCEPT !.at = "report", !.token = None]
                                    ELSE [a EXCEPT !.at = "issue", !.token = None, !.profile = @ + 1]

(* The file is created exclusively and then written; one that is there is left alone.    *)
WriteTokenFile(o) ==
    /\ InPlace(o, "write")
    /\ LET a == activation[o]
       IN \/ /\ tokenFiles[a.profile] = None
             /\ tokenFiles' = [tokenFiles EXCEPT ![a.profile] = a.token]
             /\ activation' = [activation EXCEPT ![o] =
                                 Next1([a EXCEPT !.wrote = @ \cup {a.profile}])]
             /\ UNCHANGED mishaps
          \/ /\ tokenFiles[a.profile] # None
             /\ activation' = [activation EXCEPT ![o].at = "undo", ![o].token = None]
             /\ UNCHANGED <<tokenFiles, mishaps>>
          \/ /\ tokenFiles[a.profile] = None /\ Mishap
             /\ tokenFiles' = [tokenFiles EXCEPT ![a.profile] = Blank]
             /\ activation' = [activation EXCEPT ![o].at = "undo", ![o].token = None]
    /\ UNCHANGED <<registryFile, principalLock, draws, stolen, orphans>>

(* revoke reads the file first, which a torn line makes it refuse; its failure is kept    *)
(* from the caller.                                                                      *)
RevokeIssued(o) ==
    /\ InPlace(o, "undo")
    /\ \E token \in activation[o].issued :
          IF tornLine
          THEN /\ activation' = [activation EXCEPT ![o].issued = @ \ {token}]
               /\ orphans' = orphans \cup {token}
          ELSE /\ activation' = [activation EXCEPT ![o].at = "revoke", ![o].token = token]
               /\ UNCHANGED orphans
    /\ UNCHANGED <<registryFile, principalLock, tokenFiles, limits>>

(* A slip: the file that made the activation fail is removed as well.                    *)
RemoveTokenFilesAll(o) ==
    /\ InPlace(o, "undo") /\ activation[o].issued = {}
    /\ tokenFiles' = [f \in 1..Profiles |-> IF f <= activation[o].profile THEN None ELSE tokenFiles[f]]
    /\ activation' = [activation EXCEPT ![o] = [AtRest EXCEPT !.at = "refused"]]
    /\ UNCHANGED <<registryFile, principalLock, limits, orphans>>

(* Only the files this activation wrote to the end are removed. *)
RemoveTokenFiles(o) ==
    /\ InPlace(o, "undo") /\ activation[o].issued = {}
    /\ IF activation[o].wrote = {}
       THEN /\ activation' = [activation EXCEPT ![o] = [AtRest EXCEPT !.at = "refused"]]
            /\ UNCHANGED tokenFiles
       ELSE \E f \in activation[o].wrote :
               /\ tokenFiles' = [tokenFiles EXCEPT ![f] = None]
               /\ activation' = [activation EXCEPT ![o].wrote = @ \ {f}]
    /\ UNCHANGED <<registryFile, principalLock, limits, orphans>>

(* The command writes the result next to the evidence; when that fails it answers         *)
(* "refused" although the sessions are active.                                           *)
ReportActivation(o) ==
    /\ InPlace(o, "report")
    /\ \/ Continue(o, "activated") /\ UNCHANGED mishaps
       \/ Continue(o, "unreported") /\ Mishap
    /\ UNCHANGED <<registryFile, principalLock, tokenFiles, draws, stolen, orphans>>

OperatorDies(o) ==
    /\ activation[o].at \notin {"rest", "refused", "activated", "unreported"}
    /\ Mishap
    /\ orphans' = orphans \cup activation[o].issued
                          \cup ({activation[o].token} \ {None})
                          \cup {tokenFiles[f] : f \in activation[o].wrote}
    /\ tornLine' \in IF activation[o].at \in {"append-issued", "append-revoked"}
                     THEN {tornLine, TRUE} ELSE {tornLine}
    /\ tokenFiles' \in IF InPlace(o, "write") /\ tokenFiles[activation[o].profile] = None
                       THEN {tokenFiles, [tokenFiles EXCEPT ![activation[o].profile] = Blank]}
                       ELSE {tokenFiles}
    /\ activation' = [activation EXCEPT ![o] = AtRest]
    /\ UNCHANGED <<principals, principalLock, draws, stolen>>

(* revokeTask of another process, which holds the lock for one append.                    *)
RevokeTask ==
    /\ ~tornLine /\ principalLock = "free" /\ ~RevokedTask
    /\ principals' = Append(principals, Line("task-revoked", None, None))
    /\ UNCHANGED <<tornLine, principalLock, tokenFiles, activation, limits, orphans>>

SessionNext ==
    \/ RevokeTask
    \/ \E o \in Operators :
         \/ ResolveBindings(o) \/ AcquireFileLock(o) \/ RegistryBusy(o) \/ RemoveOldRegistryLock(o)
         \/ LoadUnlocked(o) \/ AppendIssued(o) \/ AppendRevoked(o) \/ AppendTorn(o)
         \/ ReleaseFileLock(o) \/ WriteTokenFile(o) \/ RevokeIssued(o) \/ RemoveTokenFiles(o)
         \/ ReportActivation(o) \/ OperatorDies(o)

SessionSpec == SessionInit /\ [][SessionNext]_sessionVars
-----------------------------------------------------------------------------
SessionPlaces == {"rest", "issue", "load", "append-issued", "release", "write", "report", "activated",
                  "unreported", "undo", "revoke", "append-revoked", "release-revoked", "refused"}

SessionTypeOK ==
    /\ principalLock \in Operators \cup {"free"}
    /\ tokenFiles \in [1..Profiles -> Blank..MaxTokens]
    /\ \A o \in Operators : /\ activation[o].at \in SessionPlaces
                            /\ activation[o].issued \subseteq 1..draws
                            /\ activation[o].wrote \subseteq 1..Profiles

(* An activation or its compensation still has the token in hand. *)
Issuing(token) ==
    \E o \in Operators :
       /\ activation[o].at \notin {"activated", "unreported"}
       /\ token \in {activation[o].token} \cup activation[o].issued
                     \cup {tokenFiles[f] : f \in activation[o].wrote}

(* The sessions of a finished activation stand: whatever other activations of the plan     *)
(* fail, compensate or die, its token files hold its own credentials and these are live,   *)
(* until the task is revoked.                                                             *)
ActivationStands ==
    \A o \in Operators :
       activation[o].at \in {"report", "activated", "unreported"} =>
          \A f \in 1..Profiles : /\ tokenFiles[f] \in activation[o].issued
                                 /\ tokenFiles[f] \in LiveTokens \/ RevokedTask

(* One runtime session never has two credentials that stand, as long as no lock was taken  *)
(* from a live owner; with such a theft the second one does not last: its token file is    *)
(* there already, and it is revoked.                                                     *)
OneCredentialEach ==
    \A t, u \in LiveTokens :
       ProfileOf(t) = ProfileOf(u) /\ t # u =>
          stolen /\ (Issuing(t) \/ Issuing(u) \/ {t, u} \cap orphans # {})

(* What an activation leaves when it ends is a token file and a live credential, or        *)
(* neither: only a death, or a revocation that was refused, parts them.                   *)
FiledIsLive ==
    /\ \A f \in 1..Profiles : tokenFiles[f] \notin {None, Blank} =>
          tokenFiles[f] \in LiveTokens \cup orphans \/ Issuing(tokenFiles[f]) \/ RevokedTask
    /\ \A t \in LiveTokens \ orphans : Issuing(t) \/ \E f \in 1..Profiles : tokenFiles[f] = t

(* Sessions stand, alone and with their files. *)
SessionsStand == ActivationStands /\ OneCredentialEach /\ FiledIsLive
=============================================================================
