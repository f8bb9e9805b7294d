---------------------------- MODULE DelegationService ----------------------------
(***************************************************************************)
(* The delegation authority of delegation-service.ts: it answers for grants    *)
(* that are counted in the budget ledger (DelegationBudget, atomic here) and    *)
(* listed in a registry file, which every host process keeps a copy of.  A     *)
(* registration reloads that copy under the registry's lock; a revocation does  *)
(* not.  Calls of one process interleave at every await, a process may die      *)
(* anywhere, and a lock older than its limit is removed by whoever waits.       *)
(*                                                                         *)
(* One task with its root grant; policies, fan-out, signatures and clocks are   *)
(* left out.                                                               *)
(***************************************************************************)
EXTENDS Integers

CONSTANTS
    Hosts,              \* processes over the same registry
    Inquirers,          \* slots for calls in progress
    Grants,             \* child grants of the task
    MaxRequests,        \* bound: calls
    MaxSlow             \* bound: locks removed from under a live holder

ASSUME DelegationAssumption == MaxRequests \in Nat /\ MaxSlow \in Nat

VARIABLES
    registry,       \* delegation-registry.json
    registryLock,   \* the lock directory exists
    accounts,       \* the same task in the budget ledger
    memory,         \* host -> its copy of the registry
    loading,        \* host -> its first load: never, pending or done
    inquiries,      \* slot -> the call, its step, the file read, and whether its record is current
    begun,          \* calls so far
    slow,           \* locks removed from under a live holder so far
    answered,       \* history: children whose registration was answered "accepted"
    losers,         \* history: operations whose write dropped such a child
    lateLoad        \* history: a first load took effect late: a call had its record, or the file had changed

delegationVars == <<registry, registryLock, accounts, memory, loading, inquiries, begun, slow,
                    answered, losers, lateLoad>>

NoTask == [root |-> FALSE, children |-> {}, revoked |-> FALSE]
Resting == [host |-> "none", op |-> "none", child |-> "none", at |-> "rest", file |-> NoTask,
            current |-> FALSE]

DelegationInit ==
    /\ registry = NoTask /\ registryLock = FALSE /\ accounts = NoTask
    /\ memory = [h \in Hosts |-> NoTask] /\ loading = [h \in Hosts |-> "never"]
    /\ inquiries = [i \in Inquirers |-> Resting]
    /\ begun = 0 /\ slow = 0 /\ answered = {} /\ losers = {} /\ lateLoad = FALSE
-----------------------------------------------------------------------------
On(i)       == inquiries[i].host
Reached(i, at) == inquiries[i].at = at
Forward(i, at) == inquiries' = [inquiries EXCEPT ![i].at = at]
Done(i)     == inquiries' = [inquiries EXCEPT ![i] = Resting]
Locked      == {"read", "reload", "account", "serialize", "write", "unlock"}
HeldBy(i)   == inquiries[i].at \in Locked /\ ~(inquiries[i].op = "revoke" /\ Reached(i, "account"))

histories == <<answered, losers, lateLoad>>
stores    == <<registry, accounts>>

Inquire(i) ==
    /\ Reached(i, "rest") /\ begun < MaxRequests /\ begun' = begun + 1
    /\ \E h \in Hosts, op \in {"root", "child", "revoke"}, child \in Grants :
          inquiries' = [inquiries EXCEPT ![i] =
             [Resting EXCEPT !.host = h, !.op = op, !.child = child,
                             !.at = IF op = "revoke" THEN "ensure" ELSE "lock"]]
    /\ UNCHANGED <<stores, registryLock, memory, loading, slow, histories>>

(* The registry is loaded once for calls that do not take its lock: read, then put in     *)
(* place of the copy; calls that come meanwhile wait for it.                             *)
EnsureLoaded(i) ==
    /\ Reached(i, "ensure") /\ loading[On(i)] = "never"
    /\ loading' = [loading EXCEPT ![On(i)] = "pending"]
    /\ inquiries' = [inquiries EXCEPT ![i].file = registry, ![i].at = "install"]
    /\ UNCHANGED <<stores, registryLock, memory, begun, slow, histories>>

(* Replacing the copy orphans the records that other calls of the process hold.          *)
Replace(i, at) ==
    /\ memory' = [memory EXCEPT ![On(i)] = inquiries[i].file]
    /\ loading' = [loading EXCEPT ![On(i)] = "done"]
    /\ inquiries' = [j \in Inquirers |->
          IF j = i THEN [inquiries[i] EXCEPT !.at = at, !.current = TRUE]
          ELSE [inquiries[j] EXCEPT !.current = @ /\ On(j) # On(i)]]

InstallFirstLoad(i) ==
    /\ Reached(i, "install") /\ Replace(i, "ensure")
    /\ lateLoad' = (lateLoad \/ inquiries[i].file # registry
                              \/ \E j \in Inquirers : On(j) = On(i) /\ inquiries[j].current)
    /\ UNCHANGED <<stores, registryLock, begun, slow, answered, losers>>

LookUp(i) ==
    /\ Reached(i, "ensure") /\ loading[On(i)] = "done"
    /\ IF memory[On(i)].root
       THEN inquiries' = [inquiries EXCEPT ![i].at = "account", ![i].current = TRUE]
       ELSE Done(i)
    /\ UNCHANGED <<stores, registryLock, memory, loading, begun, slow, histories>>
-----------------------------------------------------------------------------
AcquireRegistryLock(i) ==
    /\ Reached(i, "lock")
    /\ \/ /\ ~registryLock /\ registryLock' = TRUE
          /\ Forward(i, IF inquiries[i].op = "revoke" THEN "serialize" ELSE "read")
       \/ registryLock /\ Done(i) /\ UNCHANGED registryLock               \* busy
    /\ UNCHANGED <<stores, memory, loading, begun, slow, histories>>

(* A lock older than the limit: its holder died, or it is only slow.                     *)
RemoveOldLock(i) ==
    /\ Reached(i, "lock") /\ registryLock /\ registryLock' = FALSE
    /\ IF \E j \in Inquirers : HeldBy(j) THEN slow < MaxSlow /\ slow' = slow + 1
                                         ELSE UNCHANGED slow
    /\ UNCHANGED <<stores, memory, loading, inquiries, begun, histories>>

(* A slip: a process that has a copy registers in it without reading the file again.     *)
ReadCopy(i) ==
    /\ Reached(i, "read")
    /\ inquiries' = [inquiries EXCEPT ![i].file = IF loading[On(i)] = "done" THEN memory[On(i)]
                                                  ELSE registry, ![i].at = "reload"]
    /\ UNCHANGED <<stores, registryLock, memory, loading, begun, slow, histories>>

ReadRegistry(i) ==
    /\ Reached(i, "read")
    /\ inquiries' = [inquiries EXCEPT ![i].file = registry, ![i].at = "reload"]
    /\ UNCHANGED <<stores, registryLock, memory, loading, begun, slow, histories>>

(* What the reload shows decides: a root or child that is there already is answered so,   *)
(* and a child of no task or of a revoked one is refused.                                *)
Reload(i) ==
    /\ Reached(i, "reload")
    /\ LET file == inquiries[i].file
           child == inquiries[i].op = "child"
           settled == IF child THEN ~file.root \/ file.revoked \/ inquiries[i].child \in file.children
                      ELSE file.root
       IN Replace(i, IF settled THEN "unlock" ELSE "account")
    /\ UNCHANGED <<stores, registryLock, begun, slow, histories>>

(* A slip: a child is listed before it is counted.                                      *)
AccountLater(i) ==
    /\ Reached(i, "account") /\ inquiries[i].op # "revoke" /\ Forward(i, "serialize")
    /\ UNCHANGED <<stores, registryLock, memory, loading, begun, slow, histories>>

(* The budget ledger's part, each a mutation of its own.                                *)
Account(i) ==
    /\ Reached(i, "account")
    /\ LET child == inquiries[i].child
       IN CASE inquiries[i].op = "root" ->
                 accounts' = [accounts EXCEPT !.root = TRUE] /\ Forward(i, "serialize")
            [] inquiries[i].op = "revoke" ->
                 accounts' = [accounts EXCEPT !.revoked = TRUE] /\ Forward(i, "flag")
            [] inquiries[i].op = "child" ->
                 IF accounts.revoked THEN Forward(i, "unlock") /\ UNCHANGED accounts
                 ELSE /\ accounts' = [accounts EXCEPT !.children = @ \cup {child}]
                      /\ Forward(i, "serialize")
    /\ UNCHANGED <<registry, registryLock, memory, loading, begun, slow, histories>>

(* The flag is set in the record that was looked up, orphaned or not.                    *)
FlagRevoked(i) ==
    /\ Reached(i, "flag") /\ Forward(i, "lock")
    /\ memory' = IF inquiries[i].current THEN [memory EXCEPT ![On(i)].revoked = TRUE] ELSE memory
    /\ UNCHANGED <<stores, registryLock, loading, begun, slow, histories>>

Recorded(i) ==
    LET copy == memory[On(i)]
    IN CASE inquiries[i].op = "root" -> [NoTask EXCEPT !.root = TRUE]
         [] inquiries[i].op = "child" /\ inquiries[i].current ->
              [copy EXCEPT !.children = @ \cup {inquiries[i].child}]
         [] OTHER -> copy

(* The copy takes the new grant and is written out as a whole, then renamed into place.   *)
PersistRegistry(i) ==
    /\ \/ /\ Reached(i, "serialize")
          /\ memory' = [memory EXCEPT ![On(i)] = Recorded(i)]
          /\ inquiries' = [inquiries EXCEPT ![i].file = Recorded(i), ![i].at = "write"]
          /\ UNCHANGED <<registry, histories>>
       \/ /\ Reached(i, "write") /\ Forward(i, "unlock")
          /\ registry' = inquiries[i].file
          /\ answered' = IF inquiries[i].op = "child" THEN answered \cup {inquiries[i].child}
                         ELSE answered
          /\ losers' = IF answered \subseteq inquiries[i].file.children THEN losers
                       ELSE losers \cup {inquiries[i].op}
          /\ UNCHANGED <<memory, lateLoad>>
    /\ UNCHANGED <<accounts, registryLock, loading, begun, slow>>

(* The release removes the lock directory, whoever made it.                              *)
ReleaseRegistryLock(i) ==
    /\ Reached(i, "unlock") /\ registryLock' = FALSE /\ Done(i)
    /\ UNCHANGED <<stores, memory, loading, begun, slow, histories>>

HostDies(h) ==
    /\ \E i \in Inquirers : On(i) = h
    /\ memory' = [memory EXCEPT ![h] = NoTask] /\ loading' = [loading EXCEPT ![h] = "never"]
    /\ inquiries' = [i \in Inquirers |-> IF On(i) = h THEN Resting ELSE inquiries[i]]
    /\ UNCHANGED <<stores, registryLock, begun, slow, histories>>

DelegationNext ==
    \/ \E i \in Inquirers :
         \/ Inquire(i) \/ EnsureLoaded(i) \/ InstallFirstLoad(i) \/ LookUp(i)
         \/ AcquireRegistryLock(i) \/ RemoveOldLock(i) \/ ReadRegistry(i) \/ Reload(i)
         \/ Account(i) \/ FlagRevoked(i) \/ PersistRegistry(i) \/ ReleaseRegistryLock(i)
    \/ \E h \in Hosts : HostDies(h)

DelegationSpec == DelegationInit /\ [][DelegationNext]_delegationVars
-----------------------------------------------------------------------------
DelegationTypeOK ==
    /\ registry.children \subseteq Grants /\ registryLock \in BOOLEAN
    /\ loading \in [Hosts -> {"never", "pending", "done"}]
    /\ \A i \in Inquirers : inquiries[i].at \in Locked \cup {"rest", "ensure", "install", "lock", "flag"}

Within(copy) == /\ copy.root => accounts.root
                /\ copy.children \subseteq accounts.children
                /\ copy.revoked => accounts.revoked

(* The registry, and every process's copy of it, never lists more than the budget         *)
(* ledger counted: no grant without its allocation, and no revocation while the task's   *)
(* effects can still be spent, whatever process dies between the two stores, whoever     *)
(* takes a slow holder's lock (registerSignedChild, revoke).                             *)
ListedIsCounted == Within(registry) /\ \A h \in Hosts : Within(memory[h])

(* A child that was answered "accepted" is dropped from the registry only by a            *)
(* revocation, which writes its process's copy without reloading it: registrations of     *)
(* several processes never lose one another's grants, unless a slow holder's lock was     *)
(* taken or a first load took effect in the middle of one (loadRegistry, persistRegistry).*)
RegistrationsKeepGrants == losers # {} => losers = {"revoke"} \/ slow > 0 \/ lateLoad

(* What the registry lists was counted, and what was accepted stays listed: the two       *)
(* stores of a delegation agree in both directions (registerSignedChild, revoke).         *)
GrantsStand == ListedIsCounted /\ RegistrationsKeepGrants
=============================================================================
