------------------------------ MODULE HostConfigs ------------------------------
(***************************************************************************)
(* The MCP configuration of an agent's host, rewritten so that its servers run    *)
(* behind the recording proxy: install and uninstall (src/wrap.ts), and the          *)
(* bootstrap's preparation of the same file with a pinned version                     *)
(* (src/bootstrap/install.ts, local-mcp-config.ts), beside a user who edits it, and     *)
(* what the coverage report reads from it (src/coverage.ts).                           *)
(*                                                                         *)
(* One server in each map of the file: the top level, the project of the working        *)
(* directory, another project.  A server is what the user configured and the proxies    *)
(* around it, outermost first: "npx" as install writes it, "pinned" as the bootstrap     *)
(* does, "direct" a reelier of the user's own.  Backups are named by their instant,      *)
(* which two installs never share.                                                  *)
(***************************************************************************)
EXTENDS Naturals, Sequences, FiniteSets

CONSTANTS Configurers, MaxPlans, MaxHostEdits, MaxConfigDeaths

ASSUME HostConfigsAssumption ==
    MaxPlans \in Nat /\ MaxHostEdits \in Nat /\ MaxConfigDeaths \in Nat

VARIABLES
    hostConfig,     \* the file
    hostBackups,    \* the backups beside it, oldest first
    configurer,     \* every command under way, with its plan
    made,           \* the servers the user has configured and not taken out
    unsaved,        \* those configured since the newest backup's text was read
    overwritten,    \* those lost to a text read before them, or to an uninstall after them
    reverted,       \* the last write was an uninstall's
    configCounts    \* servers, plans, edits, deaths

hostConfigVars == <<hostConfig, hostBackups, configurer, made, unsaved, overwritten, reverted,
                    configCounts>>

Places == {"top", "here", "other"}
NoServer == [id |-> 0, target |-> "none", layers |-> <<>>]
Missing == [form |-> "missing", at |-> [place \in Places |-> NoServer]]
Malformed == [Missing EXCEPT !.form = "malformed"]
Parsed(at) == [form |-> "parsed", at |-> at]
ServersOf(text) == {text.at[place] : place \in Places} \ {NoServer}
Ids(text) == {server.id : server \in ServersOf(text)}
Plain(id) == {NoServer} \cup [id : {id}, target : {"command"}, layers : {<<>>}]
UserServers(id) ==
    Plain(id) \cup
    [id : {id}, target : {"url"}, layers : {<<>>}] \cup
    [id : {id}, target : {"command"}, layers : {<<"direct">>}]

ConfigurerIdle == [at |-> "idle", command |-> "none", before |-> Missing, after |-> Missing]
HostConfigsInit ==
    /\ \/ hostConfig \in {Missing, Malformed}
       \/ \E top \in UserServers(1), here \in Plain(2), other \in Plain(3) :
             hostConfig = Parsed([top |-> top, here |-> here, other |-> other])
    /\ hostBackups = <<>> /\ configurer = [p \in Configurers |-> ConfigurerIdle]
    /\ made = Ids(hostConfig) /\ unsaved = {} /\ overwritten = {} /\ reverted = FALSE
    /\ configCounts = [servers |-> 3, plans |-> 0, edits |-> 0, deaths |-> 0]
-----------------------------------------------------------------------------
isWrappedEntry(server) == server.layers # <<>> /\ Head(server.layers) \in {"npx", "pinned"}
isWrappableEntry(server) == server.target = "command"

(* What a plan makes of one server; a server of another project is left as it is. *)
planServer(place, server, layer) ==
    IF place = "other" \/ isWrappedEntry(server) \/ ~isWrappableEntry(server) THEN server
    ELSE [server EXCEPT !.layers = <<layer>> \o @]
planInstall(text, layer) ==
    IF text.form # "parsed" THEN text
    ELSE Parsed([place \in Places |-> planServer(place, text.at[place], layer)])

(* The report of an uninstall, and that of coverage, which asks for the bare name of the  *)
(* package, whoever runs it.                                                          *)
wrappedNamesIn(text) == {server.id : server \in {s \in ServersOf(text) : isWrappedEntry(s)}}
isWrappedInvocation(server) == server.layers # <<>> /\ Head(server.layers) # "pinned"
analyzeJsonMcpConfig(text) ==
    [location |-> CASE text.form = "missing" -> "absent" [] text.form = "malformed" -> "unreadable"
                    [] OTHER -> "parsed",
     wrapped |-> {server.id : server \in {s \in ServersOf(text) :
                                             s.target = "command" /\ isWrappedInvocation(s)}}]
-----------------------------------------------------------------------------
(* The commands.  A plan is made, shown, and perhaps asked about, before it is carried   *)
(* out; a malformed file ends an install, and a missing one a preparation.               *)

Begin(p, command, before, after, at) ==
    /\ configurer' = [configurer EXCEPT ![p] =
          [at |-> at, command |-> command, before |-> before, after |-> after]]
    /\ configCounts' = [configCounts EXCEPT !.plans = @ + 1]
    /\ UNCHANGED <<hostConfig, hostBackups, made, unsaved, overwritten, reverted>>

PlanInstall(p) ==
    LET after == planInstall(hostConfig, "npx")
    IN /\ hostConfig.form = "parsed" /\ after # hostConfig
       /\ Begin(p, "install", hostConfig, after, "backup")

PlanPreparation(p) ==
    LET after == planInstall(hostConfig, "pinned")
    IN /\ hostConfig.form = "parsed" /\ after # hostConfig
       /\ Begin(p, "prepare", hostConfig, after, "write")

PlanUninstall(p) ==
    /\ hostConfig.form # "missing" /\ hostBackups # <<>>
    /\ Begin(p, "uninstall", hostConfig, hostBackups[Len(hostBackups)], "write")

AddFirstBackup(text) ==  \* mutant: a backup that is there already is kept
    hostBackups' = IF hostBackups = <<>> THEN <<text>> ELSE hostBackups
AddBackup(text) == hostBackups' = Append(hostBackups, text)

(* A backup that cannot be written ends the install before anything was changed. *)
BackUp(p) ==
    /\ configurer[p].at = "backup"
    /\ \/ /\ AddBackup(configurer[p].before)
          /\ unsaved' = made \ Ids(configurer[p].before)
          /\ configurer' = [configurer EXCEPT ![p].at = "write"]
       \/ /\ configurer' = [configurer EXCEPT ![p] = ConfigurerIdle]
          /\ UNCHANGED <<hostBackups, unsaved>>
    /\ UNCHANGED <<hostConfig, made, overwritten, reverted, configCounts>>

(* The file is replaced whole by what was planned. *)
Replace(p, text) ==
    LET dropped == Ids(hostConfig) \ Ids(text)
    IN /\ hostConfig' = text
       /\ overwritten' = overwritten \cup
             (IF hostConfig # configurer[p].before THEN dropped
              ELSE IF configurer[p].command = "uninstall" THEN dropped \cap unsaved
              ELSE {})
       /\ reverted' = (configurer[p].command = "uninstall")

Write(p) ==
    /\ configurer[p].at = "write"
    /\ Replace(p, configurer[p].after)
    /\ configurer' = [configurer EXCEPT ![p] =
          IF @.command = "prepare" THEN [@ EXCEPT !.at = "settle"] ELSE ConfigurerIdle]
    /\ UNCHANGED <<hostBackups, made, unsaved, configCounts>>

(* The bootstrap goes on, or fails and puts back what the plan had read. *)
Settle(p) ==
    /\ configurer[p].at = "settle"
    /\ configurer' = [configurer EXCEPT ![p] = ConfigurerIdle]
    /\ \/ UNCHANGED <<hostConfig, overwritten, reverted>>
       \/ /\ hostConfig' = configurer[p].before
          /\ overwritten' = overwritten \cup (Ids(hostConfig) \ Ids(configurer[p].before))
          /\ reverted' = FALSE
    /\ UNCHANGED <<hostBackups, made, unsaved, configCounts>>

DieConfiguring(p) ==
    /\ configurer[p].at # "idle" /\ configCounts.deaths < MaxConfigDeaths
    /\ configurer' = [configurer EXCEPT ![p] = ConfigurerIdle]
    /\ configCounts' = [configCounts EXCEPT !.deaths = @ + 1]
    /\ UNCHANGED <<hostConfig, hostBackups, made, unsaved, overwritten, reverted>>

(* The user, or the host, writes the file: one server is put in, replaced or taken out, or *)
(* the file removed.                                                                  *)
EditConfig ==
    /\ configCounts.edits < MaxHostEdits
    /\ LET id == configCounts.servers + 1
       IN \E place \in Places, server \in UserServers(id) :
             LET old == hostConfig.at[place]
             IN /\ server # NoServer \/ old # NoServer
                /\ hostConfig' = Parsed([hostConfig.at EXCEPT ![place] = server])
                /\ made' = (made \ {old.id}) \cup ({server.id} \ {0})
                /\ unsaved' = unsaved \cup ({server.id} \ {0})
                /\ configCounts' = [configCounts EXCEPT !.edits = @ + 1, !.servers = id]
    /\ reverted' = FALSE
    /\ UNCHANGED <<hostBackups, configurer, overwritten>>

RemoveConfig ==
    /\ configCounts.edits < MaxHostEdits /\ hostConfig # Missing
    /\ hostConfig' = Missing /\ made' = {} /\ reverted' = FALSE
    /\ configCounts' = [configCounts EXCEPT !.edits = @ + 1]
    /\ UNCHANGED <<hostBackups, configurer, unsaved, overwritten>>

HostConfigsNext ==
    \/ \E p \in Configurers :
          \/ /\ configurer[p].at = "idle" /\ configCounts.plans < MaxPlans
             /\ PlanInstall(p) \/ PlanPreparation(p) \/ PlanUninstall(p)
          \/ BackUp(p) \/ Write(p) \/ Settle(p) \/ DieConfiguring(p)
    \/ EditConfig \/ RemoveConfig

HostConfigsSpec == HostConfigsInit /\ [][HostConfigsNext]_hostConfigVars
-----------------------------------------------------------------------------
(* The texts are configurations, the counts within their bounds. *)
HostConfigsTypeOK ==
    /\ \A p \in Configurers : configurer[p].at \in {"idle", "backup", "write", "settle"}
    /\ hostConfig.form \in {"missing", "malformed", "parsed"}
    /\ configCounts.plans <= MaxPlans /\ configCounts.edits <= MaxHostEdits

(* What the user configured is in the file, proxied or not, or in a backup, unless a       *)
(* command carried out a plan that was older than it, or an uninstall went back behind it   *)
(* (wrap.ts: "a config is never rewritten without its backup on disk first").              *)
NothingDropped ==
    \A id \in made \ overwritten :
        id \in Ids(hostConfig) \cup UNION {Ids(hostBackups[i]) : i \in DOMAIN hostBackups}

(* However often and by whomever a file is prepared, a server is behind one proxy of ours    *)
(* (wrap.ts: "never double-wraps"), one by the user's own hand aside.                      *)
WrappedOnce ==
    \A server \in ServersOf(hostConfig) :
        Cardinality({i \in DOMAIN server.layers : server.layers[i] # "direct"}) <= 1

(* The two readers of the file agree on which servers run behind the proxy, but for those    *)
(* the bootstrap pinned, which coverage calls unwrapped, and those the user proxied, which    *)
(* install does not know (inspectWrapState, isWrappedInvocation).                          *)
ReadersAgree ==
    \A server \in ServersOf(hostConfig) :
        /\ server.layers # <<>> =>
              (server.id \in wrappedNamesIn(hostConfig)) # (Head(server.layers) = "direct")
        /\ (server.id \in analyzeJsonMcpConfig(hostConfig).wrapped) #
              (server.layers = <<>> \/ Head(server.layers) = "pinned")

(* An uninstall leaves no proxy an install wrote, unless a second install backed up the      *)
(* work of the first (findLatestBackup).                                                  *)
UninstallUnwraps ==
    reverted =>
        \/ \A server \in ServersOf(hostConfig) : \A i \in DOMAIN server.layers : server.layers[i] # "npx"
        \/ Len(hostBackups) > 1

ConfigsSurvive == NothingDropped /\ WrappedOnce /\ ReadersAgree /\ UninstallUnwraps
=============================================================================
