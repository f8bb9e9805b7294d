----------------------------- MODULE CoverageSurvey -----------------------------
(***************************************************************************)
(* The survey of an agent's tool routes (src/coverage.ts) and the route coverage made   *)
(* of it (src/routes/): the host's configuration, the plugins it registers and their    *)
(* manifests are read one after the other, then every file read is read again as          *)
(* evidence, and the servers found become rows, which a refresh compares with those of an   *)
(* earlier discovery.  The user edits a file in between.                                 *)
(*                                                                         *)
(* A file is named <<directory, name>>; its stamp is the edit that wrote it.  A server is    *)
(* a name, a transport ("none" when the entry has neither a command nor a url) and whether    *)
(* its command runs the proxy.  A behaviour surveys one host, Codex or Claude Code.  A       *)
(* digest is the value it covers.  The configuration, one plugin, and the evidence are each   *)
(* read in one step.                                                          *)
(***************************************************************************)
EXTENDS Naturals, Sequences, FiniteSets

CONSTANTS Surveyed,        \* disks; an edit puts a text of one of them into another
          RouteFindings,   \* what the caller knows of besides
          MaxSurveys, MaxDiskEdits

ManifestFiles == {"mcp.json", ".mcp.json", "child"}
Enablements == {"unset", "enabled", "disabled"}
PluginNames == UNION {DOMAIN d.scopes[1] : d \in Surveyed}
LineRecords == [kind : {"header"}, root : STRING, name : STRING]
               \cup [kind : {"entry"}, entry : STRING] \cup [kind : {"odd"}]
Installs(dirs) == [name : PluginNames, dir : dirs \cup {"none"}]

(* What is on a disk: no plugin has the directory of something else, and one that declares  *)
(* files names some, not itself.                                                          *)
DiskFits(d) ==
    LET dirs == DOMAIN d.plugin
    IN /\ DOMAIN d = {"host", "lines", "map", "plugin", "scopes", "registry", "present", "stamp"}
       /\ d.host \in {"codex", "claude-code"} /\ d.lines \in Seq(LineRecords)
       /\ dirs \cap {"host", "registry", "settings", "name", "finding"} = {}
       /\ d.host = "codex" => {"source", "cache"} \subseteq dirs
       /\ \A file \in DOMAIN d.map : d.map[file].form \in {"missing", "malformed", "named", "bare"}
       /\ \A dir \in dirs :
             LET json == d.plugin[dir]
             IN /\ \A f \in ManifestFiles \cup json.pointers : <<dir, f>> \in DOMAIN d.map
                /\ json.default \in Enablements /\ "plugin.json" \notin json.pointers
                /\ json.declares \in {"nothing", "map", "odd", "pointers"}
                /\ json.declares = "pointers" => json.pointers # {}
       /\ DOMAIN d.registry = {"cache", "home"}
       /\ \A root \in {"cache", "home"} : d.registry[root].installs \in Seq(Installs(dirs))
       /\ d.scopes \in [1..3 -> [PluginNames -> Enablements]]

ASSUME SurveyAssumption ==
    /\ MaxSurveys \in Nat /\ MaxDiskEdits \in Nat
    /\ \A d \in Surveyed : DiskFits(d)
    /\ \A d, e \in Surveyed : d.host = e.host =>
          DOMAIN d.plugin = DOMAIN e.plugin /\ DOMAIN d.map = DOMAIN e.map

VARIABLES
    hostDisk,   \* the files
    survey,     \* the survey under way, or the last one
    coverage,   \* the rows last published, their proof, the disk behind it
    surveyCounts

surveyVars == <<hostDisk, survey, coverage, surveyCounts>>

Config == <<"host", "config">>
Registry(root) == <<"registry", root>>
Scopes == <<"local", "project", "user">>
Settings == {<<"settings", Scopes[i]>> : i \in 1..3}
PluginJson(dir) == <<dir, "plugin.json">>
BareName(name) == <<"name", name>>

NoCoverage == [rows |-> {}, view |-> <<>>, evidence |-> {}, seen |-> <<>>, straddled |-> FALSE]
SurveyIdle == [at |-> "idle", sources |-> <<>>, pending |-> <<>>, plugins |-> <<>>,
               inspected |-> {}, evidence |-> {}, seen |-> <<>>, straddled |-> FALSE,
               refreshed |-> FALSE, previous |-> NoCoverage]

(* The elements of a list, and those of them that are in a set, in their order. *)
Listed(list) == {list[i] : i \in DOMAIN list}
Among(list, chosen) ==
    LET kept[k \in 0..Len(list)] ==
            IF k = 0 THEN <<>>
            ELSE IF list[k] \in chosen THEN Append(kept[k - 1], list[k]) ELSE kept[k - 1]
    IN kept[Len(list)]

SurveyInitWith(disks) ==
    /\ hostDisk \in disks
    /\ survey = SurveyIdle /\ coverage = NoCoverage
    /\ surveyCounts = [surveys |-> 0, edits |-> 0]
SurveyInit == SurveyInitWith(Surveyed)
-----------------------------------------------------------------------------
(* Reading one text.                                                         *)

(* A server as the report has it: a url is never behind the proxy. *)
serverFromEntries(server) ==
    [name |-> server.name, transport |-> server.transport,
     location |-> IF server.transport = "none" THEN "unreadable" ELSE "parsed",
     wrapped |-> server.transport = "stdio" /\ server.wrapped]
From(file, servers) == {[server |-> serverFromEntries(s), origin |-> file] : s \in servers}

(* The root of a manifest may itself be the map, when every entry looks like a server. *)
analyzePluginManifest(file) ==
    LET text == hostDisk.map[file]
    IN IF text.form = "malformed"
       THEN [location |-> "unreadable", servers |-> {}]
       ELSE IF text.form = "bare" /\ \E server \in text.servers : server.transport = "none"
       THEN [location |-> "unreadable", servers |-> {}]
       ELSE [location |-> "parsed", servers |-> From(file, text.servers)]

(* The first file that can be opened: the two names at the root, then one level below. *)
ManifestNames == IF hostDisk.host = "codex" THEN <<"mcp.json", ".mcp.json", "child">>
                 ELSE <<".mcp.json", "mcp.json", "child">>
findPluginManifest(dir) ==
    LET names == Among(ManifestNames, {n \in ManifestFiles : hostDisk.map[<<dir, n>>].form # "missing"})
    IN IF names = <<>> THEN {} ELSE {<<dir, names[1]>>}

(* What a plugin.json declares, inline or in the files it points to: of these the ones that   *)
(* can be read count, and the failures show only if there is no server at all.              *)
serversFromPluginJson(dir) ==
    LET json == hostDisk.plugin[dir]
        named == {<<dir, f>> : f \in json.pointers}
        readable == {f \in named : hostDisk.map[f].form # "missing"}
        servers == UNION {analyzePluginManifest(f).servers : f \in readable}
        failed == readable # named
                  \/ \E f \in readable : analyzePluginManifest(f).location = "unreadable"
        Answer(location, found, files) ==
            [location |-> location, servers |-> found, read |-> {PluginJson(dir)} \cup files]
    IN IF json.form = "malformed" \/ json.declares = "odd" THEN Answer("unreadable", {}, {})
       ELSE IF json.declares = "nothing" THEN Answer("absent", {}, {})
       ELSE IF json.declares = "map" THEN Answer("parsed", From(PluginJson(dir), json.servers), {})
       ELSE Answer(IF servers = {} /\ failed THEN "unreadable" ELSE "parsed", servers, readable)

(* The scope nearest to the project decides, then the plugin's own default. *)
resolveEnablement(name, dir) ==
    LET said == Among(hostDisk.scopes, {scope \in Listed(hostDisk.scopes) : scope[name] # "unset"})
    IN IF said # <<>> THEN said[1][name]
       ELSE IF hostDisk.plugin[dir].default # "unset" THEN hostDisk.plugin[dir].default ELSE "unknown"

(* The line subset of TOML: a table of two segments under a known root opens a section, any    *)
(* other header closes it, and a line that cannot be read spoils its section.                *)
SectionStep(state, line) ==
    LET n == Len(state.list)
    IN IF line.kind = "header"
       THEN IF line.root = "other" THEN [state EXCEPT !.open = FALSE]
            ELSE [open |-> TRUE, list |-> Append(state.list,
                     [root |-> line.root, name |-> line.name, entries |-> {}, odd |-> FALSE])]
       ELSE IF ~state.open THEN state
       ELSE IF line.kind = "odd" THEN [state EXCEPT !.list[n].odd = TRUE]
       ELSE IF state.list[n].odd THEN state
       ELSE [state EXCEPT !.list[n].entries = @ \cup {line.entry}]
Sections ==
    LET lines == hostDisk.lines
        after[k \in 0..Len(lines)] == IF k = 0 THEN [open |-> FALSE, list |-> <<>>]
                                      ELSE SectionStep(after[k - 1], lines[k])
    IN after[Len(lines)].list
OfRoot(root) == Among(Sections, {section \in Listed(Sections) : section.root = root})
-----------------------------------------------------------------------------
(* First the configuration and the registrations are read.                     *)

Each(list, F(_)) == [i \in DOMAIN list |-> F(list[i])]
Source(file, kind, location, servers) ==
    [file |-> file, kind |-> kind, location |-> location, servers |-> servers]

SectionServer(section) ==
    [name |-> section.name,
     transport |-> IF section.odd THEN "none" ELSE IF "url" \in section.entries THEN "url"
                   ELSE IF {"proxied", "command"} \cap section.entries # {} THEN "stdio" ELSE "none",
     wrapped |-> "proxied" \in section.entries]
CodexSources ==
    IF hostDisk.lines = <<>> THEN <<Source(Config, "host-config", "absent", {})>>
    ELSE Each(OfRoot("mcp_servers"), LAMBDA section :
                  Source(Config, "host-config", "parsed", From(Config, {SectionServer(section)})))

(* A plugin table that was spoiled has nothing safe to report. *)
CodexRegistrations ==
    LET shops == {i \in DOMAIN Sections : Sections[i].root = "marketplaces" /\ ~Sections[i].odd
                                         /\ "source" \in Sections[i].entries}
        tables == OfRoot("plugins")
    IN Each(Among(tables, {section \in Listed(tables) : ~section.odd}), LAMBDA section :
            [name |-> section.name, enabled |-> "off" \notin section.entries,
             dirs |-> IF shops # {} THEN <<"source", "cache">> ELSE <<"cache">>])

ClaudeSources ==
    LET missing == hostDisk.map[Config].form = "missing"
        analysis == analyzePluginManifest(Config)
    IN <<Source(Config, "host-config", IF missing THEN "absent" ELSE analysis.location,
                IF missing THEN {} ELSE analysis.servers)>>

(* The registry of the first root that has one, be it malformed. *)
pluginSource == IF hostDisk.registry["cache"].form # "missing" \/ hostDisk.registry["home"].form = "missing"
                THEN "cache" ELSE "home"
RegistrySources ==
    LET form == hostDisk.registry[pluginSource].form
    IN IF form = "parsed" THEN <<>>
       ELSE <<Source(Registry(pluginSource), "plugin-manifest",
                     IF form = "missing" THEN "absent" ELSE "unreadable", {})>>
parseInstalledPlugins ==
    LET installs == hostDisk.registry[pluginSource].installs
    IN Among(installs, {install \in Listed(installs) : install.dir # "none"})

ReadConfiguration ==
    LET codex == hostDisk.host = "codex"
    IN /\ survey.at \in {"idle", "done", "refused"} /\ surveyCounts.surveys < MaxSurveys
       /\ survey' = [SurveyIdle EXCEPT
             !.at = "plugins",
             !.sources = IF codex THEN CodexSources ELSE ClaudeSources \o RegistrySources,
             !.pending = IF codex THEN CodexRegistrations ELSE parseInstalledPlugins,
             !.inspected = IF codex THEN {Config}
                           ELSE {Config, Registry(pluginSource)} \cup
                                (IF hostDisk.registry[pluginSource].form = "missing" THEN {} ELSE Settings)]
       /\ surveyCounts' = [surveyCounts EXCEPT !.surveys = @ + 1]
       /\ UNCHANGED <<hostDisk, coverage>>
-----------------------------------------------------------------------------
(* Then one plugin after the other.  "where" is its manifest, or its name when it has none.   *)

Report(name, state, inspected, location, where, servers) ==
    [name |-> name, state |-> state, inspected |-> inspected, location |-> location,
     where |-> where, servers |-> servers]
NotFound(name, state, inspected) == Report(name, state, inspected, "absent", BareName(name), {})
Located(name, state, file) ==
    Report(name, state, TRUE, analyzePluginManifest(file).location, file,
           analyzePluginManifest(file).servers)

CodexPlugin(plugin) ==
    LET dirs == Among(plugin.dirs, {dir \in Listed(plugin.dirs) : hostDisk.present[dir]})
        found == IF dirs = <<>> THEN {} ELSE findPluginManifest(dirs[1])
    IN IF ~plugin.enabled THEN NotFound(plugin.name, "disabled", FALSE)
       ELSE IF found = {} THEN NotFound(plugin.name, "enabled", TRUE)
       ELSE Located(plugin.name, "enabled", CHOOSE f \in found : TRUE)

ClaudePlugin(install) ==
    LET dir == install.dir
        state == resolveEnablement(install.name, dir)
        found == findPluginManifest(dir)
        own == serversFromPluginJson(dir)
    IN CASE state = "disabled" -> NotFound(install.name, state, FALSE)
         [] state # "disabled" /\ ~hostDisk.present[dir] -> NotFound(install.name, state, TRUE)
         [] state # "disabled" /\ hostDisk.present[dir] /\ found # {} ->
                Located(install.name, state, CHOOSE f \in found : TRUE)
         [] OTHER ->
                IF hostDisk.plugin[dir].form = "missing" THEN NotFound(install.name, state, TRUE)
                ELSE Report(install.name, state, TRUE, own.location, PluginJson(dir), own.servers)
InspectedIn(report) ==
    IF report.where[1] = "name" THEN {}
    ELSE IF report.where[2] = "plugin.json" THEN serversFromPluginJson(report.where[1]).read
    ELSE {report.where}

InspectPlugin ==
    LET plugin == survey.pending[1]
        report == IF hostDisk.host = "codex" THEN CodexPlugin(plugin) ELSE ClaudePlugin(plugin)
    IN /\ survey.at = "plugins" /\ survey.pending # <<>>
       /\ survey' = [survey EXCEPT !.pending = Tail(@), !.plugins = Append(@, report),
                                   !.inspected = @ \cup InspectedIn(report)]
       /\ UNCHANGED <<hostDisk, coverage, surveyCounts>>

(* Every file inspected is read once more; one that is gone has no evidence. *)
Exists(file) ==
    CASE file = Config -> IF hostDisk.host = "codex" THEN hostDisk.lines # <<>> ELSE hostDisk.map[Config].form # "missing"
      [] file[1] = "registry" -> hostDisk.registry[file[2]].form # "missing"
      [] file[1] = "settings" -> TRUE
      [] file[2] = "plugin.json" -> hostDisk.plugin[file[1]].form # "missing"
      [] OTHER -> hostDisk.map[file].form # "missing"
collectRouteSourceEvidence ==
    /\ survey.at = "plugins" /\ survey.pending = <<>>
    /\ survey' = [survey EXCEPT !.at = "discover", !.seen = hostDisk,
          !.evidence = {<<file, hostDisk.stamp[file]>> : file \in {f \in survey.inspected : Exists(f)}}]
    /\ UNCHANGED <<hostDisk, coverage, surveyCounts>>
-----------------------------------------------------------------------------
(* The rows.  A route is told from others by where it was found, how, under which name and     *)
(* over which transport.                                                       *)

WithEvidence == {e[1] : e \in survey.evidence}
Row(file, kind, key, transport, observation) ==
    [id |-> <<file, kind, key, transport>>, observation |-> observation, genuine |-> TRUE]
serverRow(kind, found) ==
    Row(found.origin, kind, found.server.name, found.server.transport,
        IF found.server.location = "unreadable" \/ found.origin \notin WithEvidence THEN "unknown"
        ELSE IF found.server.wrapped THEN "observed" ELSE "uncovered")

SourceRows(source) ==
    {serverRow(source.kind, found) : found \in source.servers} \cup
    (IF source.location = "parsed" THEN {}
     ELSE {Row(source.file, source.kind, "registry", "none", "unknown")})
PluginRows(plugin) ==
    IF plugin.location = "parsed"
    THEN {serverRow("plugin-manifest", found) : found \in plugin.servers}
    ELSE IF plugin.state = "enabled"
    THEN {Row(plugin.where, "plugin-manifest", plugin.name, "none", "unknown")} ELSE {}
FindingRows(host) ==
    {Row(<<"finding", f.key>>, f.kind, f.key, "none", f.observation) :
         f \in {g \in RouteFindings : host = "codex"}}

Units == Each(survey.sources, SourceRows) \o Each(survey.plugins, PluginRows)
            \o <<FindingRows(hostDisk.host)>>
AllRows == UNION {Units[i] : i \in DOMAIN Units}
RouteIds(rows) == {row.id : row \in rows}

(* What makes the whole discovery fail: a plugin of Codex whose manifest is no known source,    *)
(* and two rows of one route.                                                  *)
Sourceless ==
    \E i \in DOMAIN survey.plugins :
        LET plugin == survey.plugins[i]
        IN /\ hostDisk.host = "codex" /\ plugin.where \notin WithEvidence
           /\ \A j \in DOMAIN survey.plugins :
                 plugin.where \notin {found.origin : found \in survey.plugins[j].servers}
Twins == \E i, j \in DOMAIN Units : i < j /\ RouteIds(Units[i]) \cap RouteIds(Units[j]) # {}

(* What the proof of a row covers of the report; paths and scopes are left out. *)
sanitizeCollector ==
    <<Each(survey.sources, LAMBDA s : <<s.location, {f.server : f \in s.servers}>>),
      Each(survey.plugins, LAMBDA p : <<p.name, p.state = "enabled", p.inspected, p.location,
                                        {f.server : f \in p.servers}>>)>>

SameReport(prior, row) ==  \* mutant: the proof covers the report and not the evidence
    prior.genuine /\ prior.observation = row.observation /\ coverage.view = sanitizeCollector
SameDigest(prior, row) ==
    /\ prior.genuine /\ prior.observation = row.observation
    /\ coverage.view = sanitizeCollector /\ coverage.evidence = survey.evidence
downgrade(row) == [row EXCEPT !.observation = "unknown", !.genuine = FALSE]
refreshRow(prior, expired) ==
    LET next == {row \in AllRows : row.id = prior.id}
    IN IF next = {} THEN downgrade(prior)
       ELSE LET row == CHOOSE r \in next : TRUE
            IN IF row.observation \in {"unknown", "uncovered"} THEN row
               ELSE IF ~SameDigest(prior, row) \/ expired THEN downgrade(row) ELSE row
refreshRouteCoverage(expired) ==
    {refreshRow(prior, expired) : prior \in coverage.rows}
        \cup {row \in AllRows : row.id \notin RouteIds(coverage.rows)}

(* Rows are published whole, with or without a look at those before them; a discovery that     *)
(* fails leaves those before it.                                               *)
discoverRouteCoverage ==
    /\ survey.at = "discover"
    /\ IF Sourceless \/ Twins
       THEN survey' = [survey EXCEPT !.at = "refused"] /\ UNCHANGED coverage
       ELSE \E refreshed, expired \in BOOLEAN :
              /\ refreshed \/ ~expired
              /\ survey' = [survey EXCEPT !.at = "done", !.previous = coverage, !.refreshed = refreshed]
              /\ coverage' = [rows |-> IF refreshed THEN refreshRouteCoverage(expired) ELSE AllRows,
                               view |-> sanitizeCollector,
                              evidence |-> survey.evidence, seen |-> survey.seen, straddled |-> survey.straddled]
    /\ UNCHANGED <<hostDisk, surveyCounts>>

(* The user, or the host, rewrites one file, or removes a plugin. *)
Rewritten(file) == [hostDisk.stamp EXCEPT ![file] = surveyCounts.edits + 1]
EditDisk ==
    /\ surveyCounts.edits < MaxDiskEdits
    /\ \E other \in {d \in Surveyed : d.host = hostDisk.host} :
          \/ \E file \in DOMAIN hostDisk.map : hostDisk' = [hostDisk EXCEPT
                !.map[file] = other.map[file], !.stamp = Rewritten(file),
                !.present = IF file = Config \/ other.map[file].form = "missing" THEN @
                            ELSE [@ EXCEPT ![file[1]] = TRUE]]
          \/ \E root \in DOMAIN hostDisk.registry : hostDisk' = [hostDisk EXCEPT
                !.registry[root] = other.registry[root], !.stamp = Rewritten(Registry(root))]
          \/ hostDisk' = [hostDisk EXCEPT !.lines = other.lines, !.stamp = Rewritten(Config)]
          \/ \E i \in 1..3 : hostDisk' = [hostDisk EXCEPT
                !.scopes[i] = other.scopes[i], !.stamp = Rewritten(<<"settings", Scopes[i]>>)]
          \/ \E dir \in DOMAIN hostDisk.plugin : hostDisk' = [hostDisk EXCEPT
                !.plugin[dir] = other.plugin[dir], !.stamp = Rewritten(PluginJson(dir)),
                !.present = IF other.plugin[dir].form = "missing" THEN @ ELSE [@ EXCEPT ![dir] = TRUE]]
    /\ hostDisk' # [hostDisk EXCEPT !.stamp = hostDisk'.stamp]
    /\ survey' = [survey EXCEPT !.straddled = @ \/ survey.at = "plugins"]
    /\ surveyCounts' = [surveyCounts EXCEPT !.edits = @ + 1]
    /\ UNCHANGED coverage

SurveyNext == \/ ReadConfiguration \/ InspectPlugin \/ collectRouteSourceEvidence
              \/ discoverRouteCoverage \/ EditDisk

SurveySpec == SurveyInit /\ [][SurveyNext]_surveyVars
-----------------------------------------------------------------------------
(* The survey stands at one of its steps, and a row makes one of the known observations. *)
SurveyTypeOK ==
    /\ survey.at \in {"idle", "plugins", "discover", "done", "refused"}
    /\ \A row \in coverage.rows :
          row.observation \in {"observed", "partially-observed", "unknown", "uncovered"}
    /\ surveyCounts.surveys <= MaxSurveys /\ surveyCounts.edits <= MaxDiskEdits

(* On the disk d, the file of a route has a server of its name behind the proxy. *)
Proxied(d, id) ==
    LET inLines == \E i, j \in DOMAIN d.lines :
            /\ i < j /\ d.lines[j] = [kind |-> "entry", entry |-> "proxied"]
            /\ d.lines[i] = [kind |-> "header", root |-> "mcp_servers", name |-> id[3]]
            /\ \A k \in i + 1 .. j : d.lines[k].kind # "header"
        servers == IF id[1][2] = "plugin.json" THEN d.plugin[id[1][1]].servers ELSE d.map[id[1]].servers
    IN IF d.host = "codex" /\ id[1] = Config THEN inLines
       ELSE \E s \in servers : s.name = id[3] /\ s.transport = "stdio" /\ s.wrapped
Surveyable(row) == row.observation = "observed" /\ row.id[1][1] # "finding"

(* A route is called observed only if its file has it behind the proxy: as the files were       *)
(* when the evidence was taken, unless one changed while they were being read.              *)
ObservedIsProxied ==
    survey.at = "done" /\ ~survey.straddled =>
        \A row \in coverage.rows : Surveyable(row) => Proxied(coverage.seen, row.id)

(* A refresh lets "observed" stand only for a route that was so before, in a file that nobody    *)
(* has written since, even if files changed while one of the two was reading them.            *)
ObservedStands ==
    survey.at = "done" /\ survey.refreshed =>
        \A row \in coverage.rows :
            Surveyable(row) /\ row.id \in RouteIds(survey.previous.rows) =>
                /\ \E prior \in survey.previous.rows :
                      prior.id = row.id /\ prior.observation = "observed"
                /\ survey.previous.seen.stamp[row.id[1]] = coverage.seen.stamp[row.id[1]]

(* A plugin that is enabled for certain is not passed over in silence: it has a route or an       *)
(* unknown row, unless a manifest of it can be read and names no server.  A Codex table with a   *)
(* line that cannot be read is passed over.                                        *)
EnabledIn(d) ==
    IF d.host = "codex"
    THEN {[name |-> d.lines[i].name, dirs |-> {"source", "cache"}] : i \in
             {k \in DOMAIN d.lines :
                 /\ d.lines[k].kind = "header" /\ d.lines[k].root = "plugins"
                 /\ \A j \in k + 1 .. Len(d.lines) :
                       \/ \E h \in k + 1 .. j : d.lines[h].kind = "header"
                       \/ d.lines[j].kind = "entry" /\ d.lines[j].entry # "off"}}
    ELSE LET registry == d.registry[IF d.registry["cache"].form = "missing" THEN "home" ELSE "cache"]
             said(install) == {d.scopes[i][install.name] : i \in 1..3}
                                  \cup {d.plugin[install.dir].default}
         IN {[name |-> registry.installs[i].name, dirs |-> {registry.installs[i].dir}] : i \in
                {k \in DOMAIN registry.installs :
                    /\ registry.form = "parsed" /\ registry.installs[k].dir # "none"
                    /\ "disabled" \notin said(registry.installs[k])
                    /\ "enabled" \in said(registry.installs[k])}}
NothingIsSilent ==
    survey.at = "done" /\ ~survey.straddled =>
        \A plugin \in EnabledIn(coverage.seen) :
            \/ \E row \in coverage.rows :
                  row.id[1][1] \in plugin.dirs \/ row.id[1] = BareName(plugin.name)
            \/ \E dir \in plugin.dirs : coverage.seen.present[dir] /\
                  \/ \E file \in DOMAIN coverage.seen.map :
                        /\ file[1] = dir /\ coverage.seen.map[file].form \in {"named", "bare"}
                        /\ coverage.seen.map[file].servers = {}
                  \/ coverage.seen.plugin[dir].servers = {} /\ coverage.seen.plugin[dir].declares = "map"

(* A discovery fails only over a plugin registered twice or, for Codex, over one that has no      *)
(* manifest or a table given twice.                                              *)
RefusedForCause ==
    survey.at = "refused" =>
        \/ \E i, j \in DOMAIN survey.plugins :
              i # j /\ survey.plugins[i].where = survey.plugins[j].where
        \/ /\ survey.seen.host = "codex"
           /\ \/ \E i \in DOMAIN survey.plugins : survey.plugins[i].where[1] = "name"
              \/ \E i, j \in DOMAIN survey.seen.lines :
                    i # j /\ survey.seen.lines[i] = survey.seen.lines[j]
              \/ survey.straddled

CoverageIsHonest == ObservedIsProxied /\ ObservedStands /\ NothingIsSilent /\ RefusedForCause
=============================================================================
