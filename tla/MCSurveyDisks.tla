----------------------------- MODULE MCSurveyDisks -----------------------------
(* Disks for the survey: two plugin directories of each host, one server per map, and the  *)
(* ways in which each of its files may be missing, malformed or odd.                     *)
EXTENDS CoverageSurvey, TLC

MapText(form, servers) == [form |-> form, servers |-> servers]
RunBy(transport, wrapped) == [name |-> "mail", transport |-> transport, wrapped |-> wrapped]
NoMap == MapText("missing", {})
ProxiedMap == MapText("named", {RunBy("stdio", TRUE)})
PlainMap == MapText("named", {RunBy("stdio", FALSE)})
Maps == {NoMap, ProxiedMap, PlainMap, MapText("malformed", {}), MapText("named", {}),
         MapText("bare", {RunBy("none", FALSE)}), MapText("bare", {RunBy("url", TRUE)})}
Json(form, default, declares, servers, pointers) ==
    [form |-> form, default |-> default, declares |-> declares, servers |-> servers, pointers |-> pointers]
NoJson == Json("missing", "unset", "nothing", {}, {})
Jsons == {NoJson, Json("malformed", "unset", "nothing", {}, {}), Json("parsed", "enabled", "nothing", {}, {}),
          Json("parsed", "disabled", "map", {RunBy("stdio", TRUE)}, {}), Json("parsed", "enabled", "odd", {}, {}),
          Json("parsed", "unset", "pointers", {}, {"pointer"})}
Install(name, dir) == [name |-> name, dir |-> dir]
Registered(installs) == [form |-> "parsed", installs |-> installs]
NoRegistry == [form |-> "missing", installs |-> <<>>]
Said(value) == [name \in {"mail", "cal"} |-> value]
HeaderLine(root, name) == [kind |-> "header", root |-> root, name |-> name]
EntryLine(entry) == [kind |-> "entry", entry |-> entry]
OddLine == [kind |-> "odd"]

DirFiles(dirs) == {<<dir, f>> : dir \in dirs, f \in {".mcp.json", "mcp.json", "child", "pointer"}}
Disk(host, lines, config, dirs, maps, json, registries, scopes) ==
    LET files == {Config} \cup DirFiles(dirs)
        text == maps @@ (Config :> config) @@ [f \in files |-> NoMap]
        plugin == json @@ [d \in dirs |-> NoJson]
    IN [host |-> host, lines |-> lines, map |-> text, plugin |-> plugin, scopes |-> scopes,
        registry |-> registries,
        present |-> [d \in dirs |-> plugin[d].form # "missing"
                                    \/ \E f \in files : f[1] = d /\ text[f].form # "missing"],
        stamp |-> [f \in files \cup {PluginJson(d) : d \in dirs} \cup {Registry(r) : r \in {"cache", "home"}}
                              \cup Settings |-> 0]]

ClaudeDisks ==
    LET Registries(cache, home) == ("cache" :> cache) @@ ("home" :> home)
        one == Registered(<<Install("mail", "d1")>>)
        Claude(config, maps, json, registries, scopes) ==
            Disk("claude-code", <<>>, config, {"d1", "d2"}, maps, json, registries, scopes)
        Enabled == <<Said("unset"), Said("unset"), Said("enabled")>>
    IN {Claude(NoMap, <<"d1", f>> :> map, "d1" :> NoJson, Registries(NoRegistry, one), scopes) :
            f \in {".mcp.json", "child"}, map \in Maps,
            scopes \in {Enabled, <<Said("unset"), Said("unset"), Said("unset")>>}}
       \cup {Claude(ProxiedMap, <<"d1", "pointer">> :> map, "d1" :> json, Registries(one, NoRegistry),
                    <<Said("unset"), Said("unset"), Said("unset")>>) : map \in Maps, json \in Jsons}
       \cup {Claude(config, (<<"d1", ".mcp.json">> :> ProxiedMap) @@ (<<"d2", "mcp.json">> :> PlainMap),
                    "d1" :> NoJson, Registries(registry, NoRegistry),
                    <<Said("disabled"), Said("unset"), Said("enabled")>>) :
               config \in Maps,
               registry \in {NoRegistry, [form |-> "malformed", installs |-> <<>>]}}
       \cup {Claude(NoMap, (<<"d1", ".mcp.json">> :> ProxiedMap) @@ (<<"d1", "mcp.json">> :> PlainMap),
                    "d1" :> NoJson, Registries(Registered(installs), NoRegistry), Enabled) :
               installs \in {<<Install("mail", "d1"), Install("mail", "d1")>>,
                             <<Install("mail", "d1"), Install("cal", "d2")>>,
                             <<Install("mail", "d2"), Install("mail", "none"), Install("mail", "d2")>>}}

CodexDisks ==
    LET Codex(lines, maps) == Disk("codex", lines, NoMap, {"source", "cache"}, maps, "source" :> NoJson,
                                   [r \in {"cache", "home"} |-> NoRegistry],
                                   <<Said("unset"), Said("unset"), Said("unset")>>)
        Server(entry) == <<HeaderLine("mcp_servers", "mail"), entry>>
        Plugin == <<HeaderLine("plugins", "cal")>>
        Shop == <<HeaderLine("marketplaces", "shop"), EntryLine("source")>>
    IN {Codex(lines, <<"cache", "mcp.json">> :> map) : map \in Maps, lines \in
            {Plugin, Server(EntryLine("proxied")) \o Plugin, Plugin \o <<EntryLine("off")>>}}
       \cup {Codex(lines, (<<"source", ".mcp.json">> :> ProxiedMap) @@ (<<"cache", "child">> :> PlainMap)) :
               lines \in {Plugin \o Shop, Plugin \o <<OddLine>>, Shop \o Plugin, <<>>,
                          Server(EntryLine("command")) \o <<HeaderLine("other", "")>> \o <<EntryLine("proxied")>>,
                          Server(EntryLine("url")) \o <<EntryLine("proxied")>>,
                          Server(OddLine) \o <<EntryLine("proxied")>> \o Server(EntryLine("proxied")),
                          Server(EntryLine("proxied")) \o Server(EntryLine("proxied")), Server(EntryLine("timeout"))}}
MCSurveyed == ClaudeDisks \cup CodexDisks
MCFindings == {[kind |-> "native-config", key |-> "http", observation |-> "partially-observed"],
               [kind |-> "direct-http", key |-> "fetch", observation |-> "uncovered"]}
=============================================================================
