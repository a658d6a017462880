----------------------------- MODULE McpServers -----------------------------
(***************************************************************************)
(* The MCP servers and the cache of their tools (internal/api/admin        *)
(* mcp_servers.go, internal/db/mcp_servers.go, internal/mcp/tool_cache.go, *)
(* the tool fetcher of internal/api/admin/mcp_proxy.go).  The tools of a   *)
(* server are listed over the network and kept in memory and in the        *)
(* database, so that an instance starts with them.                         *)
(***************************************************************************)
EXTENDS AccessLists

CONSTANTS
    Aliases,
    FileAlias,    \* the alias of the one server that the configuration file names
    Tools,        \* names of tools; every server has all of them
    FirstBlocked, \* the blocklists at the start
    Fetchers      \* bound: refreshes in the background at one time

VARIABLES
    tools,        \* tools[i][s]: None, "fresh" or "stale"
    saved,        \* the servers whose tools are in the database
    toolLock,     \* toolLock[i]: None, or the caller that holds the cache
    fetches,      \* fetches[f]: None, or a refresh in the background
    blocked,      \* the blocklists: pairs of a server and a tool
    purged        \* history, purged[i]: the deleted servers whose tools i has dropped
                  \* while nobody was about to store them

toolVars == <<tools, saved, toolLock, fetches, blocked, purged>>

Scopes == {"global", "org", "team"}
ServerRows == [alias: Aliases, scope: Scopes, yaml: BOOLEAN, active: BOOLEAN, url: 0..1, live: BOOLEAN]

\* What the queries return and the transport cache keeps, and the loads that read it.
Results == (SUBSET (Models \cup Servers)) \cup [Servers -> ServerRows \cup {None}]
           \cup [Servers -> {None, 0, 1}]
Loads   == [on: Instances, kind: Kinds, read: Seq(Results), dirty: BOOLEAN]

ASSUME ServersAssumption ==
    /\ FirstServers \in [Servers -> ServerRows \cup {None}] /\ FileAlias \in Aliases
    /\ FirstBlocked \subseteq Servers \X Tools
    /\ None \notin {"fresh", "stale"} \cup Callers \cup Tools \cup ServerRows /\ None \notin Loads

-----------------------------------------------------------------------------
(* Lookups.                                                                *)

ServerRow(alias, scope) ==
    [alias |-> alias, scope |-> scope, yaml |-> FALSE, active |-> TRUE, url |-> 0, live |-> TRUE]

\* The alias is unique among the live servers of a scope.
AliasFree(s, alias, scope) ==
    \A x \in Servers \ {s} : Live(x) => (rows[x].alias # alias \/ rows[x].scope # scope)

\* Get of the server cache and GetMCPServerByAliasScoped: the server of the team
\* goes before the organisation's, and that before the global one.
Named(found, alias, team) ==
    LET of(scope) == {s \in Servers : found[s] # None /\ found[s].alias = alias /\ found[s].scope = scope}
    IN  IF team /\ of("team") # {} THEN of("team")
        ELSE IF of("org") # {} THEN of("org") ELSE of("global")
Lookup(i, alias, team) ==
    IF Named(cached[i]["servers"][1], alias, team) # {}
    THEN Named(cached[i]["servers"][1], alias, team)
    ELSE Named(Result("servers", "active"), alias, team)

-----------------------------------------------------------------------------
(* RefreshServer: the row is looked up, the tools are listed without the   *)
(* lock, the entry is replaced, and the tools are saved.                   *)

\* Mutant of Fetchable: the server is taken from a copy made at the start.
FetchableOnce(s) == rows[s] # None
\* GetMCPServer finds inactive servers, too.
Fetchable(s) == Live(s)

NewFetch(i, s) == [on |-> i, server |-> s, step |-> "find"]

Fetch(f) ==
    LET r == fetches[f] IN
    /\ r # None /\ r.step = "find"
    /\ fetches' = [fetches EXCEPT ![f] = IF Fetchable(r.server) THEN [r EXCEPT !.step = "set"] ELSE None]
    /\ UNCHANGED <<tools, saved, toolLock, blocked, purged>>

ListFails(f) ==
    /\ fetches[f] # None /\ fetches[f].step = "set"
    /\ fetches' = [fetches EXCEPT ![f] = None]
    /\ UNCHANGED <<tools, saved, toolLock, blocked, purged>>

StoreTools(f) ==
    LET r == fetches[f] IN
    /\ r # None /\ r.step = "set" /\ toolLock[r.on] = None
    /\ tools' = [tools EXCEPT ![r.on][r.server] = "fresh"]
    /\ fetches' = [fetches EXCEPT ![f].step = "save"]
    /\ UNCHANGED <<saved, toolLock, blocked, purged>>

\* The error of the store is dropped, and the foreign key refuses no deleted row.
Save(f) ==
    LET r == fetches[f] IN
    /\ r # None /\ r.step = "save"
    /\ saved' \in {saved, saved \cup {r.server}}
    /\ fetches' = [fetches EXCEPT ![f] = None]
    /\ UNCHANGED <<tools, toolLock, blocked, purged>>

Background(f) == /\ Fetch(f) \/ ListFails(f) \/ StoreTools(f) \/ Save(f)
                 /\ UNCHANGED <<tableVars, task, events>>

\* RefreshAll, once a day, one server after the other.
Refresh(i) ==
    \E s \in Servers, f \in Fetchers :
        /\ tools[i][s] # None
        /\ fetches[f] = None /\ Event
        /\ fetches' = [fetches EXCEPT ![f] = NewFetch(i, s)]
        /\ UNCHANGED <<tableVars, task, tools, saved, toolLock, blocked, purged>>

\* An hour passes since the tools of a server were listed.
Stale(i) ==
    \E s \in Servers :
        /\ tools[i][s] = "fresh" /\ Event
        /\ tools' = [tools EXCEPT ![i][s] = "stale"]
        /\ UNCHANGED <<tableVars, task, saved, toolLock, fetches, blocked, purged>>

-----------------------------------------------------------------------------
(* GetTools, which lists and saves the tools under the lock of the cache.  *)
(* The caller goes on with the servers that are left.                      *)

GetFresh(w) ==
    LET t == task[w] IN
    /\ t.step = "get" /\ toolLock[t.on] = None
    /\ \E s \in t.get : /\ tools[t.on][s] = "fresh"
                        /\ Become(w, [t EXCEPT !.get = @ \ {s}, !.got = @ \cup {s}])
    /\ UNCHANGED <<tableVars, toolVars, events>>

\* A server that is not found is left out.
LockTools(w) ==
    LET t == task[w] IN
    /\ t.step = "get" /\ toolLock[t.on] = None
    /\ \E s \in t.get :
          /\ tools[t.on][s] # "fresh"
          /\ IF Fetchable(s)
             THEN /\ Become(w, [t EXCEPT !.step = "list", !.server = s])
                  /\ toolLock' = [toolLock EXCEPT ![t.on] = w]
             ELSE Become(w, [t EXCEPT !.get = @ \ {s}]) /\ UNCHANGED toolLock
    /\ UNCHANGED <<tableVars, tools, saved, fetches, blocked, purged, events>>

ListTools(w) ==
    LET t == task[w]  s == t.server  left == [t EXCEPT !.step = "get", !.get = @ \ {s}] IN
    /\ t.step = "list"
    /\ toolLock' = [toolLock EXCEPT ![t.on] = None]
    /\ \/ /\ tools' = [tools EXCEPT ![t.on][s] = "fresh"]
          /\ saved' \in {saved, saved \cup {s}}
          /\ Become(w, [left EXCEPT !.got = @ \cup {s}])
       \/ Become(w, left) /\ UNCHANGED <<tools, saved>>
    /\ UNCHANGED <<tableVars, fetches, blocked, purged, events>>

GetTools(i, servers, script) ==
    [step |-> "get", on |-> i, get |-> servers, got |-> {}, server |-> None, script |-> script]

\* HandleListMCPServerTools.
BeginListTools(w) ==
    \E i \in Instances, s \in Servers :
        /\ Request(w, i) /\ Live(s)
        /\ Become(w, GetTools(i, {s}, None))
        /\ UNCHANGED <<tableVars, toolVars>>

Listed(w) ==
    /\ task[w].step = "get" /\ task[w].get = {} /\ task[w].script = None
    /\ Become(w, Idle)
    /\ UNCHANGED <<tableVars, toolVars, events>>

-----------------------------------------------------------------------------
(* The handlers of a server.  The caches of the instance are read again    *)
(* after every change but the one of a connection test.                    *)

\* What the handler does after the row is written.
WriteRow(s, row, others) ==
    /\ rows' = [rows EXCEPT ![s] = row]
    /\ missed' = MissedBy(others, "servers")
    /\ UNCHANGED <<lists, cached, channel>>

ThenReload(w, i, fetch) ==
    /\ load' = [Outdated("servers", "active") EXCEPT ![w] = NewLoad(i, "servers")]
    /\ Become(w, [step |-> "reload", on |-> i, kind |-> "servers", fetch |-> fetch])

Others(i) == Instances \ {i}

\* The tools are listed in the background once the caches are read.  When the
\* credentials of the new row cannot be stored the handler ends there.
Create(w, scope) ==
    \E i \in Instances, s \in Servers, alias \in Aliases :
        /\ Request(w, i) /\ rows[s] = None /\ AliasFree(s, alias, scope)
        /\ \/ WriteRow(s, ServerRow(alias, scope), Others(i)) /\ ThenReload(w, i, s)
           \/ /\ WriteRow(s, ServerRow(alias, scope), Instances)
              /\ load' = Outdated("servers", "active") /\ UNCHANGED task
        /\ UNCHANGED toolVars

CreateServer(w) == Create(w, "global")
CreateOrgServer(w) == Create(w, "org")
CreateTeamServer(w) == Create(w, "team")

\* HandleRefreshMCPServerTools, unless the tools were listed within the last minute.
RefreshTools(w) ==
    \E i \in Instances, s \in Servers, f \in Fetchers :
        /\ Request(w, i) /\ Live(s) /\ fetches[f] = None
        /\ fetches' = [fetches EXCEPT ![f] = NewFetch(i, s)]
        /\ UNCHANGED <<tableVars, task, tools, saved, toolLock, blocked, purged>>

UpdateServer(w) ==
    \E i \in Instances, s \in Servers :
        /\ Request(w, i) /\ Live(s)
        /\ \E row \in {[rows[s] EXCEPT !.url = 1 - @]} \cup {[rows[s] EXCEPT !.alias = a] : a \in Aliases} :
              /\ AliasFree(s, row.alias, row.scope)
              /\ WriteRow(s, row, Others(i))
        /\ ThenReload(w, i, None)
        /\ UNCHANGED toolVars

\* The goroutine starts before the caches are read.
ActivateServer(w) ==
    \E i \in Instances, s \in Servers, f \in Fetchers :
        /\ Request(w, i) /\ Live(s) /\ fetches[f] = None
        /\ WriteRow(s, [rows[s] EXCEPT !.active = TRUE], Others(i))
        /\ ThenReload(w, i, None)
        /\ fetches' = [fetches EXCEPT ![f] = NewFetch(i, s)]
        /\ UNCHANGED <<tools, saved, toolLock, blocked, purged>>

\* DeactivateMCPServer and DeleteMCPServer drop the tools before the caches are read.
RemoveServer(w) ==
    \E i \in Instances, s \in Servers :
        /\ Request(w, i) /\ Live(s)
        /\ \E row \in {[rows[s] EXCEPT !.active = FALSE], [rows[s] EXCEPT !.live = FALSE]} :
              WriteRow(s, row, Others(i))
        /\ load' = Outdated("servers", "active")
        /\ Become(w, [step |-> "forget", on |-> i, kind |-> "servers", server |-> s, fetch |-> None])
        /\ UNCHANGED toolVars

Invalidate(w) ==
    LET t == task[w] IN
    /\ t.step = "forget" /\ toolLock[t.on] = None
    /\ tools' = [tools EXCEPT ![t.on][t.server] = None]
    /\ Become(w, [t EXCEPT !.step = "unsave"])
    /\ UNCHANGED <<tableVars, saved, toolLock, fetches, blocked, purged, events>>

\* Somebody has found the server and will store its tools.
AboutToKeep(s) ==
    \/ \E f \in Fetchers : fetches[f] # None /\ fetches[f].server = s /\ fetches[f].step # "find"
    \/ \E c \in Callers : task[c].step = "list" /\ task[c].server = s

Unsave(w) ==
    LET t == task[w]  i == t.on  s == t.server IN
    /\ t.step = "unsave"
    /\ saved' \in {saved, saved \ {s}}
    /\ purged' = IF Live(s) \/ s \in saved' \/ AboutToKeep(s) \/ tools[i][s] # None THEN purged
                 ELSE [purged EXCEPT ![i] = @ \cup {s}]
    /\ load' = [load EXCEPT ![w] = NewLoad(i, "servers")]
    /\ Become(w, [step |-> "reload", on |-> i, kind |-> "servers", fetch |-> None])
    /\ UNCHANGED <<lists, rows, cached, channel, missed, tools, toolLock, fetches, blocked, events>>

Spawn(w) ==
    LET t == task[w] IN
    /\ t.step = "spawn"
    /\ \E f \in Fetchers : /\ fetches[f] = None
                           /\ fetches' = [fetches EXCEPT ![f] = NewFetch(t.on, t.fetch)]
    /\ Become(w, Idle)
    /\ UNCHANGED <<tableVars, tools, saved, toolLock, blocked, purged, events>>

\* TestMCPServerConnection switches a server off that speaks the old transport.
TestServer(w) ==
    \E i \in Instances, s \in Servers :
        /\ Request(w, i) /\ Active(s)
        /\ WriteRow(s, [rows[s] EXCEPT !.active = FALSE], Instances)
        /\ load' = Outdated("servers", "active")
        /\ UNCHANGED <<task, toolVars>>

\* AddMCPServerBlocklist and RemoveMCPServerBlocklist.
ChangeBlocklist(w) ==
    \E i \in Instances, s \in Servers, t \in Tools :
        /\ Request(w, i) /\ Live(s)
        /\ blocked' = IF <<s, t>> \in blocked THEN blocked \ {<<s, t>>} ELSE blocked \cup {<<s, t>>}
        /\ UNCHANGED <<tableVars, task, tools, saved, toolLock, fetches, purged>>

-----------------------------------------------------------------------------
(* What a start does to the servers: the one of the file is written to the *)
(* database, and global servers that speak the old transport are switched  *)
(* off.                                                                    *)

\* ListMCPServers.
Global(table) ==
    {s \in Servers : /\ table[s] # None /\ table[s].live /\ table[s].active
                     /\ table[s].scope = "global"}

\* GetMCPServerByAlias.
GlobalNamed(alias) == {s \in Global(rows) : rows[s].alias = alias}

\* SyncYAMLMCPServers: a server that came from the file gets the file's values, one
\* of the API is left alone, and one that is not found is created.  A server that
\* was switched off is not found and keeps its alias: then nothing starts.
Synced ==
    IF GlobalNamed(FileAlias) # {}
    THEN {[s \in Servers |-> IF s \in GlobalNamed(FileAlias) /\ rows[s].yaml
                             THEN [rows[s] EXCEPT !.url = 0] ELSE rows[s]]}
    ELSE {[rows EXCEPT ![s] = [ServerRow(FileAlias, "global") EXCEPT !.yaml = TRUE]] :
              s \in {x \in Servers : rows[x] = None /\ AliasFree(x, FileAlias, "global")}}

Probed(table) ==
    {[s \in Servers |-> IF s \in old THEN [table[s] EXCEPT !.active = FALSE] ELSE table[s]] :
        old \in SUBSET Global(table)}

-----------------------------------------------------------------------------

ToolsInit ==
    /\ saved = {s \in Servers : FirstServers[s] # None}
    /\ tools = [i \in Instances |-> [s \in Servers |-> IF s \in saved THEN "stale" ELSE None]]
    /\ toolLock = [i \in Instances |-> None]
    /\ fetches = [f \in Fetchers |-> None]
    /\ blocked = FirstBlocked
    /\ purged = [i \in Instances |-> {}]

ServerRequests(w) ==
    /\ Free(w)
    /\ \/ BeginListTools(w) \/ RefreshTools(w)
       \/ CreateServer(w) \/ CreateOrgServer(w) \/ CreateTeamServer(w)
       \/ UpdateServer(w) \/ ActivateServer(w) \/ RemoveServer(w) \/ TestServer(w) \/ ChangeBlocklist(w)

ServerSteps(w) ==
    \/ GetFresh(w) \/ LockTools(w) \/ ListTools(w) \/ Listed(w)
    \/ Invalidate(w) \/ Unsave(w) \/ Spawn(w)
=============================================================================
