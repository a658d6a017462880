-------------------------- MODULE McpGateway_proofs --------------------------
(***************************************************************************)
(* Proofs about McpGateway, for any number of instances, callers, servers, *)
(* aliases, tools and runtimes: the types, the runtimes of the pool, the   *)
(* sessions of an alias, the tools of deleted servers, and the copies that *)
(* the instances keep of the tables.                                       *)
(***************************************************************************)
EXTENDS McpGateway, FiniteSetTheorems, SequenceTheorems, TLAPS

\* The tasks of a handler, by step.
CheckTasks  == [step: {"check"}, on: Instances, kind: Lists \ {"aliases"},
                scope: {"org", "team", "key"}, new: SUBSET (Models \cup Servers),
                left: Seq({"org", "team"}), fetch: {None}]
ReloadTasks == [step: {"reload", "publish"}, on: Instances, kind: Lists \cup {"servers"},
                fetch: Servers \cup {None}]
SpawnTasks  == [step: {"spawn"}, on: Instances, kind: {"servers"}, fetch: Servers]
ForgetTasks == [step: {"forget", "unsave"}, on: Instances, kind: {"servers"}, server: Servers,
                fetch: {None}]
GetTasks    == [step: {"get"}, on: Instances, get: SUBSET Servers, got: SUBSET Servers,
                server: Servers \cup {None}, script: Scripts \cup {None}]
ListTasks   == [step: {"list"}, on: Instances, get: SUBSET Servers, got: SUBSET Servers,
                server: Servers, script: Scripts \cup {None}]
CallTasks   == [step: Calling, on: Instances, server: Servers, alias: Aliases,
                tool: Tools \cup {None}, init: BOOLEAN, sid: Nat, script: Scripts \cup {None}]
Tasks == {Idle} \cup CheckTasks \cup ReloadTasks \cup SpawnTasks \cup ForgetTasks
         \cup GetTasks \cup ListTasks \cup CallTasks \cup Scripts

\* A handler calls from, and returns to, a script of its own instance.
Scripted(t) == t.step \in Calling \cup {"get", "list"} /\ t.script # None => t.script.on = t.on
TasksOK == task \in [Callers -> Tasks] /\ \A w \in Callers : Scripted(task[w])

\* A load reads no more than its queries; that of the transports has them already.
ServerTables == [Servers -> ServerRows \cup {None}]
LoadTypes == {l \in Loads : /\ IF l.kind = "transports" THEN Len(l.read) = 1
                               ELSE Len(l.read) <= Len(Queries(l.kind))
                            /\ l.kind = "servers" => l.read \in Seq(ServerTables)}
LoadsOK == load \in [Loaders -> LoadTypes \cup {None}]
LoadersOK ==
    \A w \in Callers : Loading(w) =>
        /\ task[w].step = "reload" /\ task[w].on = load[w].on
        /\ load[w].kind = task[w].kind \/ (task[w].kind = "servers" /\ load[w].kind = "transports")

ContentsOK ==
    /\ lists \in [Lists -> [{"org", "team", "key"} -> SUBSET (Models \cup Servers)]]
    /\ rows \in ServerTables
TablesOK ==
    /\ ContentsOK
    /\ cached \in [Instances -> [Kinds -> Seq(Results)]]
    /\ \A i \in Instances, k \in Kinds : Len(cached[i][k]) = Len(Queries(k))
    /\ channel \in [Instances -> Seq(Kinds \ {"transports"})]
    /\ missed \in [Instances -> [Kinds -> BOOLEAN]]
    /\ events \in 0..MaxEvents

Fetches == [on: Instances, server: Servers, step: {"find", "set", "save"}]
ToolsOK ==
    /\ tools \in [Instances -> [Servers -> {None, "fresh", "stale"}]]
    /\ saved \subseteq Servers /\ blocked \subseteq Servers \X Tools
    /\ toolLock \in [Instances -> Callers \cup {None}]
    /\ fetches \in [Fetchers -> Fetches \cup {None}]
    /\ purged \in [Instances -> SUBSET Servers]

SessionsOK ==
    /\ opened \in 0..MaxSessions
    /\ sessions \in [Instances -> [Aliases -> 0..opened]]
    /\ alive \in [Servers -> SUBSET Nat]
    /\ reinit \in [Instances -> Callers \cup {None}]
    /\ refused \in [Instances -> [Aliases -> SUBSET Nat]]
    /\ reopened \in [Instances -> [Aliases -> Nat]]
CallsOK == \A w \in Callers : task[w].step \in Calling => task[w].sid <= opened

PoolsOK == idle \in [Instances -> Nat] /\ lost \in [Instances -> Nat]

GatewayTypes ==
    TablesOK /\ LoadsOK /\ LoadersOK /\ TasksOK /\ ToolsOK /\ SessionsOK /\ CallsOK /\ PoolsOK

-----------------------------------------------------------------------------
(* The inductive invariants.                                               *)

(***************************************************************************)
(* A server that an instance has dropped the tools of is deleted for good: *)
(* its row stays, so that nobody creates it again, and nobody who has      *)
(* found it before is left.  A handler that drops tools has seen the row.  *)
(***************************************************************************)
PurgedInv ==
    /\ \A w \in Callers : task[w].step \in {"forget", "unsave"} => rows[task[w].server] # None
    /\ \A i \in Instances : \A s \in purged[i] :
          /\ rows[s] # None /\ ~Live(s) /\ ~AboutToKeep(s)
          /\ tools[i][s] = None /\ s \notin saved

(***************************************************************************)
(* A session that is opened and not stored yet is nobody else's: it is not *)
(* stored, was not refused, and no other call has it.  Of the sessions an  *)
(* alias was refused, one may still be replaced: the one it has, or the    *)
(* one that the holder of the lock is replacing.                           *)
(***************************************************************************)
New(w) == task[w].step \in {"keep", "initialized"}
NewSessions ==
    \A w \in Callers : New(w) =>
        /\ task[w].sid \in 1..opened
        /\ \A i \in Instances, a \in Aliases :
              sessions[i][a] # task[w].sid /\ task[w].sid \notin refused[i][a]
        /\ \A v \in Callers \ {w} : task[v].step \in Calling => task[v].sid # task[w].sid

LockHeld ==
    /\ \A i \in Instances : reinit[i] # None =>
          task[reinit[i]].step \in {"init", "initialized"} /\ task[reinit[i]].on = i
    /\ \A w \in Callers : task[w].step \in {"init", "initialized"} => reinit[task[w].on] = w
    /\ \A w \in Callers : task[w].step \in {"expired", "init"} =>
          task[w].sid \in refused[task[w].on][task[w].alias]

Reopening(i, a) == reinit[i] # None /\ task[reinit[i]].alias = a
Spare(i, a) ==
    IF Reopening(i, a) THEN task[reinit[i]].step = "init"
    ELSE sessions[i][a] \in {0} \cup refused[i][a]
Balanced(i, a) ==
    /\ IsFiniteSet(refused[i][a])
    /\ reopened[i][a] <= Cardinality(refused[i][a])
    /\ Spare(i, a) => reopened[i][a] < Cardinality(refused[i][a])
                      \/ (refused[i][a] = {} /\ reopened[i][a] = 0)
SessionsInv ==
    /\ NewSessions /\ LockHeld
    /\ \A i \in Instances, a \in Aliases : refused[i][a] \subseteq 0..opened /\ Balanced(i, a)

(***************************************************************************)
(* What a load has read and nobody has changed since is what its queries   *)
(* return.  A copy that is not what the table holds was missed, or there   *)
(* is somebody who will bring the instance the table: a message, a load of *)
(* the instance, a handler of it that has yet to load, or one elsewhere    *)
(* that has yet to announce the change.                                    *)
(***************************************************************************)
Fresh(p) ==
    Loading(p) /\ ~load[p].dirty =>
        IF load[p].kind = "transports" THEN load[p].read = Current("transports")
        ELSE \A n \in 1..Len(load[p].read) :
                load[p].read[n] = Result(load[p].kind, Queries(load[p].kind)[n])

Brings(p, i, k) ==
    /\ Loading(p) /\ load[p].on = i
    /\ load[p].kind = k \/ (k = "transports" /\ load[p].kind = "servers")
Owes(w, i, k) ==
    \/ task[w].step \in {"forget", "unsave"} /\ task[w].on = i /\ k \in {"servers", "transports"}
    \/ /\ task[w].step \in {"reload", "publish"} /\ task[w].on # i
       /\ task[w].kind = k /\ k \in Announced
Pending(i, k) ==
    \/ \E n \in DOMAIN channel[i] : channel[i][n] = k
    \/ \E p \in Loaders : Brings(p, i, k)
    \/ \E w \in Callers : Owes(w, i, k)
Covered(i, k) == missed[i][k] \/ cached[i][k] = Current(k) \/ Pending(i, k)
CopiesInv ==
    (\A p \in Loaders : Fresh(p)) /\ \A i \in Instances, k \in Kinds : Covered(i, k)

-----------------------------------------------------------------------------
(* Tasks.                                                                  *)

\* The step of a task says what its other fields are.
LEMMA Shapes ==
  ASSUME NEW t \in Tasks
  PROVE  /\ t.step \in {"idle", "check", "reload", "publish", "spawn", "forget", "unsave", "get", "list",
                        "run"} \cup Calling
         /\ t.step = "idle" => t = Idle
         /\ t.step = "check" => t \in CheckTasks
         /\ t.step \in {"reload", "publish"} => t \in ReloadTasks
         /\ t.step = "spawn" => t \in SpawnTasks
         /\ t.step \in {"forget", "unsave"} => t \in ForgetTasks
         /\ t.step = "get" => t \in GetTasks
         /\ t.step = "list" => t \in ListTasks
         /\ t.step \in Calling => t \in CallTasks
         /\ t.step = "run" => t \in Scripts
<1>1. CASE t = Idle
  BY <1>1 DEF Idle, Calling
<1>2. CASE t \in CheckTasks
  BY <1>2 DEF CheckTasks, Calling
<1>3. CASE t \in ReloadTasks
  BY <1>3 DEF ReloadTasks, Calling
<1>4. CASE t \in SpawnTasks
  BY <1>4 DEF SpawnTasks, Calling
<1>5. CASE t \in ForgetTasks
  BY <1>5 DEF ForgetTasks, Calling
<1>6. CASE t \in GetTasks
  BY <1>6 DEF GetTasks, Calling
<1>7. CASE t \in ListTasks
  BY <1>7 DEF ListTasks, Calling
<1>8. CASE t \in CallTasks
  BY <1>8 DEF CallTasks, Calling
<1>9. CASE t \in Scripts
  BY <1>9 DEF Scripts, Calling
<1> QED BY <1>1, <1>2, <1>3, <1>4, <1>5, <1>6, <1>7, <1>8, <1>9 DEF Tasks

\* The task of one caller is another one.
LEMMA TaskChanged ==
  ASSUME TasksOK, NEW w \in Callers, NEW t \in Tasks, Scripted(t), Become(w, t)
  PROVE  TasksOK' /\ task'[w] = t /\ \A v \in Callers \ {w} : task'[v] = task[v]
<1>1. task' \in [Callers -> Tasks] /\ task'[w] = t /\ \A v \in Callers \ {w} : task'[v] = task[v]
  BY DEF TasksOK, Become
<1>2. \A v \in Callers : Scripted(task'[v])
  BY <1>1 DEF TasksOK
<1> QED BY <1>1, <1>2 DEF TasksOK, Scripted

\* A handler goes from one step to another, and makes no calls.
Handling == {"idle", "check", "reload", "publish", "spawn", "forget", "unsave", "get", "list"}
Handles(w, t) ==
    /\ t \in Tasks /\ Scripted(t) /\ Become(w, t)
    /\ task[w].step \in Handling /\ t.step \in Handling

\* The calls under way are the ones there were.
LEMMA CallsKept ==
  ASSUME TasksOK, CallsOK, opened' = opened, NEW w \in Callers, NEW t \in Tasks, Handles(w, t)
  PROVE  TasksOK' /\ CallsOK' /\ task'[w] = t /\ \A v \in Callers \ {w} : task'[v] = task[v]
<1>1. TasksOK' /\ task'[w] = t /\ \A v \in Callers \ {w} : task'[v] = task[v]
  BY TaskChanged DEF Handles
<1>2. t.step \notin Calling
  BY DEF Handles, Handling, Calling
<1> QED BY <1>1, <1>2 DEF CallsOK

\* Nobody loads but in the step that waits for the load.
LEMMA LoadersKept ==
  ASSUME TasksOK, LoadersOK, load' = load, NEW w \in Callers, NEW t \in Tasks, Handles(w, t),
         task[w].step # "reload"
  PROVE  LoadersOK'
<1>1. task'[w] = t /\ \A v \in Callers \ {w} : task'[v] = task[v]
  BY TaskChanged DEF Handles
<1> QED BY <1>1 DEF LoadersOK, Loading

\* The queries of a table.
LEMMA QueryCounts ==
  ASSUME NEW k \in Kinds
  PROVE  /\ Len(Queries(k)) \in 1..3 /\ Queries(k) \in Seq({"org", "team", "key", "active"})
         /\ k \in {"servers", "transports"} => Queries(k) = <<"active">>
         /\ k \in Lists => \A n \in 1..Len(Queries(k)) : Queries(k)[n] \in {"org", "team", "key"}
<1>1. CASE k \in {"servers", "transports"}
  <2>1. Queries(k) = <<"active">>
    BY <1>1 DEF Queries
  <2> QED BY <1>1, <2>1 DEF Lists
<1>2. CASE k = "aliases"
  <2>1. Queries(k) = <<"org", "team">>
    BY <1>2 DEF Queries
  <2>2. Len(<<"org", "team">>) = 2 /\ <<"org", "team">>[1] = "org" /\ <<"org", "team">>[2] = "team"
    OBVIOUS
  <2>3. <<"org", "team">> \in Seq({"org", "team", "key", "active"})
    OBVIOUS
  <2> QED BY <1>2, <2>1, <2>2, <2>3
<1>3. CASE k \in {"models", "access"}
  <2>1. Queries(k) = <<"org", "team", "key">>
    BY <1>3 DEF Queries
  <2> QED BY <1>3, <2>1 DEF Lists
<1> QED BY <1>1, <1>2, <1>3 DEF Kinds, Lists

\* A change makes loads dirty, and does nothing else to them.
LEMMA OutdatedLoads ==
  ASSUME LoadsOK, NEW k, NEW q
  PROVE  /\ Outdated(k, q) \in [Loaders -> LoadTypes \cup {None}]
         /\ \A p \in Loaders :
               /\ Outdated(k, q)[p] # None <=> Loading(p)
               /\ Loading(p) => /\ Outdated(k, q)[p].on = load[p].on
                                /\ Outdated(k, q)[p].kind = load[p].kind
                                /\ Outdated(k, q)[p].read = load[p].read
                                /\ ~Outdated(k, q)[p].dirty => Outdated(k, q)[p] = load[p]
<1> SUFFICES ASSUME NEW p \in Loaders
             PROVE  /\ Outdated(k, q)[p] \in LoadTypes \cup {None}
                    /\ Outdated(k, q)[p] # None <=> Loading(p)
                    /\ Loading(p) => /\ Outdated(k, q)[p].on = load[p].on
                                     /\ Outdated(k, q)[p].kind = load[p].kind
                                     /\ Outdated(k, q)[p].read = load[p].read
                                     /\ ~Outdated(k, q)[p].dirty => Outdated(k, q)[p] = load[p]
  BY DEF Outdated
<1> DEFINE l == load[p]
           d == [l EXCEPT !.dirty = TRUE]
<1>1. l \in LoadTypes \cup {None} /\ None \notin Loads
  BY ServersAssumption DEF LoadsOK
<1>2. Outdated(k, q)[p] = l \/ (Loading(p) /\ Outdated(k, q)[p] = d)
  BY DEF Outdated
<1>3. ASSUME Loading(p)
      PROVE  d \in LoadTypes /\ d # None /\ d.on = l.on /\ d.kind = l.kind /\ d.read = l.read /\ d.dirty
  <2>1. l \in Loads /\ l \in LoadTypes
    BY <1>1, <1>3 DEF Loading, LoadTypes
  <2>2. d \in Loads /\ d.on = l.on /\ d.kind = l.kind /\ d.read = l.read /\ d.dirty
    BY <2>1 DEF Loads
  <2> QED BY <1>1, <2>1, <2>2 DEF LoadTypes
<1> HIDE DEF d
<1> QED BY <1>1, <1>2, <1>3 DEF Loading

\* A load that begins has read nothing.
LEMMA FirstLoad ==
  ASSUME NEW i \in Instances, NEW k \in Kinds \ {"transports"}
  PROVE  NewLoad(i, k) \in LoadTypes /\ NewLoad(i, k) # None
         /\ NewLoad(i, k).on = i /\ NewLoad(i, k).kind = k /\ NewLoad(i, k).read = <<>>
         /\ ~NewLoad(i, k).dirty
<1>1. <<>> \in Seq(Results) /\ <<>> \in Seq(ServerTables) /\ Len(<<>>) = 0
  OBVIOUS
<1>2. NewLoad(i, k) \in Loads
  BY <1>1 DEF NewLoad, Loads
<1> DEFINE l == NewLoad(i, k)
<1>3. l.on = i /\ l.kind = k /\ l.read = <<>> /\ ~l.dirty
  BY DEF NewLoad
<1>4. Len(Queries(k)) \in 1..3 /\ k # "transports"
  BY QueryCounts
<1> HIDE DEF l
<1>5. l \in LoadTypes /\ l # None
  <2>1. l \in Loads /\ l # None
    BY <1>2, ServersAssumption DEF l
  <2>2. Len(l.read) <= Len(Queries(k)) /\ l.read \in Seq(ServerTables)
    BY <1>1, <1>3, <1>4
  <2> QED BY <1>3, <1>4, <2>1, <2>2 DEF LoadTypes
<1> QED BY <1>3, <1>5 DEF l

\* A lookup finds servers.
LEMMA LookupServers ==
  ASSUME NEW i, NEW alias, NEW team
  PROVE  Lookup(i, alias, team) \subseteq Servers
BY DEF Lookup, Named

\* Of what a call leaves its caller.
LEMMA AfterCall ==
  ASSUME NEW t \in CallTasks, Scripted(t)
  PROVE  Over(t) \in {Idle} \cup Scripts /\ Over(t).step \in {"idle", "run"} /\ Scripted(Over(t))
BY DEF Over, CallTasks, Scripts, Scripted, Idle, Calling

\* A caller goes from one step of a call or a script to another.
Moves(w, t) ==
    /\ t \in Tasks /\ Scripted(t) /\ Become(w, t)
    /\ task[w].step \in {"idle", "get", "run"} \cup Calling
    /\ t.step \in {"idle", "get", "run"} \cup Calling
    /\ t.step \in Calling => t.sid <= opened'

\* A call of a server on an instance, and what it can be.
LEMMA CallTyped ==
  ASSUME SessionsOK, NEW i \in Instances, NEW s \in Servers, NEW alias \in Aliases,
         NEW tool \in Tools \cup {None}, NEW init \in BOOLEAN, NEW script \in Scripts \cup {None},
         script # None => script.on = i
  PROVE  LET c == Call(i, s, alias, tool, init, script)
         IN  c \in CallTasks /\ c \in Tasks /\ Scripted(c) /\ c.sid <= opened /\ c.step = "call"
             /\ c.script = script /\ c.on = i /\ c.alias = alias /\ c.init = init
             /\ c.sid \in {0, sessions[i][alias]} /\ c.sid \in Nat
<1> DEFINE c == Call(i, s, alias, tool, init, script)
<1>1. sessions[i][alias] \in Nat /\ sessions[i][alias] <= opened /\ opened \in Nat
  BY CallsAssumption DEF SessionsOK
<1>2. c.sid \in {0, sessions[i][alias]} /\ c.sid \in Nat /\ c.sid <= opened
  BY <1>1 DEF Call
<1>3. c \in CallTasks
  BY <1>1 DEF Call, CallTasks, Calling
<1>4. c.step = "call" /\ c.script = script /\ c.on = i /\ c.alias = alias /\ c.init = init
  BY DEF Call
<1> QED BY <1>2, <1>3, <1>4 DEF Tasks, Scripted

\* A step of a call leaves the tables and the tools alone, and the types as they are.
LEMMA CallSteps ==
  ASSUME GatewayTypes, NEW w \in Callers, CallNext(w)
  PROVE  /\ \E t \in Tasks : Moves(w, t)
         /\ UNCHANGED <<tableVars, toolVars>> /\ SessionsOK' /\ PoolsOK' /\ events' \in 0..MaxEvents
<1> DEFINE t == task[w]
<1> USE DEF GatewayTypes, Doing, Rest
<1>1. t \in Tasks /\ Scripted(t) /\ (t.step \in Calling => t.sid <= opened)
  BY DEF TasksOK, CallsOK
<1>2. CASE Free(w) /\ BeginCall(w)
  <2>1. PICK i \in Instances, alias \in Aliases, team, admin, init \in BOOLEAN, s \in Servers :
           Request(w, i) /\ Become(w, Call(i, s, alias, None, init, None))
    BY <1>2, LookupServers DEF BeginCall
  <2>2. UNCHANGED <<tableVars, toolVars, sessionVars, poolVars>> /\ events' \in 0..MaxEvents
    BY <1>2, TablesAssumption DEF BeginCall, Request, Event, TablesOK
  <2>3. t.step = "idle"
    BY <1>2 DEF Free, Idle
  <2> DEFINE c == Call(i, s, alias, None, init, None)
  <2>4. c \in Tasks /\ Scripted(c) /\ c.sid <= opened /\ c.step = "call"
    BY CallTyped
  <2>5. Moves(w, c)
    BY <2>1, <2>2, <2>3, <2>4 DEF Moves, Calling, sessionVars
  <2> QED BY <2>2, <2>4, <2>5 DEF SessionsOK, PoolsOK, sessionVars, poolVars
<1>3. CASE Free(w) /\ BeginExecute(w)
  <2>1. PICK i \in Instances, team, admin \in BOOLEAN, servers \in SUBSET Servers,
            blocklist \in [Aliases -> SUBSET Tools] :
           /\ Request(w, i) /\ servers \subseteq Accessible(team, admin)
           /\ Become(w, GetTools(i, servers, Script(i, team, admin, Usable(servers, blocklist))))
    <3>1. \A team, admin, want : Wanted(team, admin, want) \in SUBSET Servers
                                /\ Wanted(team, admin, want) \subseteq Accessible(team, admin)
      BY DEF Wanted, Accessible, OfTeam, OfOrg
    <3>2. PICK i \in Instances, team, admin \in BOOLEAN, want \in (SUBSET Aliases) \ {{}} :
             Request(w, i) /\ \E blocklist \in Blocklists(Wanted(team, admin, want)) :
                Become(w, GetTools(i, Wanted(team, admin, want),
                             Script(i, team, admin, Usable(Wanted(team, admin, want), blocklist))))
      BY <1>3 DEF BeginExecute
    <3>3. \A servers : Blocklists(servers) \subseteq [Aliases -> SUBSET Tools]
      BY DEF Blocklists
    <3> QED BY <3>1, <3>2, <3>3
  <2> DEFINE usable == Usable(servers, blocklist)
             script == Script(i, team, admin, usable)
             g == GetTools(i, servers, script)
  <2>3. UNCHANGED <<tableVars, toolVars, sessionVars, poolVars>> /\ events' \in 0..MaxEvents
    BY <1>3, <2>1, TablesAssumption DEF BeginExecute, Request, Event, TablesOK
  <2>4. t.step = "idle"
    BY <1>3 DEF Free, Idle
  <2>6. usable \in SUBSET (Aliases \X Tools)
    <3>1. \A s \in servers : rows[s].alias \in Aliases
      BY <2>1 DEF Accessible, OfTeam, OfOrg, Active, Live, TablesOK, ContentsOK, ServerTables, ServerRows
    <3> QED BY <3>1 DEF Usable
  <2> HIDE DEF usable
  <2>7. script \in Scripts /\ script.on = i
    BY <2>1, <2>6, CallsAssumption DEF Script, Scripts
  <2> HIDE DEF script
  <2>8. g \in GetTasks /\ g.step = "get" /\ g.on = i /\ g.script = script
    BY <2>1, <2>7 DEF GetTools, GetTasks
  <2>9. Become(w, g)
    BY <2>1 DEF usable, script
  <2> HIDE DEF g
  <2>10. Moves(w, g)
    BY <2>4, <2>7, <2>8, <2>9 DEF Moves, Tasks, Calling, Scripted
  <2> QED BY <2>3, <2>8, <2>10 DEF SessionsOK, PoolsOK, sessionVars, poolVars, Tasks
<1>4. ASSUME t \in CallTasks, t.step \in Calling, Become(w, Over(t))
      PROVE  \E u \in Tasks : Moves(w, u)
  <2>1. Over(t) \in Tasks /\ Scripted(Over(t)) /\ Over(t).step \in {"idle", "run"}
    BY <1>1, <1>4, AfterCall DEF Tasks
  <2> QED BY <1>4, <2>1 DEF Moves, Calling
<1>5. ASSUME NEW u \in CallTasks, t.step \in Calling, Become(w, u), u.script = t.script, u.on = t.on,
             u.sid <= opened'
      PROVE  \E v \in Tasks : Moves(w, v)
  BY <1>1, <1>5 DEF Moves, Calling, Scripted, CallTasks, Tasks
<1>6. t.step \in Calling => t \in CallTasks
  BY <1>1, Shapes
<1>7. opened \in Nat /\ opened <= MaxSessions /\ MaxSessions \in Nat /\ events \in 0..MaxEvents
  BY CallsAssumption DEF SessionsOK, TablesOK
<1> HIDE DEF t
<1>8. CASE Answered(w) \/ Retried(w)
  <2>1. t.step \in Calling /\ Become(w, Over(t))
    BY <1>8 DEF Answered, Retried, Calling, t
  <2> QED BY <1>4, <1>6, <1>7, <1>8, <2>1 DEF Answered, Retried, SessionsOK, PoolsOK, sessionVars, poolVars
<1>9. CASE Opened(w)
  <2> DEFINE u == [t EXCEPT !.step = "keep", !.sid = opened + 1]
  <2>1. t \in CallTasks /\ t.step \in Calling /\ Become(w, u) /\ opened' = opened + 1
    BY <1>6, <1>9 DEF Opened, Calling, Open, t
  <2>2. u \in CallTasks /\ u.script = t.script /\ u.on = t.on /\ u.sid <= opened'
    <3>1. u.sid = opened + 1 /\ u.script = t.script /\ u.on = t.on
      BY <2>1 DEF CallTasks
    <3>2. opened + 1 \in Nat
      BY <1>7
    <3>3. u \in CallTasks
      BY <2>1, <3>2 DEF CallTasks, Calling
    <3> QED BY <2>1, <3>1, <3>2, <3>3
  <2> HIDE DEF u
  <2>3. SessionsOK'
    <3>1. opened' \in 0..MaxSessions /\ 0..opened \subseteq 0..opened'
      BY <1>7, <1>9 DEF Opened, Open
    <3>2. alive' \in [Servers -> SUBSET Nat]
      <4>1. t.server \in Servers /\ opened + 1 \in Nat
        BY <1>7, <2>1 DEF CallTasks
      <4> QED BY <1>9, <4>1 DEF Opened, Open, SessionsOK, t
    <3> QED BY <1>9, <3>1, <3>2 DEF Opened, SessionsOK
  <2> QED BY <1>5, <1>7, <1>9, <2>1, <2>2, <2>3 DEF Opened, PoolsOK, poolVars
<1>10. CASE Refused(w)
  <2> DEFINE u == [t EXCEPT !.step = "expired"]
  <2>1. t \in CallTasks /\ t.step \in Calling /\ Become(w, u) /\ opened' = opened
    BY <1>6, <1>10 DEF Refused, Calling, t
  <2>2. u \in CallTasks /\ u.script = t.script /\ u.on = t.on /\ u.sid <= opened'
    BY <1>1, <1>7, <2>1 DEF CallTasks, Calling, t
  <2> HIDE DEF u
  <2>3. t.on \in Instances /\ t.alias \in Aliases /\ t.sid \in Nat
    BY <2>1 DEF CallTasks
  <2>4. SessionsOK'
    BY <1>10, <2>3 DEF Refused, SessionsOK, t
  <2> QED BY <1>5, <1>7, <1>10, <2>1, <2>2, <2>4 DEF Refused, PoolsOK, poolVars
<1>11. CASE Keep(w)
  <2>1. t \in CallTasks /\ t.step \in Calling /\ Become(w, Over(t)) /\ opened' = opened
    BY <1>6, <1>11 DEF Keep, Calling, t
  <2>2. t.on \in Instances /\ t.alias \in Aliases /\ t.sid \in 0..opened
    BY <1>1, <1>7, <2>1 DEF CallTasks, t
  <2>3. SessionsOK'
    BY <1>11, <2>2 DEF Keep, SessionsOK, t
  <2> QED BY <1>4, <1>7, <1>11, <2>1, <2>3 DEF Keep, PoolsOK, poolVars
<1>12. CASE Lock(w)
  <2>1. t \in CallTasks /\ t.step \in Calling /\ opened' = opened /\ t.on \in Instances /\ t.alias \in Aliases
    BY <1>6, <1>12 DEF Lock, Calling, CallTasks, t
  <2>2. PICK u \in {[t EXCEPT !.step = "retry"], [t EXCEPT !.step = "init"]} : Become(w, u)
    BY <1>12 DEF Lock, t
  <2>3. u \in CallTasks /\ u.script = t.script /\ u.on = t.on /\ u.sid <= opened'
    BY <1>1, <1>7, <2>1 DEF CallTasks, Calling, t
  <2>4. SessionsOK'
    <3>1. sessions' \in {sessions, [sessions EXCEPT ![t.on][t.alias] = 0]}
          /\ reinit' \in {reinit, [reinit EXCEPT ![t.on] = w]}
      BY <1>12 DEF Lock, t
    <3>2. sessions' \in [Instances -> [Aliases -> 0..opened]]
      <4>1. sessions \in [Instances -> [Aliases -> 0..opened]] /\ 0 \in 0..opened
        BY <1>7 DEF SessionsOK
      <4>2. [sessions EXCEPT ![t.on][t.alias] = 0] \in [Instances -> [Aliases -> 0..opened]]
        BY <2>1, <4>1
      <4> QED BY <3>1, <4>1, <4>2
    <3>3. reinit' \in [Instances -> Callers \cup {None}]
      BY <2>1, <3>1 DEF SessionsOK
    <3> QED BY <1>12, <3>2, <3>3 DEF Lock, SessionsOK
  <2> QED BY <1>5, <1>7, <1>12, <2>1, <2>2, <2>3, <2>4 DEF Lock, PoolsOK, poolVars
<1>13. CASE InitializeFails(w)
  <2>1. t \in CallTasks /\ t.step \in Calling /\ Become(w, Over(t)) /\ t.on \in Instances
    BY <1>6, <1>13 DEF InitializeFails, Calling, CallTasks, t
  <2>2. SessionsOK'
    BY <1>13, <2>1 DEF InitializeFails, SessionsOK, t
  <2> QED BY <1>4, <1>7, <1>13, <2>1, <2>2 DEF InitializeFails, PoolsOK, poolVars
<1>14. CASE Initialize(w)
  <2> DEFINE u == [t EXCEPT !.step = "initialized", !.sid = opened + 1]
  <2>1. t \in CallTasks /\ t.step \in Calling /\ Become(w, u) /\ opened' = opened + 1
    BY <1>6, <1>14 DEF Initialize, Calling, Open, t
  <2>2. u \in CallTasks /\ u.script = t.script /\ u.on = t.on /\ u.sid <= opened'
    <3>1. u.sid = opened + 1 /\ u.script = t.script /\ u.on = t.on
      BY <2>1 DEF CallTasks
    <3>2. opened + 1 \in Nat
      BY <1>7
    <3>3. u \in CallTasks
      BY <2>1, <3>2 DEF CallTasks, Calling
    <3> QED BY <2>1, <3>1, <3>2, <3>3
  <2> HIDE DEF u
  <2>3. t.on \in Instances /\ t.alias \in Aliases
    BY <2>1 DEF CallTasks
  <2>4. SessionsOK'
    <3>1. opened' \in 0..MaxSessions /\ 0..opened \subseteq 0..opened'
      BY <1>7, <1>14 DEF Initialize, Open
    <3>2. alive' \in [Servers -> SUBSET Nat]
      <4>1. t.server \in Servers /\ opened + 1 \in Nat
        BY <1>7, <2>1 DEF CallTasks
      <4> QED BY <1>14, <4>1 DEF Initialize, Open, SessionsOK, t
    <3>3. reopened' \in [Instances -> [Aliases -> Nat]]
      BY <1>14, <2>3 DEF Initialize, SessionsOK, t
    <3> QED BY <1>14, <3>1, <3>2, <3>3 DEF Initialize, SessionsOK
  <2> QED BY <1>5, <1>7, <1>14, <2>1, <2>2, <2>4 DEF Initialize, PoolsOK, poolVars
<1>15. CASE Initialized(w)
  <2> DEFINE u == [t EXCEPT !.step = "retry"]
  <2>1. t \in CallTasks /\ t.step \in Calling /\ Become(w, u) /\ opened' = opened
    BY <1>6, <1>15 DEF Initialized, Calling, t
  <2>2. u \in CallTasks /\ u.script = t.script /\ u.on = t.on /\ u.sid <= opened'
    BY <1>1, <1>7, <2>1 DEF CallTasks, Calling, t
  <2> HIDE DEF u
  <2>3. t.on \in Instances /\ t.alias \in Aliases /\ t.sid \in 0..opened
    BY <1>1, <1>7, <2>1 DEF CallTasks, t
  <2>4. SessionsOK'
    BY <1>15, <2>3 DEF Initialized, SessionsOK, t
  <2> QED BY <1>5, <1>7, <1>15, <2>1, <2>2, <2>4 DEF Initialized, PoolsOK, poolVars
<1>16. CASE Acquire(w) \/ GiveUp(w)
  <2>1. t \in GetTasks /\ t.step = "get" /\ t.script \in Scripts /\ t.script.on = t.on /\ t.on \in Instances
    BY <1>1, <1>16, Shapes DEF Acquire, GiveUp, Listing, GetTasks, Scripted, Calling, t
  <2>2. UNCHANGED <<tableVars, toolVars, events, sessionVars>>
    BY <1>16 DEF Acquire, GiveUp
  <2>3. SessionsOK'
    BY <2>2 DEF SessionsOK, sessionVars
  <2>4. PoolsOK'
    <3>1. CASE Acquire(w)
      <4>1. PICK r \in Runtimes : /\ idle' = [idle EXCEPT ![t.on] = @ - r[2]]
                                 /\ lost' = [lost EXCEPT ![t.on] = @ + r[3]] /\ idle[t.on] > 0
        BY <3>1 DEF Acquire, t
      <4>2. r[2] \in 0..1 /\ r[3] \in 0..1
        BY DEF Runtimes
      <4>3. idle[t.on] - r[2] \in Nat /\ lost[t.on] + r[3] \in Nat
        BY <2>1, <4>1, <4>2 DEF PoolsOK
      <4> QED BY <2>1, <4>1, <4>3 DEF PoolsOK
    <3>2. CASE GiveUp(w)
      BY <3>2 DEF GiveUp, PoolsOK, poolVars
    <3> QED BY <1>16, <3>1, <3>2
  <2> DEFINE offered == {x \in t.script.tools : \E s \in t.got : rows[s].alias = x[1]}
  <2>5. PICK u \in {Idle, [t.script EXCEPT !.tools = offered]} : Become(w, u)
    BY <1>16 DEF Acquire, GiveUp, t
  <2>6. offered \in SUBSET (Aliases \X Tools)
    BY <2>1 DEF Scripts
  <2> HIDE DEF offered
  <2>7. u \in {Idle} \cup Scripts
    BY <2>1, <2>6 DEF Scripts
  <2>8. Moves(w, u)
    BY <2>1, <2>5, <2>7 DEF Moves, Tasks, Scripts, Idle, Scripted, Calling, t
  <2> QED BY <1>7, <2>2, <2>3, <2>4, <2>8 DEF Moves
<1>17. CASE CallTool(w)
  <2>1. t \in Scripts /\ t.step = "run" /\ t.left > 0
    BY <1>1, <1>17, Shapes DEF CallTool, t
  <2>2. PICK x \in t.tools, s \in Servers :
           Become(w, Call(t.on, s, x[1], x[2], FALSE, [t EXCEPT !.left = @ - 1]))
    BY <1>17, LookupServers DEF CallTool, t
  <2> DEFINE script == [t EXCEPT !.left = @ - 1]
  <2>3. script \in Scripts /\ script.on = t.on /\ t.on \in Instances
    BY <2>1, CallsAssumption DEF Scripts
  <2>4. x[1] \in Aliases /\ x[2] \in Tools
    BY <2>1 DEF Scripts
  <2> HIDE DEF script
  <2> PICK no \in BOOLEAN : no = FALSE
    OBVIOUS
  <2> DEFINE c == Call(t.on, s, x[1], x[2], no, script)
  <2>5. c \in Tasks /\ Scripted(c) /\ c.sid <= opened /\ c.step = "call"
    BY <2>3, <2>4, CallTyped
  <2>6. Become(w, c)
    BY <2>2 DEF script
  <2> HIDE DEF c
  <2>7. Moves(w, c)
    BY <1>17, <2>1, <2>5, <2>6 DEF Moves, Calling, CallTool, sessionVars, t
  <2> QED BY <1>7, <1>17, <2>5, <2>7 DEF CallTool, SessionsOK, PoolsOK, sessionVars, poolVars
<1>18. CASE Release(w)
  <2>1. t \in Scripts /\ t.step = "run" /\ t.on \in Instances
    BY <1>1, <1>18, Shapes DEF Release, Scripts, t
  <2>2. Moves(w, Idle)
    BY <1>18, <2>1 DEF Moves, Release, Idle, Tasks, Scripted, Calling, t
  <2>3. PoolsOK'
    BY <1>18, <2>1 DEF Release, PoolsOK, t
  <2> QED BY <1>7, <1>18, <2>2, <2>3 DEF Moves, Release, SessionsOK, sessionVars
<1> QED
  BY <1>2, <1>3, <1>8, <1>9, <1>10, <1>11, <1>12, <1>13, <1>14, <1>15, <1>16, <1>17, <1>18
  DEF CallNext

-----------------------------------------------------------------------------
(* Tables and their copies.                                                *)

CopyOf(k, read) == read \in Seq(Results) /\ Len(read) = Len(Queries(k))

\* A sequence of one.
LEMMA OneElement ==
  ASSUME NEW S, NEW e \in S
  PROVE  <<e>> \in Seq(S) /\ Len(<<e>>) = 1 /\ <<e>>[1] = e
OBVIOUS

\* What a table returns can be read and kept.
LEMMA CurrentTyped ==
  ContentsOK => \A k \in Kinds :
     /\ CopyOf(k, Current(k)) /\ Current("transports")[1] \in Results
     /\ Result("servers", "active") \in ServerTables
     /\ k # "transports" => /\ \A n \in 1..Len(Queries(k)) : Result(k, Queries(k)[n]) \in Results
                            /\ \A n \in 1..Len(Queries(k)) : Current(k)[n] = Result(k, Queries(k)[n])
<1> SUFFICES ASSUME ContentsOK, NEW k \in Kinds
             PROVE  /\ CopyOf(k, Current(k)) /\ Current("transports")[1] \in Results
                    /\ Result("servers", "active") \in ServerTables
                    /\ k # "transports" =>
                          /\ \A n \in 1..Len(Queries(k)) : Result(k, Queries(k)[n]) \in Results
                          /\ \A n \in 1..Len(Queries(k)) : Current(k)[n] = Result(k, Queries(k)[n])
  OBVIOUS
<1>1. Result("servers", "active") \in [Servers -> ServerRows \cup {None}]
  BY DEF Result, ContentsOK, ServerTables
<1>2. [s \in Servers |-> Connection(Result("servers", "active")[s])] \in [Servers -> {None, 0, 1}]
  <2> SUFFICES ASSUME NEW s \in Servers
               PROVE  Connection(Result("servers", "active")[s]) \in {None, 0, 1}
    OBVIOUS
  <2>1. Result("servers", "active")[s] \in ServerRows \cup {None}
    BY <1>1
  <2> QED BY <2>1 DEF Connection, ServerRows
<1>3. Current("transports") = <<[s \in Servers |-> Connection(Result("servers", "active")[s])]>>
  BY DEF Current
<1>4. Current("transports") \in Seq(Results) /\ Len(Current("transports")) = 1
      /\ Current("transports")[1] \in Results
  <2> DEFINE f == [s \in Servers |-> Connection(Result("servers", "active")[s])]
  <2>1. f \in Results
    BY <1>2 DEF Results
  <2> HIDE DEF f
  <2>2. Current("transports") = <<f>>
    BY <1>3 DEF f
  <2>3. <<f>> \in Seq(Results) /\ Len(<<f>>) = 1 /\ <<f>>[1] = f
    BY <2>1, OneElement
  <2>4. <<f>>[1] \in Results
    BY <2>1, <2>3
  <2> QED BY <2>2, <2>3, <2>4
<1>5. ASSUME k # "transports", NEW n \in 1..Len(Queries(k)) PROVE Result(k, Queries(k)[n]) \in Results
  <2>1. CASE k = "servers"
    BY <1>1, <2>1 DEF Result, Results
  <2>2. CASE k \in Lists
    <3>1. Queries(k)[n] \in {"org", "team", "key"}
      BY <1>5, <2>2, QueryCounts
    <3> QED BY <2>2, <3>1 DEF Result, Results, ContentsOK, Lists
  <2> QED BY <1>5, <2>1, <2>2 DEF Kinds
<1>6. CASE k # "transports"
  <2>1. DOMAIN Queries(k) = 1..Len(Queries(k)) /\ Len(Queries(k)) \in Nat
    BY QueryCounts
  <2>2. Current(k) = [n \in 1..Len(Queries(k)) |-> Result(k, Queries(k)[n])]
    BY <1>6, <2>1 DEF Current
  <2>3. Current(k) \in Seq(Results)
    BY <1>5, <1>6, <2>1, <2>2
  <2>4. Len(Current(k)) = Len(Queries(k))
    BY <2>1, <2>2, <2>3
  <2> QED BY <1>1, <1>4, <1>5, <1>6, <2>2, <2>3, <2>4 DEF CopyOf, ServerTables
<1>7. CASE k = "transports"
  <2>1. Len(Queries(k)) = 1
    BY <1>7, QueryCounts
  <2> QED BY <1>1, <1>4, <1>7, <2>1 DEF CopyOf, ServerTables
<1> QED BY <1>6, <1>7

\* What a copy will hold of the tables after a step has its type.
LEMMA CurrentNext ==
  ContentsOK' => (\A k \in Kinds :
     /\ CopyOf(k, Current(k)) /\ Current("transports")[1] \in Results
     /\ Result("servers", "active") \in ServerTables
     /\ k # "transports" => /\ \A n \in 1..Len(Queries(k)) : Result(k, Queries(k)[n]) \in Results
                            /\ \A n \in 1..Len(Queries(k)) : Current(k)[n] = Result(k, Queries(k)[n]))'
BY CurrentTyped, PTL

\* The load of one loader is another one.
LEMMA LoadChanged ==
  ASSUME LoadsOK, NEW p \in Loaders, NEW l \in LoadTypes \cup {None}, load' = [load EXCEPT ![p] = l]
  PROVE  LoadsOK' /\ load'[p] = l /\ \A q \in Loaders \ {p} : load'[q] = load[q]
BY DEF LoadsOK

\* A load that goes on.
LEMMA LoadRead ==
  ASSUME ContentsOK, LoadsOK, NEW p \in Loaders, Loading(p), ~AllRead(p)
  PROVE  LET l == load[p]
             r == Result(l.kind, Queries(l.kind)[Len(l.read) + 1])
             n == [l EXCEPT !.read = Append(l.read, r)]
         IN  /\ l \in LoadTypes /\ l.kind \in Kinds \ {"transports"}
             /\ Len(l.read) + 1 \in 1..Len(Queries(l.kind))
             /\ n \in LoadTypes /\ n # None /\ n.on = l.on /\ n.kind = l.kind /\ n.dirty = l.dirty
             /\ n.read = Append(l.read, r)
<1> DEFINE l == load[p]
           k == l.kind
           r == Result(k, Queries(k)[Len(l.read) + 1])
           n == [l EXCEPT !.read = Append(l.read, r)]
<1>1. l \in LoadTypes
  BY DEF LoadsOK, Loading
<1>2. l \in Loads /\ k \in Kinds /\ l.read \in Seq(Results) /\ Len(l.read) \in Nat
      /\ l.on \in Instances /\ l.dirty \in BOOLEAN
  BY <1>1 DEF LoadTypes, Loads
<1>3. k # "transports"
  <2>1. k = "transports" => Len(l.read) = 1 /\ Len(Queries(k)) = 1
    BY <1>1, <1>2, QueryCounts DEF LoadTypes
  <2> QED BY <2>1 DEF AllRead
<1>4. Len(l.read) + 1 \in 1..Len(Queries(k))
  <2>1. Len(l.read) <= Len(Queries(k)) /\ Len(l.read) # Len(Queries(k)) /\ Len(Queries(k)) \in Nat
    BY <1>1, <1>2, <1>3, QueryCounts DEF LoadTypes, AllRead
  <2> QED BY <1>2, <2>1
<1>5. r \in Results /\ (k = "servers" => r \in ServerTables)
  <2>1. r \in Results
    BY <1>2, <1>3, <1>4, CurrentTyped
  <2>2. k = "servers" => r = Result("servers", "active")
    BY DEF Result
  <2> QED BY <1>2, <2>1, <2>2, CurrentTyped
<1> HIDE DEF r
<1>6. Append(l.read, r) \in Seq(Results) /\ Len(Append(l.read, r)) = Len(l.read) + 1
  BY <1>2, <1>5, AppendProperties
<1>7. n.on = l.on /\ n.kind = k /\ n.dirty = l.dirty /\ n.read = Append(l.read, r) /\ n \in Loads
  BY <1>2, <1>6 DEF Loads
<1> HIDE DEF n
<1>8. k = "servers" => n.read \in Seq(ServerTables)
  BY <1>1, <1>5, <1>7, AppendProperties DEF LoadTypes
<1>9. n \in LoadTypes
  <2>1. n \in Loads /\ n.kind # "transports"
    BY <1>3, <1>7
  <2>2. Len(n.read) <= Len(Queries(n.kind))
    <3>1. Len(n.read) = Len(l.read) + 1 /\ n.kind = k
      BY <1>6, <1>7
    <3>2. Len(Queries(k)) \in Nat
      BY <1>2, QueryCounts
    <3> HIDE DEF k, l
    <3> QED BY <1>4, <3>1, <3>2
  <2>3. n.kind = "servers" => n.read \in Seq(ServerTables)
    BY <1>7, <1>8
  <2> QED BY <2>1, <2>2, <2>3 DEF LoadTypes
<1>10. n # None
  BY <1>7, ServersAssumption
<1> QED BY <1>1, <1>2, <1>3, <1>4, <1>7, <1>9, <1>10 DEF n, r

\* A load that is over, or goes on with the transports.
LEMMA LoadStored ==
  ASSUME ContentsOK, LoadsOK, NEW p \in Loaders, AllRead(p)
  PROVE  LET l == load[p]
             f == [s \in Servers |-> Connection(l.read[1][s])]
             n == [l EXCEPT !.kind = "transports", !.read[1] = f]
         IN  /\ l \in LoadTypes /\ l.kind \in Kinds /\ l.on \in Instances /\ l.dirty \in BOOLEAN
             /\ CopyOf(l.kind, l.read)
             /\ l.kind = "servers" =>
                   /\ n \in LoadTypes /\ n # None /\ n.on = l.on /\ n.kind = "transports"
                   /\ n.dirty = l.dirty /\ n.read = <<f>>
                   /\ l.read[1] \in ServerTables /\ l.read = <<l.read[1]>>
<1> DEFINE l == load[p]
           f == [s \in Servers |-> Connection(l.read[1][s])]
           n == [l EXCEPT !.kind = "transports", !.read[1] = f]
<1>1. l \in LoadTypes
  BY DEF LoadsOK, AllRead, Loading
<1>2. l \in Loads /\ l.kind \in Kinds /\ l.read \in Seq(Results) /\ l.on \in Instances /\ l.dirty \in BOOLEAN
  BY <1>1 DEF LoadTypes, Loads
<1>3. CopyOf(l.kind, l.read)
  BY <1>2 DEF CopyOf, AllRead
<1>4. ASSUME l.kind = "servers"
      PROVE  /\ n \in LoadTypes /\ n # None /\ n.on = l.on /\ n.kind = "transports"
             /\ n.dirty = l.dirty /\ n.read = <<f>>
             /\ l.read[1] \in ServerTables /\ l.read = <<l.read[1]>>
  <2>1. l.read \in Seq(ServerTables) /\ Len(l.read) = 1
    BY <1>1, <1>3, <1>4, QueryCounts DEF LoadTypes, CopyOf, Kinds
  <2>2. l.read[1] \in ServerTables /\ l.read = <<l.read[1]>>
    BY <2>1
  <2>3. f \in Results
    <3>1. \A s \in Servers : l.read[1][s] \in ServerRows \cup {None}
      BY <2>2 DEF ServerTables
    <3>2. \A s \in Servers : Connection(l.read[1][s]) \in {None, 0, 1}
      BY <3>1 DEF Connection, ServerRows
    <3> QED BY <3>2 DEF Results
  <2> HIDE DEF f
  <2>4. [l.read EXCEPT ![1] = f] = <<f>> /\ <<f>> \in Seq(Results) /\ Len(<<f>>) = 1
    BY <2>1, <2>3
  <2>5. n = [l EXCEPT !.kind = "transports", !.read = <<f>>]
    BY <1>2, <2>4 DEF Loads
  <2>6. n.on = l.on /\ n.kind = "transports" /\ n.dirty = l.dirty /\ n.read = <<f>> /\ n \in Loads
    BY <1>2, <2>4, <2>5 DEF Loads, Kinds
  <2> HIDE DEF n
  <2>7. n \in LoadTypes /\ n # None
    BY <2>4, <2>6, ServersAssumption DEF LoadTypes
  <2> QED BY <2>2, <2>6, <2>7
<1> QED BY <1>1, <1>2, <1>3, <1>4

\* What the loader of a load does when it is over.
LEMMA AfterLoads ==
  ASSUME TasksOK, LoadsOK, LoadersOK, NEW p \in Loaders, Loading(p), AfterLoad(p)
  PROVE  \/ p \notin Callers /\ UNCHANGED task
         \/ /\ p \in Callers /\ task[p].step = "reload" /\ task[p] \in ReloadTasks
            /\ \E t \in Tasks :
                  /\ Handles(p, t) /\ t.step \in {"publish", "idle", "spawn"}
                  /\ t.step = "publish" => t.kind = task[p].kind /\ t.on = task[p].on
                  /\ load[p].kind \in Lists => t.step = "publish"
<1>1. CASE p \notin Callers
  BY <1>1 DEF AfterLoad
<1>2. CASE p \in Callers
  <2>1. task[p].step = "reload" /\ task[p] \in ReloadTasks
    BY <1>2, Shapes DEF LoadersOK, TasksOK
  <2>2. load[p].kind = task[p].kind \/ (task[p].kind = "servers" /\ load[p].kind = "transports")
    BY <1>2 DEF LoadersOK
  <2> DEFINE t == IF load[p].kind \in Lists THEN [task[p] EXCEPT !.step = "publish"]
                  ELSE IF task[p].fetch = None THEN Idle
                  ELSE [task[p] EXCEPT !.step = "spawn"]
  <2>3. Become(p, t)
    BY <1>2 DEF AfterLoad
  <2>4. CASE load[p].kind \in Lists
    <3>1. t = [task[p] EXCEPT !.step = "publish"]
      BY <2>4
    <3>2. t \in ReloadTasks /\ t.step = "publish" /\ t.kind = task[p].kind /\ t.on = task[p].on
      BY <2>1, <3>1 DEF ReloadTasks
    <3> HIDE DEF t
    <3>3. Handles(p, t)
      BY <2>1, <2>3, <3>2 DEF Handles, Tasks, Scripted, Calling, Handling
    <3> QED BY <1>2, <2>1, <2>4, <3>2, <3>3 DEF Handles
  <2>5. CASE load[p].kind \notin Lists /\ task[p].fetch = None
    <3>1. t = Idle /\ Idle.step = "idle"
      BY <2>5 DEF Idle
    <3> HIDE DEF t
    <3>3. Handles(p, t)
      BY <2>1, <2>3, <3>1 DEF Handles, Tasks, Scripted, Calling, Handling
    <3> QED BY <1>2, <2>1, <2>5, <3>1, <3>3 DEF Handles
  <2>6. CASE load[p].kind \notin Lists /\ task[p].fetch # None
    <3>1. t = [task[p] EXCEPT !.step = "spawn"] /\ task[p].kind = "servers"
      BY <2>1, <2>2, <2>6 DEF ReloadTasks
    <3>2. t \in SpawnTasks /\ t.step = "spawn"
      BY <2>1, <2>6, <3>1 DEF ReloadTasks, SpawnTasks
    <3> HIDE DEF t
    <3>3. Handles(p, t)
      BY <2>1, <2>3, <3>2 DEF Handles, Tasks, Scripted, Calling, Handling
    <3> QED BY <1>2, <2>1, <2>6, <3>2, <3>3 DEF Handles
  <2> QED BY <2>4, <2>5, <2>6
<1> QED BY <1>1, <1>2

\* Of the loaders only the callers are handlers.
LEMMA NoCaller ==
  ASSUME NEW i \in Instances
  PROVE  <<i, "ticker">> \in Loaders \ Callers /\ <<i, "subscriber">> \in Loaders \ Callers
BY TablesAssumption DEF Loaders

\* Steps of the copies: the task of a handler goes on when its load is over.
TableStep ==
    /\ TablesOK' /\ LoadsOK' /\ LoadersOK'
    /\ UNCHANGED task \/ \E w \in Callers, t \in Tasks : Handles(w, t)

\* A load reads, stores or fails.
LEMMA LoadSteps ==
  ASSUME GatewayTypes, NEW p \in Loaders, Read(p) \/ Store(p) \/ LoadFails(p)
  PROVE  TableStep
<1> USE DEF GatewayTypes, TableStep
<1>1. CASE Read(p)
  <2> DEFINE l == load[p]
             r == Result(l.kind, Queries(l.kind)[Len(l.read) + 1])
             n == [l EXCEPT !.read = Append(l.read, r)]
  <2>1. Loading(p) /\ ~AllRead(p) /\ UNCHANGED <<lists, rows, cached, channel, missed, task, events>>
    BY <1>1 DEF Read
  <2>2. load' = [load EXCEPT ![p] = n]
    BY <1>1 DEF Read
  <2>3. n \in LoadTypes /\ n # None /\ n.on = l.on /\ n.kind = l.kind
    BY <2>1, LoadRead DEF TablesOK
  <2> HIDE DEF n
  <2>4. LoadsOK' /\ load'[p] = n /\ \A q \in Loaders \ {p} : load'[q] = load[q]
    BY <2>2, <2>3, LoadChanged
  <2>5. LoadersOK'
    BY <2>1, <2>3, <2>4 DEF LoadersOK, Loading, Loaders
  <2> QED BY <2>1, <2>4, <2>5 DEF TablesOK, ContentsOK
<1>2. ASSUME NEW l \in LoadTypes \cup {None}, load' = [load EXCEPT ![p] = l], Loading(p), AfterLoad(p), l = None
      PROVE  LoadsOK' /\ LoadersOK' /\ (UNCHANGED task \/ \E w \in Callers, t \in Tasks : Handles(w, t))
  <2>1. LoadsOK' /\ load'[p] = None /\ \A q \in Loaders \ {p} : load'[q] = load[q]
    BY <1>2, LoadChanged
  <2>2. CASE p \notin Callers /\ UNCHANGED task
    BY <2>1, <2>2 DEF LoadersOK, Loading, Loaders
  <2>3. ASSUME p \in Callers, NEW t \in Tasks, Handles(p, t)
        PROVE  LoadersOK'
    <3>1. task'[p] = t /\ \A v \in Callers \ {p} : task'[v] = task[v]
      BY <2>3, TaskChanged DEF Handles
    <3> QED BY <2>1, <3>1 DEF LoadersOK, Loading, Loaders
  <2> QED BY <1>2, <2>1, <2>2, <2>3, AfterLoads
<1>3. CASE Store(p)
  <2> DEFINE l == load[p]
             f == [s \in Servers |-> Connection(l.read[1][s])]
             n == [l EXCEPT !.kind = "transports", !.read[1] = f]
  <2>1. AllRead(p) /\ Loading(p) /\ UNCHANGED <<lists, rows, channel, events>>
    BY <1>3 DEF Store, AllRead
  <2>2. l.kind \in Kinds /\ l.on \in Instances /\ l.dirty \in BOOLEAN /\ CopyOf(l.kind, l.read)
    BY <2>1, LoadStored DEF TablesOK
  <2>3. /\ cached' = [cached EXCEPT ![l.on][l.kind] = l.read]
        /\ missed' = [missed EXCEPT ![l.on][l.kind] = l.dirty]
    BY <1>3 DEF Store, Copy
  <2>4. TablesOK'
    <3>1. cached' \in [Instances -> [Kinds -> Seq(Results)]]
          /\ \A i \in Instances, k \in Kinds : cached'[i][k] \in {cached[i][k]} \/ (k = l.kind /\ cached'[i][k] = l.read)
      BY <2>2, <2>3 DEF TablesOK, CopyOf
    <3>2. \A i \in Instances, k \in Kinds : Len(cached'[i][k]) = Len(Queries(k))
      BY ZenonT(30), <2>2, <3>1 DEF TablesOK, CopyOf
    <3>3. missed' \in [Instances -> [Kinds -> BOOLEAN]]
      BY <2>2, <2>3 DEF TablesOK
    <3> QED BY <2>1, <3>1, <3>2, <3>3 DEF TablesOK, ContentsOK
  <2>5. CASE l.kind = "servers"
    <3>1. load' = [load EXCEPT ![p] = n] /\ UNCHANGED task
      BY <1>3, <2>5 DEF Store
    <3>2. n \in LoadTypes /\ n # None /\ n.on = l.on /\ n.kind = "transports"
      BY <2>1, <2>5, LoadStored DEF TablesOK
    <3> HIDE DEF n
    <3>3. LoadsOK' /\ load'[p] = n /\ \A q \in Loaders \ {p} : load'[q] = load[q]
      BY <3>1, <3>2, LoadChanged
    <3>4. LoadersOK'
      BY <2>1, <2>5, <3>1, <3>2, <3>3 DEF LoadersOK, Loading, Loaders
    <3> QED BY <2>4, <3>1, <3>3, <3>4
  <2>6. CASE l.kind # "servers"
    <3>1. load' = [load EXCEPT ![p] = None] /\ AfterLoad(p)
      BY <1>3, <2>6 DEF Store
    <3> QED BY <1>2, <2>1, <2>4, <3>1
  <2> QED BY <2>5, <2>6
<1>4. CASE LoadFails(p)
  <2>1. Loading(p) /\ load' = [load EXCEPT ![p] = None] /\ AfterLoad(p) /\ UNCHANGED <<lists, rows, cached, channel>>
    BY <1>4 DEF LoadFails
  <2>2. TablesOK'
    <3>1. load[p].on \in Instances
      BY <2>1 DEF LoadsOK, LoadTypes, Loads, Loading
    <3>2. missed' \in [Instances -> [Kinds -> BOOLEAN]]
      BY <1>4, <3>1 DEF LoadFails, TablesOK
    <3>3. events' \in 0..MaxEvents
      BY <1>4, TablesAssumption DEF LoadFails, Event, TablesOK
    <3> QED BY <2>1, <3>2, <3>3 DEF TablesOK, ContentsOK
  <2> QED BY <1>2, <2>1, <2>2
<1> QED BY <1>1, <1>3, <1>4

\* An announcement is made, handled or lost, or a ticker begins a load.
LEMMA MessageSteps ==
  ASSUME GatewayTypes,
         \/ \E w \in Callers : Publish(w) \/ PublishFails(w)
         \/ \E i \in Instances : Tick(i) \/ Receive(i) \/ Lose(i)
  PROVE  TableStep
<1> USE DEF GatewayTypes, TableStep
<1>1. ASSUME NEW w \in Callers, Publish(w) \/ PublishFails(w) PROVE TableStep
  <2>1. task[w].step = "publish" /\ Become(w, Idle) /\ UNCHANGED <<lists, rows, cached, load>>
    BY <1>1 DEF Publish, PublishFails
  <2>2. task[w] \in ReloadTasks /\ task[w].kind \in Lists \cup {"servers"}
    BY <2>1, Shapes DEF TasksOK, ReloadTasks
  <2>3. Handles(w, Idle) /\ Idle \in Tasks
    BY <2>1 DEF Handles, Idle, Tasks, Scripted, Calling, Handling
  <2>4. LoadsOK' /\ LoadersOK'
    BY <2>1, <2>3, LoadersKept DEF LoadsOK
  <2>5. TablesOK'
    <3>1. CASE Publish(w)
      <4>1. Message(task[w].kind) \in Kinds \ {"transports"}
        BY <2>2 DEF Message, Kinds, Lists
      <4>2. \A i \in Instances : Append(channel[i], Message(task[w].kind)) \in Seq(Kinds \ {"transports"})
        BY <4>1, AppendProperties DEF TablesOK
      <4> QED BY <2>1, <3>1, <4>2 DEF Publish, TablesOK, ContentsOK
    <3>2. CASE PublishFails(w)
      <4>1. missed' \in [Instances -> [Kinds -> BOOLEAN]]
        BY <3>2 DEF PublishFails, TablesOK
      <4> QED BY <2>1, <3>2, <4>1, TablesAssumption DEF PublishFails, Event, TablesOK, ContentsOK
    <3> QED BY <1>1, <3>1, <3>2
  <2> QED BY <2>3, <2>4, <2>5
<1>2. ASSUME NEW i \in Instances, Tick(i) \/ Receive(i) \/ Lose(i) PROVE TableStep
  <2>1. UNCHANGED <<lists, rows, cached, task>>
    BY <1>2 DEF Tick, Receive, Lose
  <2>2. channel[i] # <<>> => Head(channel[i]) \in Kinds \ {"transports"} /\ Tail(channel[i]) \in Seq(Kinds \ {"transports"})
    BY HeadTailProperties DEF TablesOK
  <2>3. channel' \in [Instances -> Seq(Kinds \ {"transports"})]
    BY <1>2, <2>2 DEF Tick, Receive, Lose, TablesOK
  <2>4. missed' \in [Instances -> [Kinds -> BOOLEAN]] /\ events' \in 0..MaxEvents
    <3>1. missed' = missed \/ (channel[i] # <<>> /\ missed' = [missed EXCEPT ![i][Head(channel[i])] = TRUE])
      BY <1>2 DEF Tick, Receive, Lose
    <3>2. events' = events \/ (events' = events + 1 /\ events < MaxEvents)
      BY <1>2 DEF Tick, Receive, Lose, Event
    <3>3. missed' \in [Instances -> [Kinds -> BOOLEAN]]
      <4>1. CASE missed' = missed
        BY <4>1 DEF TablesOK
      <4>2. CASE channel[i] # <<>> /\ missed' = [missed EXCEPT ![i][Head(channel[i])] = TRUE]
        <5>1. PICK k \in Kinds : k = Head(channel[i])
          BY <2>2, <4>2
        <5> QED BY <4>2, <5>1 DEF TablesOK
      <4> QED BY <3>1, <4>1, <4>2
    <3>4. events' \in 0..MaxEvents
      BY <3>2, TablesAssumption DEF TablesOK
    <3> QED BY <3>3, <3>4
  <2>5. TablesOK'
    BY <2>1, <2>3, <2>4 DEF TablesOK, ContentsOK
  <2>6. UNCHANGED load \/ \E p \in Loaders \ Callers, k \in Kinds \ {"transports"} : load' = [load EXCEPT ![p] = NewLoad(i, k)]
    BY <1>2, <2>2, NoCaller DEF Tick, Receive, Lose
  <2>7. ASSUME NEW p \in Loaders \ Callers, NEW k \in Kinds \ {"transports"}, load' = [load EXCEPT ![p] = NewLoad(i, k)]
        PROVE  LoadsOK' /\ LoadersOK'
    <3>1. LoadsOK' /\ \A q \in Loaders \ {p} : load'[q] = load[q]
      BY <2>7, FirstLoad, LoadChanged
    <3> QED BY <2>1, <3>1 DEF LoadersOK, Loading, Loaders
  <2>8. CASE UNCHANGED load
    BY <2>1, <2>5, <2>8 DEF LoadersOK, LoadsOK, Loading
  <2> QED BY <2>1, <2>5, <2>6, <2>7, <2>8
<1> QED BY <1>1, <1>2

-----------------------------------------------------------------------------
(* Handlers.                                                               *)

\* A handler that has changed a table loads it.
LEMMA ReloadBegins ==
  ASSUME TasksOK, LoadsOK, LoadersOK, NEW w \in Callers, NEW i \in Instances, NEW k \in Lists \cup {"servers"},
         NEW fetch \in Servers \cup {None}, NEW of, NEW q,
         load' = [Outdated(of, q) EXCEPT ![w] = NewLoad(i, k)] \/ load' = [load EXCEPT ![w] = NewLoad(i, k)],
         Become(w, [step |-> "reload", on |-> i, kind |-> k, fetch |-> fetch]), task[w].step \in Handling
  PROVE  LET t == [step |-> "reload", on |-> i, kind |-> k, fetch |-> fetch] IN
         /\ t \in Tasks /\ Handles(w, t)
         /\ LoadsOK' /\ LoadersOK'
<1> DEFINE t == [step |-> "reload", on |-> i, kind |-> k, fetch |-> fetch]
<1>1. t \in ReloadTasks /\ t.step = "reload" /\ t.on = i /\ t.kind = k
  BY DEF ReloadTasks
<1> HIDE DEF t
<1>2. t \in Tasks /\ Handles(w, t)
  BY <1>1 DEF Handles, Tasks, Scripted, Calling, Handling, t
<1>3. task'[w] = t /\ \A v \in Callers \ {w} : task'[v] = task[v]
  BY <1>2, TaskChanged DEF Handles
<1>4. w \in Loaders /\ k \in Kinds \ {"transports"}
  BY DEF Loaders, Kinds, Lists
<1>5. PICK L \in {load, Outdated(of, q)} : load' = [L EXCEPT ![w] = NewLoad(i, k)]
  OBVIOUS
<1>6. /\ L \in [Loaders -> LoadTypes \cup {None}]
      /\ \A p \in Loaders : /\ L[p] # None <=> Loading(p)
                            /\ Loading(p) => L[p].on = load[p].on /\ L[p].kind = load[p].kind
  BY OutdatedLoads DEF LoadsOK, Loading
<1>7. LoadsOK' /\ load'[w] = NewLoad(i, k) /\ \A p \in Loaders \ {w} : load'[p] = L[p]
  BY <1>4, <1>5, <1>6, FirstLoad DEF LoadsOK
<1>8. LoadersOK'
  <2> SUFFICES ASSUME NEW v \in Callers, load'[v] # None
               PROVE  /\ task'[v].step = "reload" /\ task'[v].on = load'[v].on
                      /\ load'[v].kind = task'[v].kind \/ (task'[v].kind = "servers" /\ load'[v].kind = "transports")
    BY DEF LoadersOK, Loading
  <2>1. CASE v = w
    BY <1>1, <1>3, <1>4, <1>7, <2>1, FirstLoad
  <2>2. CASE v # w
    BY <1>3, <1>6, <1>7, <2>2 DEF LoadersOK, Loaders
  <2> QED BY <2>1, <2>2
<1> QED BY <1>2, <1>7, <1>8 DEF t

\* A change without a load, or before it.
LEMMA NoReload ==
  ASSUME TasksOK, LoadsOK, LoadersOK, NEW of, NEW q, load' = Outdated(of, q),
         UNCHANGED task \/ \E w \in Callers, t \in Tasks : Handles(w, t) /\ task[w].step # "reload"
  PROVE  LoadsOK' /\ LoadersOK'
<1>1. LoadsOK' /\ \A p \in Loaders :
         /\ load'[p] # None <=> Loading(p)
         /\ Loading(p) => load'[p].on = load[p].on /\ load'[p].kind = load[p].kind
  BY OutdatedLoads DEF LoadsOK
<1>2. \A v \in Callers : task[v].step = "reload" => task'[v] = task[v]
  <2>1. ASSUME NEW w \in Callers, NEW t \in Tasks, Handles(w, t), task[w].step # "reload"
        PROVE  \A v \in Callers : task[v].step = "reload" => task'[v] = task[v]
    BY <2>1, TaskChanged DEF Handles
  <2> QED BY <2>1
<1> QED BY <1>1, <1>2 DEF LoadersOK, Loading, Loaders

\* The requests that change a table, and what comes before and after it.
LEMMA AccessTasks ==
  ASSUME GatewayTypes, NEW w \in Callers, AccessNext(w)
  PROVE  /\ events' \in 0..MaxEvents /\ task[w].step \in {"idle", "check"}
         /\ \/ /\ \E t \in Tasks : Handles(w, t) /\ t.step \in {"idle", "check"}
               /\ UNCHANGED tableVars
            \/ \E i \in Instances, k \in Lists, scope \in {"org", "team", "key"},
                  new \in SUBSET (Models \cup Servers) :
                  /\ Written(w, i, k, scope, new)
                  /\ Become(w, [step |-> "reload", on |-> i, kind |-> k, fetch |-> None])
<1> USE DEF GatewayTypes
<1>1. CASE BeginSet(w)
  <2>1. PICK i \in Instances, k \in Lists \ {"aliases"}, scope \in {"org", "team", "key"} :
          \E new \in SUBSET Targets(k) :
             /\ Request(w, i)
             /\ Become(w, [step |-> "check", on |-> i, kind |-> k, scope |-> scope, new |-> new,
                           left |-> IF new = {} THEN <<>> ELSE Bounds(scope), fetch |-> None])
    BY ZenonT(30), <1>1 DEF BeginSet
  <2>2. PICK new \in SUBSET Targets(k) :
             /\ Request(w, i)
             /\ Become(w, [step |-> "check", on |-> i, kind |-> k, scope |-> scope, new |-> new,
                           left |-> IF new = {} THEN <<>> ELSE Bounds(scope), fetch |-> None])
    BY <2>1
  <2>3. UNCHANGED tableVars /\ task[w].step = "idle" /\ events' \in 0..MaxEvents
    BY <1>1, <2>2, TablesAssumption DEF BeginSet, Request, Free, Idle, Event, TablesOK
  <2> DEFINE left == IF new = {} THEN <<>> ELSE Bounds(scope)
             t == [step |-> "check", on |-> i, kind |-> k, scope |-> scope, new |-> new, left |-> left,
                   fetch |-> None]
  <2>4. left \in Seq({"org", "team"})
    <3>1. <<>> \in Seq({"org", "team"}) /\ <<"org">> \in Seq({"org", "team"}) /\ <<"team", "org">> \in Seq({"org", "team"})
      OBVIOUS
    <3>2. left \in {<<>>, <<"org">>, <<"team", "org">>}
      BY DEF Bounds
    <3> HIDE DEF left
    <3> QED BY <3>1, <3>2
  <2>5. new \in SUBSET (Models \cup Servers)
    BY DEF Targets
  <2>6. Become(w, t)
    BY <2>2
  <2> HIDE DEF left
  <2>7. t \in CheckTasks /\ t.step = "check"
    BY <2>4, <2>5 DEF CheckTasks
  <2> HIDE DEF t
  <2>8. Handles(w, t) /\ t \in Tasks
    BY <2>3, <2>6, <2>7 DEF Handles, Tasks, Scripted, Calling, Handling
  <2> QED BY <2>3, <2>7, <2>8
<1>2. CASE CheckBound(w)
  <2> DEFINE u == [task[w] EXCEPT !.left = Tail(@)]
  <2>1. task[w] \in CheckTasks /\ task[w].step = "check" /\ task[w].left # <<>>
    BY <1>2, Shapes DEF CheckBound, TasksOK
  <2>2. UNCHANGED <<tableVars, events>>
    BY <1>2 DEF CheckBound
  <2>3. PICK t \in {u, Idle} : Become(w, t)
    BY <1>2 DEF CheckBound
  <2>4. u \in CheckTasks /\ u.step = "check"
    BY <2>1, HeadTailProperties DEF CheckTasks
  <2> HIDE DEF u
  <2>5. t \in CheckTasks \cup {Idle} /\ t.step \in {"check", "idle"}
    BY <2>3, <2>4 DEF Idle
  <2>6. Handles(w, t) /\ t \in Tasks
    BY <2>1, <2>3, <2>5 DEF Handles, Tasks, Scripted, Calling, Handling
  <2> QED BY <2>1, <2>2, <2>5, <2>6 DEF TablesOK
<1>3. CASE Set(w)
  <2> DEFINE t == task[w]
  <2>1. t \in CheckTasks /\ t.step = "check"
    BY <1>3, Shapes DEF Set, TasksOK
  <2>2. t.on \in Instances /\ t.kind \in Lists /\ t.scope \in {"org", "team", "key"} /\ t.new \in SUBSET (Models \cup Servers)
    BY <2>1 DEF CheckTasks
  <2>3. /\ Written(w, t.on, t.kind, t.scope, t.new) /\ UNCHANGED events
        /\ Become(w, [step |-> "reload", on |-> t.on, kind |-> t.kind, fetch |-> None])
    BY <1>3 DEF Set
  <2> QED BY <2>1, <2>2, <2>3 DEF TablesOK
<1>4. ASSUME NEW scope \in {"org", "team"}, Free(w), CreateAlias(w, scope) \/ DeleteAlias(w, scope)
      PROVE  /\ events' \in 0..MaxEvents /\ task[w].step = "idle"
             /\ \E i \in Instances, new \in SUBSET Models :
                   /\ Written(w, i, "aliases", scope, new)
                   /\ Become(w, [step |-> "reload", on |-> i, kind |-> "aliases", fetch |-> None])
  <2>1. \A m \in Models : {m} \in SUBSET Models
    OBVIOUS
  <2>2. PICK new \in SUBSET Models : ChangeAlias(w, scope, new)
    BY <1>4, <2>1 DEF CreateAlias, DeleteAlias
  <2>3. events' \in 0..MaxEvents /\ task[w].step = "idle"
    BY <1>4, <2>2, TablesAssumption DEF ChangeAlias, Request, Free, Idle, Event, TablesOK
  <2> QED BY <2>2, <2>3 DEF ChangeAlias
<1>5. "aliases" \in Lists
  BY DEF Lists
<1>6. CASE \E scope \in {"org", "team"} : Free(w) /\ (CreateAlias(w, scope) \/ DeleteAlias(w, scope))
  <2>1. PICK scope \in {"org", "team"} : Free(w) /\ (CreateAlias(w, scope) \/ DeleteAlias(w, scope))
    BY <1>6
  <2>2. PICK i \in Instances, new \in SUBSET Models :
          /\ Written(w, i, "aliases", scope, new)
          /\ Become(w, [step |-> "reload", on |-> i, kind |-> "aliases", fetch |-> None])
    BY <1>4, <2>1
  <2>3. new \in SUBSET (Models \cup Servers) /\ scope \in {"org", "team", "key"}
    OBVIOUS
  <2> QED BY <1>4, <1>5, <2>1, <2>2, <2>3
<1> QED
  BY <1>1, <1>2, <1>3, <1>6
  DEF AccessNext, CreateOrgAlias, CreateTeamAlias, DeleteOrgAlias, DeleteTeamAlias

\* They leave the types as they are.
LEMMA AccessSteps ==
  ASSUME GatewayTypes, NEW w \in Callers, AccessNext(w)
  PROVE  TableStep
<1> USE DEF GatewayTypes, TableStep
<1>1. events' \in 0..MaxEvents /\ task[w].step \in {"idle", "check"}
  BY AccessTasks
<1>2. ASSUME NEW i \in Instances, NEW k \in Lists, NEW scope \in {"org", "team", "key"},
             NEW new \in SUBSET (Models \cup Servers), Written(w, i, k, scope, new),
             Become(w, [step |-> "reload", on |-> i, kind |-> k, fetch |-> None])
      PROVE  TableStep
  <2>1. lists' \in [Lists -> [{"org", "team", "key"} -> SUBSET (Models \cup Servers)]]
    BY <1>2 DEF Written, TablesOK, ContentsOK
  <2>2. missed' \in [Instances -> [Kinds -> BOOLEAN]]
    BY <1>2 DEF Written, MissedBy, TablesOK
  <2>3. TablesOK'
    BY <1>1, <1>2, <2>1, <2>2 DEF Written, TablesOK, ContentsOK
  <2>4. load' = [Outdated(k, scope) EXCEPT ![w] = NewLoad(i, k)] /\ task[w].step \in Handling
    BY <1>1, <1>2 DEF Written, Handling
  <2> QED BY <1>2, <2>3, <2>4, ReloadBegins
<1>3. ASSUME NEW t \in Tasks, Handles(w, t), UNCHANGED tableVars
      PROVE  TableStep
  <2>1. LoadsOK' /\ LoadersOK'
    BY <1>1, <1>3, LoadersKept DEF LoadsOK, tableVars
  <2> QED BY <1>1, <1>3, <2>1 DEF TablesOK, ContentsOK, tableVars
<1> QED BY <1>2, <1>3, AccessTasks

\* The row of a server is another one.
LEMMA RowWritten ==
  ASSUME TablesOK, NEW s \in Servers, NEW row \in ServerRows, NEW others, WriteRow(s, row, others),
         events' \in 0..MaxEvents
  PROVE  TablesOK'
<1>1. rows' \in ServerTables
  BY DEF WriteRow, TablesOK, ContentsOK, ServerTables
<1>2. missed' \in [Instances -> [Kinds -> BOOLEAN]]
  BY DEF WriteRow, MissedBy, TablesOK
<1> QED BY <1>1, <1>2 DEF WriteRow, TablesOK, ContentsOK

\* The rows that the handlers write.
LEMMA RowTypes ==
  ASSUME TablesOK, NEW s \in Servers
  PROVE  /\ \A alias \in Aliases, scope \in Scopes : ServerRow(alias, scope) \in ServerRows
         /\ Live(s) => /\ rows[s] \in ServerRows
                       /\ [rows[s] EXCEPT !.url = 1 - @] \in ServerRows
                       /\ \A a \in Aliases : [rows[s] EXCEPT !.alias = a] \in ServerRows
                       /\ [rows[s] EXCEPT !.active = TRUE] \in ServerRows
                       /\ [rows[s] EXCEPT !.active = FALSE] \in ServerRows
                       /\ [rows[s] EXCEPT !.live = FALSE] \in ServerRows
<1>1. \A alias \in Aliases, scope \in Scopes : ServerRow(alias, scope) \in ServerRows
  BY DEF ServerRow, ServerRows
<1>2. ASSUME Live(s) PROVE rows[s] \in ServerRows
  BY <1>2 DEF Live, TablesOK, ContentsOK, ServerTables
<1>3. ASSUME rows[s] \in ServerRows PROVE [rows[s] EXCEPT !.url = 1 - @] \in ServerRows
  <2>1. rows[s].url \in 0..1 /\ 1 - rows[s].url \in 0..1
    BY <1>3 DEF ServerRows
  <2> QED BY <1>3, <2>1 DEF ServerRows
<1>4. ASSUME rows[s] \in ServerRows
      PROVE  /\ \A a \in Aliases : [rows[s] EXCEPT !.alias = a] \in ServerRows
             /\ [rows[s] EXCEPT !.active = TRUE] \in ServerRows
             /\ [rows[s] EXCEPT !.active = FALSE] \in ServerRows
             /\ [rows[s] EXCEPT !.live = FALSE] \in ServerRows
  BY <1>4 DEF ServerRows
<1> QED BY <1>1, <1>2, <1>3, <1>4

\* A refresh in the background is another one.
LEMMA FetchChanged ==
  ASSUME ToolsOK, NEW f \in Fetchers, NEW r \in Fetches \cup {None}, fetches' = [fetches EXCEPT ![f] = r]
  PROVE  fetches' \in [Fetchers -> Fetches \cup {None}] /\ fetches'[f] = r
         /\ \A g \in Fetchers \ {f} : fetches'[g] = fetches[g]
BY DEF ToolsOK

\* What a request about a server does to the tables, and to tools.
QuietRequest(w) ==
    /\ UNCHANGED tableVars
    /\ \/ UNCHANGED task
       \/ \E i \in Instances, s \in Servers : Become(w, GetTools(i, {s}, None))
RowRequest(w) ==
    \E i \in Instances, s \in Servers, row \in ServerRows :
       /\ rows[s] = None \/ Live(s)
       /\ \/ /\ WriteRow(s, row, Instances \ {i})
             /\ \E fetch \in Servers \cup {None} : ThenReload(w, i, fetch)
          \/ WriteRow(s, row, Instances) /\ load' = Outdated("servers", "active") /\ UNCHANGED task
          \/ /\ WriteRow(s, row, Instances \ {i}) /\ load' = Outdated("servers", "active")
             /\ Become(w, [step |-> "forget", on |-> i, kind |-> "servers", server |-> s, fetch |-> None])
RequestTools ==
    /\ UNCHANGED <<tools, saved, toolLock, purged>> /\ blocked' \subseteq Servers \X Tools
    /\ \/ UNCHANGED fetches
       \/ \E i \in Instances, s \in Servers, f \in Fetchers :
             fetches' = [fetches EXCEPT ![f] = NewFetch(i, s)]

\* The requests that the handlers of servers begin with.
LEMMA RequestTasks ==
  ASSUME GatewayTypes, NEW w \in Callers, ServerRequests(w)
  PROVE  /\ task[w].step = "idle" /\ events' \in 0..MaxEvents
         /\ QuietRequest(w) \/ RowRequest(w)
         /\ RequestTools
<1> USE DEF GatewayTypes
<1>1. task[w].step = "idle"
  BY DEF ServerRequests, Free, Idle
<1>2. \A i \in Instances : Request(w, i) => events' \in 0..MaxEvents
  BY TablesAssumption DEF Request, Event, TablesOK
<1>3. UNCHANGED toolVars => RequestTools
  BY DEF RequestTools, ToolsOK, toolVars
<1>4. CASE BeginListTools(w)
  BY <1>1, <1>2, <1>3, <1>4 DEF BeginListTools, QuietRequest
<1>5. CASE RefreshTools(w)
  BY <1>1, <1>2, <1>5 DEF RefreshTools, QuietRequest, RequestTools, ToolsOK
<1>6. CASE ChangeBlocklist(w)
  <2>1. PICK i \in Instances, s \in Servers, x \in Tools :
          Request(w, i) /\ (blocked' = blocked \ {<<s, x>>} \/ blocked' = blocked \cup {<<s, x>>})
    BY <1>6 DEF ChangeBlocklist
  <2>2. blocked' \subseteq Servers \X Tools
    BY <2>1 DEF ToolsOK
  <2> QED BY <1>1, <1>2, <1>6, <2>1, <2>2 DEF ChangeBlocklist, QuietRequest, RequestTools
<1>7. ASSUME NEW scope \in Scopes, Create(w, scope)
      PROVE  events' \in 0..MaxEvents /\ RowRequest(w) /\ RequestTools
  <2>1. PICK i \in Instances, s \in Servers, alias \in Aliases :
          /\ Request(w, i) /\ rows[s] = None
          /\ \/ WriteRow(s, ServerRow(alias, scope), Others(i)) /\ ThenReload(w, i, s)
             \/ /\ WriteRow(s, ServerRow(alias, scope), Instances)
                /\ load' = Outdated("servers", "active") /\ UNCHANGED task
    BY <1>7 DEF Create
  <2>2. ServerRow(alias, scope) \in ServerRows
    BY RowTypes
  <2>3. RowRequest(w)
    BY <2>1, <2>2 DEF RowRequest, Others
  <2> QED BY <1>2, <1>3, <1>7, <2>1, <2>3 DEF Create
<1>8. CASE UpdateServer(w)
  <2>1. PICK i \in Instances, s \in Servers, row \in ServerRows :
          /\ Request(w, i) /\ Live(s) /\ WriteRow(s, row, Others(i)) /\ ThenReload(w, i, None)
          /\ row \in {[rows[s] EXCEPT !.url = 1 - @]} \cup {[rows[s] EXCEPT !.alias = a] : a \in Aliases}
    BY <1>8, RowTypes DEF UpdateServer
  <2>2. row \in ServerRows
    OBVIOUS
  <2>3. RowRequest(w)
    BY <2>1, <2>2 DEF RowRequest, Others
  <2> QED BY <1>1, <1>2, <1>3, <1>8, <2>1, <2>3 DEF UpdateServer
<1>9. CASE ActivateServer(w)
  <2>1. PICK i \in Instances, s \in Servers, f \in Fetchers :
          /\ Request(w, i) /\ Live(s) /\ WriteRow(s, [rows[s] EXCEPT !.active = TRUE], Others(i))
          /\ ThenReload(w, i, None) /\ fetches' = [fetches EXCEPT ![f] = NewFetch(i, s)]
    BY <1>9 DEF ActivateServer
  <2>2. [rows[s] EXCEPT !.active = TRUE] \in ServerRows
    BY <2>1, RowTypes
  <2>3. RowRequest(w)
    BY <2>1, <2>2 DEF RowRequest, Others
  <2>4. RequestTools
    BY <1>9, <2>1 DEF ActivateServer, RequestTools, ToolsOK
  <2> QED BY <1>1, <1>2, <2>1, <2>3, <2>4
<1>10. CASE RemoveServer(w)
  <2>1. PICK i \in Instances, s \in Servers, row \in ServerRows :
          /\ Request(w, i) /\ Live(s) /\ WriteRow(s, row, Others(i))
          /\ row \in {[rows[s] EXCEPT !.active = FALSE], [rows[s] EXCEPT !.live = FALSE]}
          /\ load' = Outdated("servers", "active") /\ UNCHANGED toolVars
          /\ Become(w, [step |-> "forget", on |-> i, kind |-> "servers", server |-> s, fetch |-> None])
    BY <1>10, RowTypes DEF RemoveServer
  <2>2. row \in ServerRows
    OBVIOUS
  <2>3. RowRequest(w)
    BY <2>1, <2>2 DEF RowRequest, Others
  <2> QED BY <1>1, <1>2, <1>3, <2>1, <2>3
<1>11. CASE TestServer(w)
  <2>1. PICK i \in Instances, s \in Servers :
          /\ Request(w, i) /\ Live(s) /\ WriteRow(s, [rows[s] EXCEPT !.active = FALSE], Instances)
          /\ load' = Outdated("servers", "active") /\ UNCHANGED <<task, toolVars>>
    BY <1>11 DEF TestServer, Active
  <2>2. [rows[s] EXCEPT !.active = FALSE] \in ServerRows
    BY <2>1, RowTypes
  <2>3. RowRequest(w)
    BY <2>1, <2>2 DEF RowRequest
  <2> QED BY <1>1, <1>2, <1>3, <2>1, <2>3
<1> QED
  BY <1>1, <1>4, <1>5, <1>6, <1>7, <1>8, <1>9, <1>10, <1>11
  DEF ServerRequests, CreateServer, CreateOrgServer, CreateTeamServer, Scopes

\* They leave the types as they are.
LEMMA RequestSteps ==
  ASSUME GatewayTypes, NEW w \in Callers, ServerRequests(w)
  PROVE  TableStep /\ ToolsOK'
<1> USE DEF GatewayTypes, TableStep
<1>1. task[w].step \in Handling /\ task[w].step # "reload" /\ events' \in 0..MaxEvents /\ RequestTools
  BY RequestTasks DEF Handling
<1>2. ToolsOK'
  <2>1. \A i \in Instances, s \in Servers : NewFetch(i, s) \in Fetches
    BY DEF NewFetch, Fetches
  <2>2. fetches' \in [Fetchers -> Fetches \cup {None}]
    BY <1>1, <2>1, FetchChanged DEF RequestTools, ToolsOK
  <2> QED BY <1>1, <2>2 DEF RequestTools, ToolsOK
<1>3. CASE QuietRequest(w)
  <2>1. TablesOK'
    BY <1>1, <1>3 DEF QuietRequest, TablesOK, ContentsOK, tableVars
  <2>2. CASE UNCHANGED task
    BY <1>2, <1>3, <2>1, <2>2 DEF QuietRequest, LoadsOK, LoadersOK, Loading, tableVars
  <2>3. ASSUME NEW i \in Instances, NEW s \in Servers, Become(w, GetTools(i, {s}, None)) PROVE TableStep
    <3> DEFINE t == GetTools(i, {s}, None)
    <3>1. t \in GetTasks /\ t.step = "get" /\ t.script = None
      BY DEF GetTools, GetTasks
    <3> HIDE DEF t
    <3>2. Handles(w, t) /\ t \in Tasks
      BY <1>1, <2>3, <3>1 DEF Handles, Tasks, Scripted, Calling, Handling, t
    <3>3. LoadsOK' /\ LoadersOK'
      BY <1>1, <1>3, <3>2, LoadersKept DEF QuietRequest, LoadsOK, tableVars
    <3> QED BY <2>1, <3>2, <3>3
  <2> QED BY <1>2, <1>3, <2>2, <2>3 DEF QuietRequest
<1>4. CASE RowRequest(w)
  <2>1. PICK i \in Instances, s \in Servers, row \in ServerRows :
       /\ \E others : WriteRow(s, row, others)
       /\ \/ \E fetch \in Servers \cup {None} : ThenReload(w, i, fetch)
          \/ load' = Outdated("servers", "active") /\ UNCHANGED task
          \/ /\ load' = Outdated("servers", "active")
             /\ Become(w, [step |-> "forget", on |-> i, kind |-> "servers", server |-> s, fetch |-> None])
    BY <1>4 DEF RowRequest
  <2>2. TablesOK'
    BY <1>1, <2>1, RowWritten
  <2>3. ASSUME NEW fetch \in Servers \cup {None}, ThenReload(w, i, fetch)
        PROVE  LoadsOK' /\ LoadersOK' /\ \E v \in Callers, t \in Tasks : Handles(v, t)
    <3>1. load' = [Outdated("servers", "active") EXCEPT ![w] = NewLoad(i, "servers")]
          /\ Become(w, [step |-> "reload", on |-> i, kind |-> "servers", fetch |-> fetch])
      BY <2>3 DEF ThenReload
    <3> QED BY <1>1, <3>1, ReloadBegins
  <2>4. ASSUME load' = Outdated("servers", "active"), UNCHANGED task PROVE LoadsOK' /\ LoadersOK'
    BY <2>4, NoReload
  <2>5. ASSUME load' = Outdated("servers", "active"),
               Become(w, [step |-> "forget", on |-> i, kind |-> "servers", server |-> s, fetch |-> None])
        PROVE  LoadsOK' /\ LoadersOK' /\ \E t \in Tasks : Handles(w, t)
    <3> DEFINE t == [step |-> "forget", on |-> i, kind |-> "servers", server |-> s, fetch |-> None]
    <3>1. t \in ForgetTasks /\ t.step = "forget"
      BY DEF ForgetTasks
    <3> HIDE DEF t
    <3>2. Handles(w, t) /\ t \in Tasks
      BY <1>1, <2>5, <3>1 DEF Handles, Tasks, Scripted, Calling, Handling, t
    <3> QED BY <1>1, <2>5, <3>2, NoReload
  <2> QED BY <1>2, <2>1, <2>2, <2>3, <2>4, <2>5
<1> QED BY <1>2, <1>3, <1>4, RequestTasks

\* The tools of one server are marked.
LEMMA ToolMarked ==
  ASSUME ToolsOK, NEW i \in Instances, NEW s \in Servers, NEW mark \in {None, "fresh", "stale"},
         tools' = [tools EXCEPT ![i][s] = mark]
  PROVE  /\ tools' \in [Instances -> [Servers -> {None, "fresh", "stale"}]]
         /\ \A j \in Instances, x \in Servers :
               tools'[j][x] = IF j = i /\ x = s THEN mark ELSE tools[j][x]
<1>1. tools[i] \in [Servers -> {None, "fresh", "stale"}]
  BY DEF ToolsOK
<1>2. tools' = [tools EXCEPT ![i] = [tools[i] EXCEPT ![s] = mark]]
  OBVIOUS
<1>3. [tools[i] EXCEPT ![s] = mark] \in [Servers -> {None, "fresh", "stale"}]
  BY <1>1
<1>4. \A j \in Instances : tools'[j] = IF j = i THEN [tools[i] EXCEPT ![s] = mark] ELSE tools[j]
  BY <1>2 DEF ToolsOK
<1> QED BY <1>1, <1>2, <1>3, <1>4 DEF ToolsOK

\* What follows in a handler of servers or tools.
ToolTask(w, t) ==
    \/ /\ task[w].step \in {"get", "list", "spawn"} /\ t.step \in {"get", "list", "idle"}
       /\ t.step = "list" => Live(t.server)
       /\ UNCHANGED tableVars
    \/ /\ task[w].step = "forget" /\ t.step = "unsave" /\ t.on = task[w].on /\ t.server = task[w].server
       /\ UNCHANGED tableVars
    \/ Unsave(w) /\ t.step = "reload"

\* Such a step of a handler leads to the next one.
LEMMA ToolTasks ==
  ASSUME GatewayTypes, NEW w \in Callers, ServerSteps(w)
  PROVE  UNCHANGED events /\ \E t \in Tasks : Handles(w, t) /\ ToolTask(w, t)
<1> DEFINE t == task[w]
<1> USE DEF GatewayTypes
<1>1. t \in Tasks /\ Scripted(t)
  BY DEF TasksOK
<1>2. UNCHANGED events
  BY DEF ServerSteps, GetFresh, LockTools, ListTools, Listed, Invalidate, Unsave, Spawn
<1>3. /\ t.step = "get" => t \in GetTasks
      /\ t.step = "list" => t \in ListTasks
      /\ t.step \in {"forget", "unsave"} => t \in ForgetTasks
  BY <1>1, Shapes
<1>4. ASSUME t.step \in {"get", "list"}, NEW u \in GetTasks \cup ListTasks, u.on = t.on, u.script = t.script,
             Become(w, u), u.step \in {"get", "list"}, u.step = "list" => Live(u.server), UNCHANGED tableVars
      PROVE  Handles(w, u) /\ u \in Tasks /\ ToolTask(w, u)
  BY <1>1, <1>4 DEF Handles, Tasks, Scripted, Calling, Handling, ToolTask
<1> HIDE DEF t
<1>5. CASE GetFresh(w)
  <2>1. t.step = "get" /\ UNCHANGED tableVars
    BY <1>5 DEF GetFresh, t
  <2>2. PICK s \in t.get : Become(w, [t EXCEPT !.get = @ \ {s}, !.got = @ \cup {s}])
    BY <1>5 DEF GetFresh, t
  <2> DEFINE u == [t EXCEPT !.get = @ \ {s}, !.got = @ \cup {s}]
  <2>3. u \in GetTasks /\ u.on = t.on /\ u.script = t.script /\ u.step = "get"
    BY <1>3, <2>1 DEF GetTasks
  <2> HIDE DEF u
  <2>4. Become(w, u)
    BY <2>2 DEF u
  <2> QED BY <1>2, <1>4, <2>1, <2>3, <2>4
<1>6. CASE LockTools(w)
  <2>1. t.step = "get" /\ UNCHANGED tableVars
    BY <1>6 DEF LockTools, t
  <2>2. PICK s \in t.get :
          \/ Live(s) /\ Become(w, [t EXCEPT !.step = "list", !.server = s])
          \/ Become(w, [t EXCEPT !.get = @ \ {s}])
    BY <1>6 DEF LockTools, Fetchable, t
  <2>3. t \in GetTasks /\ s \in Servers
    BY <1>3, <2>1 DEF GetTasks
  <2> DEFINE u == [t EXCEPT !.step = "list", !.server = s]
             v == [t EXCEPT !.get = @ \ {s}]
  <2>4. u \in ListTasks /\ u.on = t.on /\ u.script = t.script /\ u.step = "list" /\ u.server = s
    BY <2>3 DEF GetTasks, ListTasks
  <2>5. v \in GetTasks /\ v.on = t.on /\ v.script = t.script /\ v.step = "get"
    BY <2>3 DEF GetTasks
  <2>6. (Live(s) /\ Become(w, u)) \/ Become(w, v)
    BY <2>2
  <2> HIDE DEF u, v
  <2> QED BY <1>2, <1>4, <2>1, <2>4, <2>5, <2>6
<1>7. CASE ListTools(w)
  <2> DEFINE left == [t EXCEPT !.step = "get", !.get = @ \ {t.server}]
             got  == [left EXCEPT !.got = @ \cup {t.server}]
  <2>1. t.step = "list" /\ UNCHANGED tableVars /\ (Become(w, got) \/ Become(w, left))
    BY <1>7 DEF ListTools, t
  <2>2. t \in ListTasks /\ t.server \in Servers
    BY <1>3, <2>1 DEF ListTasks
  <2>3. left \in GetTasks /\ left.on = t.on /\ left.script = t.script /\ left.step = "get"
    BY <2>2 DEF GetTasks, ListTasks
  <2> HIDE DEF left
  <2>4. got \in GetTasks /\ got.on = t.on /\ got.script = t.script /\ got.step = "get"
    BY <2>2, <2>3 DEF GetTasks
  <2> HIDE DEF got
  <2> QED BY <1>2, <1>4, <2>1, <2>3, <2>4
<1>8. CASE Listed(w) \/ Spawn(w)
  <2>1. t.step \in {"get", "spawn"} /\ UNCHANGED tableVars /\ Become(w, Idle)
    BY <1>8 DEF Listed, Spawn, t
  <2>2. Handles(w, Idle) /\ Idle \in Tasks /\ ToolTask(w, Idle)
    BY <2>1 DEF Handles, Idle, Tasks, Scripted, Calling, Handling, ToolTask, t
  <2> QED BY <1>2, <2>2
<1>9. CASE Invalidate(w)
  <2> DEFINE u == [t EXCEPT !.step = "unsave"]
  <2>1. t.step = "forget" /\ UNCHANGED tableVars /\ Become(w, u)
    BY <1>9 DEF Invalidate, t
  <2>2. u \in ForgetTasks /\ u.step = "unsave" /\ u.on = t.on /\ u.server = t.server
    BY <1>3, <2>1 DEF ForgetTasks
  <2> HIDE DEF u
  <2>3. Handles(w, u) /\ u \in Tasks /\ ToolTask(w, u)
    BY <2>1, <2>2 DEF Handles, Tasks, Scripted, Calling, Handling, ToolTask, t
  <2> QED BY <1>2, <2>3
<1>10. CASE Unsave(w)
  <2> DEFINE u == [step |-> "reload", on |-> t.on, kind |-> "servers", fetch |-> None]
  <2>1. t.step = "unsave" /\ Become(w, u) /\ t.on \in Instances
    BY <1>3, <1>10 DEF Unsave, ForgetTasks, t
  <2>2. u \in ReloadTasks /\ u.step = "reload"
    BY <2>1 DEF ReloadTasks
  <2> HIDE DEF u
  <2>3. Handles(w, u) /\ u \in Tasks /\ ToolTask(w, u)
    BY <1>10, <2>1, <2>2 DEF Handles, Tasks, Scripted, Calling, Handling, ToolTask, t
  <2> QED BY <1>2, <2>3
<1> QED
  BY <1>5, <1>6, <1>7, <1>8, <1>9, <1>10 DEF ServerSteps

\* It leaves the types as they are.
LEMMA ToolSteps ==
  ASSUME GatewayTypes, NEW w \in Callers, ServerSteps(w)
  PROVE  TableStep /\ ToolsOK'
<1> DEFINE t == task[w]
<1> USE DEF GatewayTypes
<1>1. t \in Tasks
  BY DEF TasksOK
<1>2. PICK u \in Tasks : Handles(w, u) /\ ToolTask(w, u)
  BY ToolTasks
<1>3. UNCHANGED events
  BY ToolTasks
<1> HIDE DEF t
<1>4. CASE Unsave(w)
  <2>1. t.step = "unsave" /\ UNCHANGED <<lists, rows, cached, channel, missed, tools, toolLock, fetches, blocked>>
        /\ load' = [load EXCEPT ![w] = NewLoad(t.on, "servers")]
        /\ Become(w, [step |-> "reload", on |-> t.on, kind |-> "servers", fetch |-> None])
    BY <1>4 DEF Unsave, t
  <2>2. t.on \in Instances /\ t.server \in Servers
    BY <1>1, <2>1, Shapes DEF ForgetTasks
  <2>3. purged' = purged \/ purged' = [purged EXCEPT ![t.on] = @ \cup {t.server}]
    BY <1>4 DEF Unsave, t
  <2>4. saved' \in {saved, saved \ {t.server}}
    BY <1>4 DEF Unsave, t
  <2>5. ToolsOK'
    BY <2>1, <2>2, <2>3, <2>4 DEF ToolsOK
  <2>6. TablesOK'
    BY <1>3, <2>1 DEF TablesOK, ContentsOK
  <2>7. LoadsOK' /\ LoadersOK'
    BY <2>1, <2>2, ReloadBegins DEF Handling, t
  <2> QED BY <1>2, <2>5, <2>6, <2>7 DEF TableStep
<1>5. CASE ~Unsave(w)
  <2>1. UNCHANGED tableVars /\ task[w].step # "reload"
    BY <1>2, <1>5 DEF ToolTask
  <2>2. LoadsOK' /\ LoadersOK'
    BY <1>2, <2>1, LoadersKept DEF LoadsOK, tableVars
  <2>3. TableStep
    BY <1>2, <1>3, <2>1, <2>2 DEF TableStep, TablesOK, ContentsOK, tableVars
  <2>4. CASE GetFresh(w) \/ Listed(w)
    BY <2>3, <2>4 DEF GetFresh, Listed, ToolsOK, toolVars
  <2>5. CASE LockTools(w)
    <3>1. t \in GetTasks /\ t.on \in Instances
      BY <1>1, <2>5, Shapes DEF LockTools, GetTasks, t
    <3>2. UNCHANGED toolLock \/ toolLock' = [toolLock EXCEPT ![t.on] = w]
      BY <2>5 DEF LockTools, t
    <3>3. UNCHANGED <<tools, saved, fetches, blocked, purged>>
      BY <2>5 DEF LockTools
    <3> QED BY <2>3, <3>1, <3>2, <3>3 DEF ToolsOK
  <2>6. CASE ListTools(w)
    <3>1. t \in ListTasks /\ t.on \in Instances /\ t.server \in Servers
      BY <1>1, <2>6, Shapes DEF ListTools, ListTasks, t
    <3>2. UNCHANGED <<fetches, blocked, purged>> /\ toolLock' = [toolLock EXCEPT ![t.on] = None]
      BY <2>6 DEF ListTools, t
    <3>3. \/ tools' = [tools EXCEPT ![t.on][t.server] = "fresh"] /\ saved' \in {saved, saved \cup {t.server}}
          \/ UNCHANGED <<tools, saved>>
      BY <2>6 DEF ListTools, t
    <3>4. tools' \in [Instances -> [Servers -> {None, "fresh", "stale"}]] /\ saved' \subseteq Servers
      <4>1. CASE UNCHANGED <<tools, saved>>
        BY <4>1 DEF ToolsOK
      <4>2. CASE /\ tools' = [tools EXCEPT ![t.on][t.server] = "fresh"]
                 /\ saved' \in {saved, saved \cup {t.server}}
        BY <3>1, <4>2, ToolMarked DEF ToolsOK
      <4> QED BY <3>3, <4>1, <4>2
    <3> QED BY <2>3, <3>1, <3>2, <3>4 DEF ToolsOK
  <2>7. CASE Invalidate(w)
    <3>1. t \in ForgetTasks /\ t.on \in Instances /\ t.server \in Servers
      BY <1>1, <2>7, Shapes DEF Invalidate, ForgetTasks, t
    <3>2. UNCHANGED <<saved, toolLock, fetches, blocked, purged>>
          /\ tools' = [tools EXCEPT ![t.on][t.server] = None]
      BY <2>7 DEF Invalidate, t
    <3> QED BY <2>3, <3>1, <3>2, ToolMarked DEF ToolsOK
  <2>8. CASE Spawn(w)
    <3>1. PICK f \in Fetchers : fetches' = [fetches EXCEPT ![f] = NewFetch(t.on, t.fetch)]
      BY <2>8 DEF Spawn, t
    <3>2. NewFetch(t.on, t.fetch) \in Fetches
      BY <1>1, <2>8, Shapes DEF Spawn, NewFetch, Fetches, SpawnTasks, t
    <3> QED BY <2>3, <2>8, <3>1, <3>2, FetchChanged DEF Spawn, ToolsOK
  <2> QED BY <1>5, <2>4, <2>5, <2>6, <2>7, <2>8 DEF ServerSteps
<1> QED BY <1>4, <1>5

\* Refreshes, and the time that goes by.
LEMMA BackgroundSteps ==
  ASSUME GatewayTypes,
         (\E f \in Fetchers : Background(f)) \/ (\E i \in Instances : Refresh(i) \/ Stale(i))
  PROVE  UNCHANGED <<tableVars, task>> /\ ToolsOK' /\ events' \in 0..MaxEvents
<1> USE DEF GatewayTypes
<1>1. ASSUME NEW f \in Fetchers, Background(f) PROVE ToolsOK'
  <2> DEFINE r == fetches[f]
  <2>1. r # None => r \in Fetches
    BY DEF ToolsOK
  <2>2. r # None => /\ [r EXCEPT !.step = "set"] \in Fetches /\ [r EXCEPT !.step = "save"] \in Fetches
                    /\ r.on \in Instances /\ r.server \in Servers
    BY <2>1 DEF Fetches
  <2>3. CASE Fetch(f)
    <3>1. \E n \in Fetches \cup {None} : fetches' = [fetches EXCEPT ![f] = n]
      BY <2>2, <2>3 DEF Fetch
    <3> QED BY <2>3, <3>1, FetchChanged DEF Fetch, ToolsOK
  <2>4. CASE ListFails(f)
    BY <2>4, FetchChanged DEF ListFails, ToolsOK
  <2>5. CASE StoreTools(f)
    <3>1. r \in Fetches /\ [r EXCEPT !.step = "save"] \in Fetches
      BY <2>1, <2>2, <2>5 DEF StoreTools
    <3>2. fetches' = [fetches EXCEPT ![f] = [r EXCEPT !.step = "save"]]
      BY <2>5 DEF StoreTools
    <3>3. tools' \in [Instances -> [Servers -> {None, "fresh", "stale"}]]
      BY <2>2, <2>5, ToolMarked DEF StoreTools, ToolsOK
    <3> QED BY <2>5, <3>1, <3>2, <3>3, FetchChanged DEF StoreTools, ToolsOK
  <2>6. CASE Save(f)
    <3>1. r \in Fetches /\ saved' \subseteq Servers
      BY <2>1, <2>2, <2>6 DEF Save, ToolsOK
    <3> QED BY <2>6, <3>1, FetchChanged DEF Save, ToolsOK
  <2> QED BY <1>1, <2>3, <2>4, <2>5, <2>6 DEF Background
<1>2. ASSUME NEW i \in Instances, Refresh(i) PROVE ToolsOK'
  <2>1. PICK s \in Servers, f \in Fetchers : fetches' = [fetches EXCEPT ![f] = NewFetch(i, s)]
    BY <1>2 DEF Refresh
  <2>2. NewFetch(i, s) \in Fetches
    BY DEF NewFetch, Fetches
  <2> QED BY <1>2, <2>1, <2>2, FetchChanged DEF Refresh, ToolsOK
<1>3. ASSUME NEW i \in Instances, Stale(i) PROVE ToolsOK'
  BY <1>3 DEF Stale, ToolsOK
<1>4. UNCHANGED <<tableVars, task>>
  BY DEF Background, Refresh, Stale
<1>5. events' \in 0..MaxEvents
  BY TablesAssumption DEF Background, Refresh, Stale, Event, TablesOK
<1> QED BY <1>1, <1>2, <1>3, <1>4, <1>5

\* What a start makes of the rows of the servers.
LEMMA StartRows ==
  ASSUME ContentsOK, NEW table \in Synced, NEW new \in Probed(table)
  PROVE  new \in ServerTables /\ \A s \in Servers : rows[s] # None =>
            new[s] # None /\ (~rows[s].live => ~new[s].live)
<1>1. \A s \in Servers : rows[s] \in ServerRows \cup {None}
  BY DEF ContentsOK, ServerTables
<1>2. table \in ServerTables /\ \A s \in Servers : rows[s] # None =>
         table[s] # None /\ (~rows[s].live => ~table[s].live)
  <2>1. CASE GlobalNamed(FileAlias) # {}
    <3>1. table = [s \in Servers |-> IF s \in GlobalNamed(FileAlias) /\ rows[s].yaml
                                      THEN [rows[s] EXCEPT !.url = 0] ELSE rows[s]]
      BY <2>1 DEF Synced
    <3>2. \A s \in GlobalNamed(FileAlias) : s \in Servers /\ rows[s] # None
      BY DEF GlobalNamed, Global
    <3>3. \A s \in Servers : rows[s] # None =>
            /\ rows[s] \in ServerRows /\ [rows[s] EXCEPT !.url = 0] \in ServerRows
            /\ [rows[s] EXCEPT !.url = 0].live = rows[s].live
      BY <1>1 DEF ServerRows
    <3> QED BY <1>1, <3>1, <3>2, <3>3, ServersAssumption DEF ServerTables
  <2>2. CASE GlobalNamed(FileAlias) = {}
    <3> DEFINE row == [ServerRow(FileAlias, "global") EXCEPT !.yaml = TRUE]
    <3>1. row \in ServerRows
      <4>1. FileAlias \in Aliases
        BY ServersAssumption
      <4>2. ServerRow(FileAlias, "global") \in ServerRows
        BY <4>1 DEF ServerRow, ServerRows, Scopes
      <4> QED BY <4>2 DEF ServerRows
    <3> HIDE DEF row
    <3>2. PICK s \in Servers : rows[s] = None /\ table = [rows EXCEPT ![s] = row]
      BY <2>2 DEF Synced, row
    <3> QED BY <1>1, <3>1, <3>2 DEF ContentsOK, ServerTables
  <2> QED BY <2>1, <2>2
<1>3. PICK old \in SUBSET Global(table) :
         new = [s \in Servers |-> IF s \in old THEN [table[s] EXCEPT !.active = FALSE] ELSE table[s]]
  BY DEF Probed
<1>4. \A s \in old : table[s] \in ServerRows
  BY <1>2, <1>3 DEF Global, ServerTables
<1>5. \A s \in old : [table[s] EXCEPT !.active = FALSE] \in ServerRows
                      /\ [table[s] EXCEPT !.active = FALSE].live = table[s].live
  BY <1>4 DEF ServerRows
<1> QED BY <1>2, <1>3, <1>5, ServersAssumption DEF ServerTables

\* What is left of the loads and tasks when an instance starts again.
LEMMA RestartLeaves ==
  ASSUME GatewayTypes, NEW i \in Instances, Restart(i)
  PROVE  /\ load' \in [Loaders -> LoadTypes \cup {None}]
         /\ \A p \in Loaders : Loading(p)' <=> Loading(p) /\ load[p].on # i
         /\ \A p \in Loaders : Loading(p)' =>
               /\ load'[p].on = load[p].on /\ load'[p].kind = load[p].kind
               /\ load'[p].read = load[p].read /\ (~load'[p].dirty => load'[p] = load[p])
               /\ load'[p] = load[p] \/ load'[p] = Outdated("servers", "active")[p]
               /\ rows' # rows => load'[p] = Outdated("servers", "active")[p]
         /\ \A w \in Callers : task'[w] = IF task[w] # Idle /\ task[w].on = i THEN Idle ELSE task[w]
<1> USE DEF GatewayTypes
<1> DEFINE o == Outdated("servers", "active")
<1>1. LoadsOK
  OBVIOUS
<1>2. /\ o \in [Loaders -> LoadTypes \cup {None}]
      /\ \A p \in Loaders :
           /\ o[p] # None <=> Loading(p)
           /\ Loading(p) => /\ o[p].on = load[p].on /\ o[p].kind = load[p].kind
                            /\ o[p].read = load[p].read /\ (~o[p].dirty => o[p] = load[p])
  BY <1>1, OutdatedLoads
<1>3. \A p \in Loaders :
         load'[p] = IF Loading(p) /\ load[p].on = i THEN None
                    ELSE IF rows' = rows THEN load[p] ELSE o[p]
  BY DEF Restart
<1>4. load' \in [Loaders -> LoadTypes \cup {None}]
  <2> HIDE DEF o
  <2>1. \A p \in Loaders : load'[p] \in LoadTypes \cup {None}
    BY <1>2, <1>3 DEF LoadsOK
  <2>2. load' = [p \in Loaders |-> load'[p]]
    BY DEF Restart
  <2> QED BY <2>1, <2>2
<1>5. \A w \in Callers : task'[w] = IF task[w] # Idle /\ task[w].on = i THEN Idle ELSE task[w]
  BY DEF Restart
<1>6. \A p \in Loaders : Loading(p)' <=> load'[p] # None
  BY DEF Loading
<1>7. \A p \in Loaders : Loading(p) <=> load[p] # None
  BY DEF Loading
<1> HIDE DEF o
<1> QED BY <1>2, <1>3, <1>4, <1>5, <1>6, <1>7 DEF o

\* An instance starts again.
LEMMA RestartSteps ==
  ASSUME GatewayTypes, NEW i \in Instances, Restart(i)
  PROVE  GatewayTypes'
<1> USE DEF GatewayTypes
<1>1. /\ load' \in [Loaders -> LoadTypes \cup {None}]
      /\ \A p \in Loaders : Loading(p)' <=> Loading(p) /\ load[p].on # i
      /\ \A p \in Loaders : Loading(p)' => load'[p].on = load[p].on /\ load'[p].kind = load[p].kind
      /\ \A w \in Callers : task'[w] = IF task[w] # Idle /\ task[w].on = i THEN Idle ELSE task[w]
  BY RestartLeaves
<1>2. ContentsOK'
  BY StartRows DEF Restart, TablesOK, ContentsOK
<1>3. \A k \in Kinds : CopyOf(k, Current(k)')
  BY <1>2, CurrentNext DEF CopyOf
<1>4. TablesOK'
  <2>1. cached' \in [Instances -> [Kinds -> Seq(Results)]]
        /\ \A j \in Instances, k \in Kinds : Len(cached'[j][k]) = Len(Queries(k))
    <3> DEFINE new == [k \in Kinds |-> Current(k)']
    <3>1. new \in [Kinds -> Seq(Results)] /\ \A k \in Kinds : Len(new[k]) = Len(Queries(k))
      BY <1>3 DEF CopyOf
    <3>2. cached' = [cached EXCEPT ![i] = new]
      BY DEF Restart
    <3> HIDE DEF new
    <3> QED BY <3>1, <3>2 DEF TablesOK
  <2>2. channel' \in [Instances -> Seq(Kinds \ {"transports"})]
    BY DEF Restart, TablesOK
  <2>3. missed' \in [Instances -> [Kinds -> BOOLEAN]]
    BY DEF Restart, TablesOK
  <2>4. events' \in 0..MaxEvents
    BY TablesAssumption DEF Restart, Event, TablesOK
  <2> QED BY <1>2, <2>1, <2>2, <2>3, <2>4 DEF TablesOK
<1>5. LoadsOK'
  BY <1>1 DEF LoadsOK
<1>6. TasksOK'
  <2>1. \A w \in Callers : task'[w] \in Tasks /\ Scripted(task'[w])
    BY <1>1 DEF TasksOK, Tasks, Scripted, Idle, Calling
  <2>2. task' = [w \in Callers |-> task'[w]]
    BY DEF Restart
  <2> QED BY <2>1, <2>2 DEF TasksOK, Scripted
<1>7. LoadersOK'
  <2>1. \A w \in Callers : w \in Loaders
    BY DEF Loaders
  <2>2. \A w \in Callers : Loading(w)' => Loading(w) /\ task'[w] = task[w]
    BY <1>1, <2>1 DEF LoadersOK
  <2> QED BY <1>1, <2>1, <2>2 DEF LoadersOK
<1>8. ToolsOK'
  <2>1. tools' \in [Instances -> [Servers -> {None, "fresh", "stale"}]]
    BY DEF Restart, ToolsOK
  <2>2. fetches' \in [Fetchers -> Fetches \cup {None}]
    BY DEF Restart, ToolsOK
  <2> QED BY <2>1, <2>2 DEF Restart, ToolsOK
<1>9. SessionsOK'
  <2>1. opened \in Nat /\ 0 \in 0..opened
    BY CallsAssumption DEF SessionsOK
  <2>2. sessions' \in [Instances -> [Aliases -> 0..opened]]
    BY <2>1 DEF Restart, SessionsOK
  <2> QED BY <2>2 DEF Restart, SessionsOK
<1>10. CallsOK'
  BY <1>1 DEF CallsOK, Restart, Idle, Calling
<1>11. PoolsOK'
  BY CallsAssumption DEF PoolsOK, Restart
<1> QED BY <1>4, <1>5, <1>6, <1>7, <1>8, <1>9, <1>10, <1>11

-----------------------------------------------------------------------------
(* The types.                                                              *)

\* At the start nothing is under way.
LEMMA GatewayStart == Init => GatewayTypes
<1> SUFFICES ASSUME Init PROVE GatewayTypes
  OBVIOUS
<1> USE DEF Init
<1>1. rows \in ServerTables
  BY ServersAssumption DEF TablesInit, ServerTables
<1>2. ContentsOK
  BY <1>1 DEF TablesInit, ContentsOK
<1>3. \A k \in Kinds : CopyOf(k, Current(k))
  BY <1>2, CurrentTyped
<1>4. TablesOK
  <2>1. cached \in [Instances -> [Kinds -> Seq(Results)]]
        /\ \A i \in Instances, k \in Kinds : Len(cached[i][k]) = Len(Queries(k))
    <3> DEFINE new == [k \in Kinds |-> Current(k)]
    <3>1. new \in [Kinds -> Seq(Results)] /\ \A k \in Kinds : Len(new[k]) = Len(Queries(k))
      BY <1>3 DEF CopyOf
    <3>2. cached = [i \in Instances |-> new]
      BY DEF TablesInit
    <3> HIDE DEF new
    <3> QED BY <3>1, <3>2
  <2>2. channel \in [Instances -> Seq(Kinds \ {"transports"})]
    BY DEF TablesInit
  <2> QED BY <1>2, <2>1, <2>2, TablesAssumption DEF TablesOK, TablesInit
<1>5. LoadsOK /\ \A p \in Loaders : ~Loading(p)
  BY DEF TablesInit, LoadsOK, Loading
<1>6. TasksOK /\ \A w \in Callers : task[w] = Idle
  BY DEF TablesInit, TasksOK, Tasks, Scripted, Idle, Calling
<1>7. LoadersOK
  BY <1>5 DEF LoadersOK, Loaders
<1>8. ToolsOK
  BY ServersAssumption DEF ToolsInit, ToolsOK
<1>9. SessionsOK
  BY CallsAssumption DEF CallsInit, SessionsOK
<1>10. CallsOK
  BY <1>6 DEF CallsOK, Idle, Calling
<1>11. PoolsOK
  BY CallsAssumption DEF CallsInit, PoolsOK
<1> QED BY <1>4, <1>5, <1>6, <1>7, <1>8, <1>9, <1>10, <1>11 DEF GatewayTypes

\* A step that leaves the sessions and the pool alone.
HandlerStep == TableStep /\ ToolsOK' /\ UNCHANGED <<sessionVars, poolVars>>
CallStep(w) ==
    /\ \E t \in Tasks : Moves(w, t)
    /\ UNCHANGED <<tableVars, toolVars>>
    /\ SessionsOK' /\ PoolsOK' /\ events' \in 0..MaxEvents

\* A step is one of a handler or of a call, or an instance or a server starts again.
LEMMA StepKinds ==
  ASSUME GatewayTypes, Next
  PROVE  \/ HandlerStep \/ \E w \in Callers : CallNext(w) /\ CallStep(w)
         \/ Forget \/ \E i \in Instances : Restart(i)
<1>1. CASE TablesNext /\ UNCHANGED <<toolVars, sessionVars, poolVars>>
  <2>1. TableStep
    BY <1>1, LoadSteps, MessageSteps DEF TablesNext
  <2>2. ToolsOK'
    BY <1>1 DEF GatewayTypes, ToolsOK, toolVars
  <2> QED BY <1>1, <2>1, <2>2 DEF HandlerStep
<1>2. ASSUME NEW w \in Callers, AccessNext(w), UNCHANGED <<toolVars, sessionVars, poolVars>>
      PROVE  HandlerStep
  <2>1. ToolsOK'
    BY <1>2 DEF GatewayTypes, ToolsOK, toolVars
  <2> QED BY <1>2, <2>1, AccessSteps DEF HandlerStep
<1>3. ASSUME NEW w \in Callers, ServerRequests(w) \/ ServerSteps(w), UNCHANGED <<sessionVars, poolVars>>
      PROVE  HandlerStep
  BY <1>3, RequestSteps, ToolSteps DEF HandlerStep
<1>4. ASSUME NEW w \in Callers, CallNext(w)
      PROVE  CallStep(w)
  BY <1>4, CallSteps DEF CallStep
<1>5. CASE /\ (\E f \in Fetchers : Background(f)) \/ (\E i \in Instances : Refresh(i) \/ Stale(i))
           /\ UNCHANGED <<sessionVars, poolVars>>
  <2>1. UNCHANGED <<tableVars, task>> /\ ToolsOK' /\ events' \in 0..MaxEvents
    BY <1>5, BackgroundSteps
  <2>2. TableStep
    BY <2>1 DEF TableStep, GatewayTypes, TablesOK, ContentsOK, LoadsOK, LoadersOK, Loading, tableVars
  <2> QED BY <1>5, <2>1, <2>2 DEF HandlerStep
<1> QED BY <1>1, <1>2, <1>3, <1>4, <1>5 DEF Next

\* A call opens one session at most.
LEMMA SessionsOpened ==
  ASSUME NEW w \in Callers, CallNext(w)
  PROVE  opened' \in {opened, opened + 1}
BY DEF CallNext, BeginCall, BeginExecute, Answered, Opened, Refused, Keep, Lock, InitializeFails, Initialize,
       Initialized, Retried, Acquire, GiveUp, CallTool, Release, Open, sessionVars

\* The types are kept by every step.
LEMMA GatewayTypesKept ==
  ASSUME GatewayTypes, [Next]_vars
  PROVE  GatewayTypes'
<1>1. CASE HandlerStep
  <2>1. TablesOK' /\ LoadsOK' /\ LoadersOK' /\ ToolsOK' /\ UNCHANGED <<sessionVars, poolVars>>
    BY <1>1 DEF HandlerStep, TableStep
  <2>2. TasksOK' /\ CallsOK'
    <3>1. opened' = opened
      BY <2>1 DEF sessionVars
    <3>2. CASE UNCHANGED task
      BY <3>1, <3>2 DEF GatewayTypes, TasksOK, CallsOK
    <3>3. CASE \E w \in Callers, t \in Tasks : Handles(w, t)
      BY <3>1, <3>3, CallsKept DEF GatewayTypes
    <3> QED BY <1>1, <3>2, <3>3 DEF HandlerStep, TableStep
  <2> QED BY <2>1, <2>2 DEF GatewayTypes, SessionsOK, PoolsOK, sessionVars, poolVars
<1>2. ASSUME NEW w \in Callers, CallNext(w), CallStep(w) PROVE GatewayTypes'
  <2>1. PICK t \in Tasks : Moves(w, t)
    BY <1>2 DEF CallStep
  <2>2. UNCHANGED <<tableVars, toolVars>> /\ SessionsOK' /\ PoolsOK' /\ events' \in 0..MaxEvents
    BY <1>2 DEF CallStep
  <2>3. TasksOK' /\ task'[w] = t /\ \A v \in Callers \ {w} : task'[v] = task[v]
    BY <2>1, TaskChanged DEF GatewayTypes, Moves
  <2>4. CallsOK'
    <3>1. opened' \in {opened, opened + 1} /\ opened \in Nat
      BY <1>2, SessionsOpened, CallsAssumption DEF GatewayTypes, SessionsOK
    <3>2. \A v \in Callers : task[v].step \in Calling => task[v].sid \in Nat /\ task[v].sid <= opened
      <4> TAKE v \in Callers
      <4>1. task[v] \in Tasks /\ (task[v].step \in Calling => task[v].sid <= opened)
        BY DEF GatewayTypes, TasksOK, CallsOK
      <4> QED BY <4>1, Shapes DEF CallTasks
    <3>3. \A v \in Callers : task[v].step \in Calling => task[v].sid <= opened'
      BY <3>1, <3>2
    <3> QED BY <2>1, <2>3, <3>3 DEF Moves, CallsOK
  <2>5. TablesOK' /\ LoadsOK' /\ ToolsOK'
    BY <2>2 DEF GatewayTypes, TablesOK, ContentsOK, LoadsOK, ToolsOK, tableVars, toolVars
  <2>6. LoadersOK'
    <3>1. task[w].step # "reload" /\ load' = load
      BY <2>1, <2>2 DEF Moves, Calling, tableVars
    <3> QED BY <2>3, <3>1 DEF GatewayTypes, LoadersOK, Loading
  <2> QED BY <2>2, <2>3, <2>4, <2>5, <2>6 DEF GatewayTypes
<1>3. CASE Forget
  <2>1. /\ UNCHANGED <<tableVars, toolVars, task, events, poolVars>>
        /\ UNCHANGED <<sessions, opened, reinit, refused, reopened>>
        /\ alive' \in [Servers -> SUBSET Nat]
    BY <1>3 DEF Forget, Rest, GatewayTypes, SessionsOK
  <2>2. TablesOK' /\ LoadsOK' /\ LoadersOK' /\ TasksOK'
    BY <2>1 DEF GatewayTypes, TablesOK, ContentsOK, LoadsOK, LoadersOK, Loading, TasksOK, Scripted, tableVars
  <2>3. ToolsOK' /\ SessionsOK' /\ CallsOK' /\ PoolsOK'
    BY <2>1 DEF GatewayTypes, ToolsOK, SessionsOK, CallsOK, PoolsOK, toolVars, poolVars
  <2> QED BY <2>2, <2>3 DEF GatewayTypes
<1>4. CASE UNCHANGED vars
  <2>1. TablesOK' /\ LoadsOK' /\ LoadersOK' /\ TasksOK'
    BY <1>4
    DEF GatewayTypes, TablesOK, ContentsOK, LoadsOK, LoadersOK, Loading, TasksOK, Scripted, vars, tableVars
  <2>2. ToolsOK' /\ SessionsOK' /\ CallsOK' /\ PoolsOK'
    BY <1>4
    DEF GatewayTypes, ToolsOK, SessionsOK, CallsOK, PoolsOK, vars, toolVars, sessionVars, poolVars
  <2> QED BY <2>1, <2>2 DEF GatewayTypes
<1> QED BY <1>1, <1>2, <1>3, <1>4, StepKinds, RestartSteps

\* The types of all variables are an invariant.
LEMMA TypesKept == Spec => []GatewayTypes
BY GatewayStart, GatewayTypesKept, PTL DEF Spec

-----------------------------------------------------------------------------
(* The runtimes of the pool.                                               *)

RunningOn(i) == {w \in Callers : Running(w, i)}

\* The scripts that run are others only by the one caller whose task changed.
LEMMA RunningChanged ==
  ASSUME TasksOK, NEW w \in Callers, NEW t \in Tasks, Scripted(t), Become(w, t), NEW i \in Instances
  PROVE  LET runs == /\ t.step = "run" \/ (t.step \in Calling /\ t.script # None)
                     /\ t.on = i
         IN  RunningOn(i)' = IF runs THEN RunningOn(i) \cup {w} ELSE RunningOn(i) \ {w}
<1>1. task'[w] = t /\ \A v \in Callers \ {w} : task'[v] = task[v]
  BY TaskChanged
<1>2. \A v \in Callers \ {w} : Running(v, i)' <=> Running(v, i)
  BY <1>1 DEF Running
<1>3. Running(w, i)' <=> /\ t.step = "run" \/ (t.step \in Calling /\ t.script # None)
                        /\ t.on = i
  BY <1>1 DEF Running
<1> QED BY <1>2, <1>3 DEF RunningOn

\* Only handlers of calls and scripts have to do with the pool.
LEMMA HandlersRunNothing ==
  ASSUME GatewayTypes, HandlerStep, NEW i \in Instances
  PROVE  RunningOn(i)' = RunningOn(i)
<1>1. CASE UNCHANGED task
  BY <1>1 DEF RunningOn, Running
<1>2. ASSUME NEW w \in Callers, NEW t \in Tasks, Handles(w, t) PROVE RunningOn(i)' = RunningOn(i)
  <2>1. RunningOn(i)' = RunningOn(i) \ {w}
    BY <1>2, RunningChanged DEF Handles, Handling, Calling, GatewayTypes
  <2>2. w \notin RunningOn(i)
    BY <1>2 DEF Handles, Handling, Calling, RunningOn, Running
  <2> QED BY <2>1, <2>2
<1> QED BY <1>1, <1>2 DEF HandlerStep, TableStep

\* A slot that a caller takes or gives back.
SlotTaken(w, i) ==
    /\ idle[i] > 0 /\ idle'[i] = idle[i] - 1
    /\ \/ w \notin RunningOn(i) /\ RunningOn(i)' = RunningOn(i) \cup {w} /\ lost'[i] = lost[i]
       \/ RunningOn(i)' = RunningOn(i) /\ lost'[i] = lost[i] + 1
SlotGiven(w, i) ==
    /\ w \in RunningOn(i) /\ RunningOn(i)' = RunningOn(i) \ {w}
    /\ \/ lost'[i] = lost[i] /\ idle'[i] = IF idle[i] < PoolSize THEN idle[i] + 1 ELSE idle[i]
       \/ lost'[i] = lost[i] + 1 /\ idle'[i] = idle[i]
SlotsSame(i) == RunningOn(i)' = RunningOn(i) /\ idle'[i] = idle[i] /\ lost'[i] = lost[i]

\* A call or a script keeps the runtime it has until it is over.
LEMMA CallSlots ==
  ASSUME GatewayTypes, NEW w \in Callers, CallNext(w), NEW i \in Instances
  PROVE  SlotsSame(i) \/ SlotTaken(w, i) \/ SlotGiven(w, i)
<1> DEFINE t == task[w]
<1> USE DEF GatewayTypes
<1>1. t \in Tasks /\ Scripted(t) /\ TasksOK
  BY DEF TasksOK
<1>2. PICK u \in Tasks : Moves(w, u)
  BY CallSteps
<1>3. Scripted(u) /\ Become(w, u) /\ task'[w] = u
  BY <1>1, <1>2, TaskChanged DEF Moves
<1> DEFINE runs(x) == (x.step = "run" \/ (x.step \in Calling /\ x.script # None)) /\ x.on = i
<1>4. RunningOn(i)' = IF runs(u) THEN RunningOn(i) \cup {w} ELSE RunningOn(i) \ {w}
  BY <1>1, <1>3, RunningChanged
<1>5. w \in RunningOn(i) <=> runs(t)
  BY DEF RunningOn, Running
<1>6. idle \in [Instances -> Nat] /\ lost \in [Instances -> Nat]
  BY DEF PoolsOK
<1>7. ASSUME UNCHANGED poolVars, runs(u) <=> runs(t) PROVE SlotsSame(i)
  BY <1>4, <1>5, <1>7 DEF SlotsSame, poolVars
<1> HIDE DEF t
<1>8. CASE Free(w) /\ (BeginCall(w) \/ BeginExecute(w))
  <2>1. t.step = "idle" /\ UNCHANGED poolVars
    BY <1>8 DEF Free, Idle, t, BeginCall, BeginExecute
  <2>2. u.step = "get" \/ (u.step = "call" /\ u.script = None)
    <3>1. CASE BeginCall(w)
      <4>1. PICK j, s, alias, init : Become(w, Call(j, s, alias, None, init, None))
        BY <3>1 DEF BeginCall
      <4>2. u = Call(j, s, alias, None, init, None)
        BY <1>3, <4>1 DEF Become, TasksOK
      <4> QED BY <4>2 DEF Call
    <3>2. CASE BeginExecute(w)
      <4>1. PICK j, servers, script : Become(w, GetTools(j, servers, script))
        BY <3>2 DEF BeginExecute
      <4>2. u = GetTools(j, servers, script)
        BY <1>3, <4>1 DEF Become, TasksOK
      <4> QED BY <4>2 DEF GetTools
    <3> QED BY <1>8, <3>1, <3>2
  <2> QED BY <1>7, <2>1, <2>2 DEF Calling
<1>9. t.step \in Calling => t \in CallTasks
  BY <1>1, Shapes
<1>10. ASSUME t.step \in Calling, Become(w, Over(t)), UNCHANGED poolVars PROVE SlotsSame(i)
  <2>1. u = Over(t)
    BY <1>3, <1>10 DEF Become, TasksOK
  <2>2. runs(u) <=> runs(t)
    BY <1>1, <1>9, <1>10, <2>1, Shapes DEF Over, Idle, Scripted, Calling, Scripts, CallTasks
  <2> QED BY <1>7, <1>10, <2>2
<1>11. ASSUME t.step \in Calling, u.step \in Calling, u.script = t.script, u.on = t.on, UNCHANGED poolVars
       PROVE  SlotsSame(i)
  BY <1>7, <1>11 DEF Calling
<1>12. CASE Answered(w) \/ InitializeFails(w) \/ Retried(w) \/ Keep(w)
  BY <1>10, <1>12 DEF Answered, InitializeFails, Retried, Keep, Doing, Calling, t
<1>13. CASE Opened(w) \/ Refused(w) \/ Lock(w) \/ Initialize(w) \/ Initialized(w)
  <2>1. t.step \in Calling /\ UNCHANGED poolVars
    BY <1>13 DEF Opened, Refused, Lock, Initialize, Initialized, Doing, Calling, t
  <2>2. u \in {[t EXCEPT !.step = "keep", !.sid = opened + 1], [t EXCEPT !.step = "expired"],
               [t EXCEPT !.step = "retry"], [t EXCEPT !.step = "init"],
               [t EXCEPT !.step = "initialized", !.sid = opened + 1]}
    BY <1>3, <1>13 DEF Opened, Refused, Lock, Initialize, Initialized, Become, TasksOK, t
  <2>3. u.step \in Calling /\ u.script = t.script /\ u.on = t.on
    BY <1>9, <2>1, <2>2 DEF CallTasks, Calling
  <2> QED BY <1>11, <2>1, <2>3
<1>14. CASE GiveUp(w)
  <2>1. t.step = "get" /\ u.step = "idle" /\ UNCHANGED poolVars
    BY <1>3, <1>14 DEF GiveUp, Listing, Idle, Become, TasksOK, t
  <2> QED BY <1>7, <2>1 DEF Calling
<1>15. CASE CallTool(w)
  <2>1. t.step = "run" /\ t \in Scripts /\ t.left > 0 /\ UNCHANGED poolVars
    BY <1>1, <1>15, Shapes DEF CallTool, Doing, t
  <2> DEFINE script == [t EXCEPT !.left = @ - 1]
  <2>2. PICK x, s : u = Call(t.on, s, x[1], x[2], FALSE, script)
    BY <1>3, <1>15 DEF CallTool, Become, TasksOK, t
  <2>3. script \in Scripts /\ script # None
    BY <2>1, CallsAssumption DEF Scripts
  <2> HIDE DEF script
  <2>4. u.step = "call" /\ u.on = t.on /\ u.script = script
    BY <2>2 DEF Call
  <2> QED BY <1>7, <2>1, <2>3, <2>4 DEF Calling
<1>16. CASE Acquire(w)
  <2>1. t.step = "get" /\ t.script # None /\ t \in GetTasks /\ t.script.on = t.on /\ t.script \in Scripts
    BY <1>1, <1>16, Shapes DEF Acquire, Listing, Scripted, GetTasks, t
  <2> DEFINE offered == {x \in t.script.tools : \E s \in t.got : rows[s].alias = x[1]}
  <2>2. PICK r \in Runtimes :
          /\ Become(w, IF r[1] = "run" THEN [t.script EXCEPT !.tools = offered] ELSE Idle)
          /\ idle' = [idle EXCEPT ![t.on] = @ - r[2]] /\ lost' = [lost EXCEPT ![t.on] = @ + r[3]]
    BY <1>16 DEF Acquire, t
  <2>3. u = IF r[1] = "run" THEN [t.script EXCEPT !.tools = offered] ELSE Idle
    BY <1>3, <2>2 DEF Become, TasksOK
  <2>4. ~runs(t) /\ idle[t.on] > 0 /\ t.on \in Instances
    BY <1>16, <2>1 DEF Acquire, Calling, GetTasks, t
  <2>5. CASE r[1] = "run"
    <3>1. r[2] = 1 /\ r[3] = 0
      BY <2>5 DEF Runtimes
    <3>2. u.step = "run" /\ u.on = t.on
      BY <2>1, <2>3, <2>5 DEF Scripts
    <3> QED BY <1>4, <1>5, <1>6, <2>2, <2>4, <3>1, <3>2 DEF SlotTaken, SlotsSame, Calling
  <2>6. CASE r[1] # "run"
    <3>1. (r[2] = 0 /\ r[3] = 0) \/ (r[2] = 1 /\ r[3] = 1)
      BY <2>6 DEF Runtimes
    <3>2. u.step = "idle"
      BY <2>3, <2>6 DEF Idle
    <3> QED BY <1>4, <1>5, <1>6, <2>2, <2>4, <3>1, <3>2 DEF SlotTaken, SlotsSame, Calling
  <2> QED BY <2>5, <2>6
<1>17. CASE Release(w)
  <2>1. t.step = "run" /\ t \in Scripts /\ t.on \in Instances /\ u.step = "idle"
    BY <1>1, <1>3, <1>17, Shapes DEF Release, Doing, Idle, Become, TasksOK, Scripts, t
  <2>2. \/ /\ idle' = [idle EXCEPT ![t.on] = IF @ < PoolSize THEN @ + 1 ELSE @]
           /\ lost' = lost
        \/ lost' = [lost EXCEPT ![t.on] = @ + 1] /\ idle' = idle
    BY <1>17 DEF Release, t
  <2> QED BY <1>4, <1>5, <1>6, <2>1, <2>2 DEF SlotGiven, SlotsSame, Calling
<1> QED
  BY <1>8, <1>12, <1>13, <1>14, <1>15, <1>16, <1>17 DEF CallNext

\* Every slot is counted once, and the counts of an instance change together.
LEMMA SlotsStep ==
  ASSUME GatewayTypes, SlotsKept, [Next]_vars
  PROVE  SlotsKept'
<1> USE DEF GatewayTypes
<1> SUFFICES ASSUME NEW i \in Instances
             PROVE  idle'[i] + Cardinality(RunningOn(i)') + lost'[i] = PoolSize
  BY DEF SlotsKept, RunningOn
<1>1. IsFiniteSet(RunningOn(i)) /\ Cardinality(RunningOn(i)) \in Nat
  BY TablesAssumption, FS_Subset, FS_CardinalityType DEF RunningOn
<1>2. idle[i] + Cardinality(RunningOn(i)) + lost[i] = PoolSize
  BY DEF SlotsKept, RunningOn
<1>3. idle[i] \in Nat /\ lost[i] \in Nat /\ PoolSize \in Nat
  BY CallsAssumption DEF PoolsOK
<1>4. CASE SlotsSame(i)
  BY <1>2, <1>4 DEF SlotsSame
<1>5. ASSUME NEW w \in Callers, CallNext(w)
      PROVE  idle'[i] + Cardinality(RunningOn(i)') + lost'[i] = PoolSize
  <2>1. CASE SlotTaken(w, i)
    <3>1. w \notin RunningOn(i) => Cardinality(RunningOn(i) \cup {w}) = Cardinality(RunningOn(i)) + 1
      BY <1>1, FS_AddElement
    <3>2. \/ Cardinality(RunningOn(i)') = Cardinality(RunningOn(i)) + 1 /\ lost'[i] = lost[i]
          \/ Cardinality(RunningOn(i)') = Cardinality(RunningOn(i)) /\ lost'[i] = lost[i] + 1
      BY <2>1, <3>1 DEF SlotTaken
    <3>3. idle[i] > 0 /\ idle'[i] = idle[i] - 1
      BY <2>1 DEF SlotTaken
    <3> QED BY <1>1, <1>2, <1>3, <3>2, <3>3
  <2>2. CASE SlotGiven(w, i)
    <3>1. /\ Cardinality(RunningOn(i) \ {w}) = Cardinality(RunningOn(i)) - 1
          /\ Cardinality(RunningOn(i) \ {w}) \in Nat
      BY <1>1, <2>2, FS_RemoveElement, FS_CardinalityType DEF SlotGiven
    <3>2. idle[i] < PoolSize
      BY <1>1, <1>2, <1>3, <3>1
    <3> QED BY <1>1, <1>2, <1>3, <2>2, <3>1, <3>2 DEF SlotGiven
  <2> QED BY <1>4, <1>5, <2>1, <2>2, CallSlots
<1>6. CASE HandlerStep
  BY <1>4, <1>6, HandlersRunNothing DEF HandlerStep, SlotsSame, poolVars
<1>7. CASE Forget \/ UNCHANGED vars
  BY <1>4, <1>7 DEF Forget, vars, poolVars, SlotsSame, RunningOn, Running
<1>8. ASSUME NEW j \in Instances, Restart(j)
      PROVE  idle'[i] + Cardinality(RunningOn(i)') + lost'[i] = PoolSize
  <2>1. \A w \in Callers : task'[w] = IF task[w] # Idle /\ task[w].on = j THEN Idle ELSE task[w]
    BY <1>8, RestartLeaves
  <2>2. idle' = [idle EXCEPT ![j] = PoolSize] /\ lost' = [lost EXCEPT ![j] = 0]
    BY <1>8 DEF Restart
  <2>3. CASE i = j
    <3>1. RunningOn(i)' = {}
      BY <2>1, <2>3 DEF RunningOn, Running, Idle, Calling
    <3> QED BY <1>3, <2>2, <2>3, <3>1, FS_EmptySet DEF PoolsOK
  <2>4. CASE i # j
    <3>1. RunningOn(i)' = RunningOn(i)
      BY <2>1, <2>4 DEF RunningOn, Running, Idle, Calling
    <3> QED BY <1>4, <2>2, <2>4, <3>1 DEF PoolsOK, SlotsSame
  <2> QED BY <2>3, <2>4
<1> QED BY <1>5, <1>6, <1>7, <1>8, StepKinds

\* The pool of every instance has a runtime for each slot that no script uses and
\* that was not lost: Acquire, Release and the calls of a script never take a slot
\* twice, forget one, or put back more than was taken.
THEOREM SlotsStayKept == Spec => []SlotsKept
<1>1. Init => SlotsKept
  <2> SUFFICES ASSUME Init, NEW i \in Instances
               PROVE  idle[i] + Cardinality(RunningOn(i)) + lost[i] = PoolSize
    BY DEF SlotsKept, RunningOn
  <2>1. idle[i] = PoolSize /\ lost[i] = 0 /\ PoolSize \in Nat
    BY CallsAssumption DEF Init, CallsInit
  <2>2. RunningOn(i) = {}
    BY DEF Init, TablesInit, RunningOn, Running, Idle, Calling
  <2> QED BY <2>1, <2>2, FS_EmptySet
<1>2. GatewayTypes /\ SlotsKept /\ [Next]_vars => SlotsKept'
  BY SlotsStep
<1> QED BY <1>1, <1>2, TypesKept, PTL DEF Spec

\* All variables of the gateway have their types; no pool holds more runtimes than
\* it has slots, because every slot is counted once.
THEOREM GatewayTyped == Spec => []TypeOK
<1>1. GatewayTypes /\ SlotsKept => TypeOK
  <2> SUFFICES ASSUME GatewayTypes, SlotsKept PROVE TypeOK
    OBVIOUS
  <2> USE DEF GatewayTypes
  <2>1. \A i \in Instances : idle[i] \in 0..PoolSize
    <3> TAKE i \in Instances
    <3>1. IsFiniteSet(RunningOn(i)) /\ Cardinality(RunningOn(i)) \in Nat
      BY TablesAssumption, FS_Subset, FS_CardinalityType DEF RunningOn
    <3>2. idle[i] + Cardinality(RunningOn(i)) + lost[i] = PoolSize
      BY DEF SlotsKept, RunningOn
    <3> QED BY <3>1, <3>2, CallsAssumption DEF PoolsOK
  <2>2. idle \in [Instances -> 0..PoolSize]
    BY <2>1 DEF PoolsOK
  <2>3. opened <= MaxSessions /\ events <= MaxEvents
    BY CallsAssumption, TablesAssumption DEF SessionsOK, TablesOK
  <2> QED BY <2>2, <2>3 DEF TypeOK, TablesOK, ContentsOK, ServerTables, ToolsOK, SessionsOK
<1> QED BY <1>1, SlotsStayKept, TypesKept, PTL

-----------------------------------------------------------------------------
(* The tools of deleted servers.                                           *)

\* What a step may make of rows, of what has been found, and of tools.
RowsLast ==
    \A s \in Servers : rows[s] # None => rows'[s] # None /\ (~Live(s) => ~Live(s)')
FoundLive ==
    \A s \in Servers : AboutToKeep(s)' => AboutToKeep(s) \/ Live(s)
ToolsFound ==
    /\ \A i \in Instances, s \in Servers :
          tools'[i][s] # None => tools[i][s] # None \/ AboutToKeep(s) \/ s \in saved
    /\ \A s \in saved' : s \in saved \/ AboutToKeep(s)
PurgedGone ==
    \A i \in Instances : \A s \in purged'[i] :
       \/ s \in purged[i]
       \/ /\ rows[s] # None /\ ~Live(s) /\ ~AboutToKeep(s)
          /\ tools'[i][s] = None /\ s \notin saved'
Removers ==
    \A w \in Callers : task[w].step \in {"forget", "unsave"} => rows[task[w].server] # None
Lasting == RowsLast /\ FoundLive /\ ToolsFound /\ PurgedGone /\ Removers'

\* Such a step brings back no tools of a deleted server.
LEMMA LastingKeepsPurged ==
  ASSUME ToolsOK', PurgedInv, Lasting
  PROVE  PurgedInv'
<1>1. ASSUME NEW i \in Instances, NEW s \in purged'[i], s \in Servers
      PROVE  /\ rows'[s] # None /\ ~Live(s)' /\ ~AboutToKeep(s)'
             /\ tools'[i][s] = None /\ s \notin saved'
  <2>1. CASE s \in purged[i]
    <3>1. rows[s] # None /\ ~Live(s) /\ ~AboutToKeep(s) /\ tools[i][s] = None /\ s \notin saved
      BY <2>1 DEF PurgedInv
    <3> QED BY <1>1, <3>1 DEF Lasting, RowsLast, FoundLive, ToolsFound
  <2>2. CASE s \notin purged[i]
    <3>1. /\ rows[s] # None /\ ~Live(s) /\ ~AboutToKeep(s)
          /\ tools'[i][s] = None /\ s \notin saved'
      BY <1>1, <2>2 DEF Lasting, PurgedGone
    <3> QED BY <1>1, <3>1 DEF Lasting, RowsLast, FoundLive
  <2> QED BY <2>1, <2>2
<1>2. \A i \in Instances : \A s \in purged'[i] : s \in Servers
  BY DEF ToolsOK
<1>3. Removers'
  BY DEF Lasting
<1> QED BY <1>1, <1>2, <1>3 DEF PurgedInv, Removers

\* Somebody finds a server only while it lives.
LEMMA FoundWhileLive ==
  ASSUME TasksOK, ToolsOK,
         \/ UNCHANGED fetches
         \/ \E f \in Fetchers, r \in Fetches \cup {None} :
               /\ fetches' = [fetches EXCEPT ![f] = r]
               /\ r # None /\ r.step # "find" =>
                     \/ Live(r.server)
                     \/ fetches[f] # None /\ fetches[f].step # "find" /\ fetches[f].server = r.server,
         \/ UNCHANGED task
         \/ \E w \in Callers, t \in Tasks : Become(w, t) /\ (t.step = "list" => Live(t.server))
  PROVE  FoundLive
<1> SUFFICES ASSUME NEW s \in Servers, AboutToKeep(s)', ~AboutToKeep(s) PROVE Live(s)
  BY DEF FoundLive
<1>1. ASSUME NEW f \in Fetchers, fetches'[f] # None, fetches'[f].server = s, fetches'[f].step # "find"
      PROVE  Live(s)
  <2>1. fetches'[f] # fetches[f]
    BY <1>1 DEF AboutToKeep
  <2>2. PICK g \in Fetchers, r \in Fetches \cup {None} :
          /\ fetches' = [fetches EXCEPT ![g] = r]
          /\ r # None /\ r.step # "find" =>
                \/ Live(r.server)
                \/ fetches[g] # None /\ fetches[g].step # "find" /\ fetches[g].server = r.server
    BY <2>1
  <2>3. g = f /\ r = fetches'[f]
    BY <2>1, <2>2, FetchChanged
  <2> QED BY <1>1, <2>2, <2>3 DEF AboutToKeep
<1>2. ASSUME NEW c \in Callers, task'[c].step = "list", task'[c].server = s
      PROVE  Live(s)
  <2>1. task'[c] # task[c]
    BY <1>2 DEF AboutToKeep
  <2>2. PICK w \in Callers, t \in Tasks : Become(w, t) /\ (t.step = "list" => Live(t.server))
    BY <2>1
  <2>3. w = c /\ t = task'[c]
    BY <2>1, <2>2 DEF Become, TasksOK
  <2> QED BY <1>2, <2>2, <2>3
<1> QED BY <1>1, <1>2 DEF AboutToKeep

\* A handler that drops tools has seen the row.
LEMMA RemoversSee ==
  ASSUME TasksOK, Removers, RowsLast,
         \/ UNCHANGED task
         \/ \E w \in Callers, t \in Tasks :
               Become(w, t) /\ (t.step \in {"forget", "unsave"} => rows'[t.server] # None)
  PROVE  Removers'
<1> SUFFICES ASSUME NEW w \in Callers, task'[w].step \in {"forget", "unsave"}
             PROVE  rows'[task'[w].server] # None
  BY DEF Removers
<1>1. CASE task'[w] = task[w]
  <2>1. task[w] \in ForgetTasks
    BY <1>1, Shapes DEF TasksOK
  <2> QED BY <1>1, <2>1 DEF Removers, RowsLast, ForgetTasks
<1>2. CASE task'[w] # task[w]
  <2>1. PICK v \in Callers, t \in Tasks :
          Become(v, t) /\ (t.step \in {"forget", "unsave"} => rows'[t.server] # None)
    BY <1>2
  <2>2. v = w /\ t = task'[w]
    BY <1>2, <2>1 DEF Become, TasksOK
  <2> QED BY <2>1, <2>2
<1> QED BY <1>1, <1>2

\* A step that has nothing to do with rows and tools.
LEMMA QuietLasts ==
  ASSUME TasksOK, ToolsOK, Removers, UNCHANGED <<rows, toolVars>>,
         \/ UNCHANGED task
         \/ \E w \in Callers, t \in Tasks : Become(w, t) /\ t.step \notin {"list", "forget", "unsave"}
  PROVE  Lasting
<1>1. RowsLast
  BY DEF RowsLast, Live
<1>2. FoundLive
  BY FoundWhileLive DEF toolVars
<1>3. ToolsFound /\ PurgedGone
  BY DEF ToolsFound, PurgedGone, toolVars
<1>4. Removers'
  BY <1>1, RemoversSee
<1> QED BY <1>1, <1>2, <1>3, <1>4 DEF Lasting

\* Steps of the copies, of the access lists and of calls do not.
LEMMA TablesLast ==
  ASSUME GatewayTypes, Removers, TablesNext \/ (\E w \in Callers : AccessNext(w)), UNCHANGED toolVars
  PROVE  Lasting
<1> USE DEF GatewayTypes
<1> SUFFICES /\ UNCHANGED rows
             /\ \/ UNCHANGED task
                \/ \E w \in Callers, t \in Tasks :
                      Become(w, t) /\ t.step \notin {"list", "forget", "unsave"}
  BY QuietLasts
<1>1. ASSUME NEW p \in Loaders, Read(p) PROVE UNCHANGED <<rows, task>>
  BY <1>1 DEF Read
<1>2. ASSUME NEW p \in Loaders, Store(p) \/ LoadFails(p)
      PROVE  /\ UNCHANGED rows
             /\ \/ UNCHANGED task
                \/ \E w \in Callers, t \in Tasks :
                      Become(w, t) /\ t.step \notin {"list", "forget", "unsave"}
  <2>1. Loading(p) /\ UNCHANGED rows /\ (UNCHANGED task \/ AfterLoad(p))
    BY <1>2 DEF Store, LoadFails, AllRead
  <2> QED BY <2>1, AfterLoads DEF Handles
<1>3. ASSUME NEW w \in Callers, Publish(w) \/ PublishFails(w)
      PROVE  UNCHANGED rows /\ Become(w, Idle) /\ Idle.step = "idle" /\ Idle \in Tasks
  BY <1>3 DEF Publish, PublishFails, Idle, Tasks
<1>4. ASSUME NEW i \in Instances, Tick(i) \/ Receive(i) \/ Lose(i) PROVE UNCHANGED <<rows, task>>
  BY <1>4 DEF Tick, Receive, Lose
<1>5. ASSUME NEW w \in Callers, AccessNext(w)
      PROVE  /\ UNCHANGED rows
             /\ \E t \in Tasks : Become(w, t) /\ t.step \notin {"list", "forget", "unsave"}
  <2>1. CASE UNCHANGED tableVars /\ \E t \in Tasks : Handles(w, t) /\ t.step \in {"idle", "check"}
    BY <2>1 DEF Handles, tableVars
  <2>2. ASSUME NEW i \in Instances, NEW k \in Lists, NEW scope, NEW new, Written(w, i, k, scope, new),
               Become(w, [step |-> "reload", on |-> i, kind |-> k, fetch |-> None])
        PROVE  /\ UNCHANGED rows
               /\ \E t \in Tasks : Become(w, t) /\ t.step \notin {"list", "forget", "unsave"}
    <3> DEFINE t == [step |-> "reload", on |-> i, kind |-> k, fetch |-> None]
    <3>1. t \in ReloadTasks /\ t.step = "reload"
      BY DEF ReloadTasks
    <3> QED BY <2>2, <3>1 DEF Written, Tasks
  <2> QED BY <1>5, <2>1, <2>2, AccessTasks
<1> QED BY <1>1, <1>2, <1>3, <1>4, <1>5 DEF TablesNext

\* Neither do calls.
LEMMA CallsLast ==
  ASSUME GatewayTypes, Removers, NEW w \in Callers, CallNext(w)
  PROVE  Lasting
<1>1. PICK t \in Tasks : Moves(w, t)
  BY CallSteps
<1>2. Become(w, t) /\ t.step \notin {"list", "forget", "unsave"}
  BY <1>1 DEF Moves, Calling
<1>3. UNCHANGED <<rows, toolVars>>
  BY CallSteps DEF tableVars
<1> QED BY <1>2, <1>3, QuietLasts DEF GatewayTypes

\* A request creates a row that is not there, or changes one that lives.
LEMMA RequestsLast ==
  ASSUME GatewayTypes, Removers, NEW w \in Callers, ServerRequests(w)
  PROVE  Lasting
<1> USE DEF GatewayTypes
<1>1. RequestTools /\ (QuietRequest(w) \/ RowRequest(w))
  BY RequestTasks
<1>2. \/ UNCHANGED rows
      \/ \E s \in Servers, row \in ServerRows :
            (rows[s] = None \/ Live(s)) /\ rows' = [rows EXCEPT ![s] = row]
  BY <1>1 DEF QuietRequest, RowRequest, WriteRow, tableVars
<1>3. RowsLast
  <2>1. CASE UNCHANGED rows
    BY <2>1 DEF RowsLast, Live
  <2>2. ASSUME NEW s \in Servers, NEW row \in ServerRows, rows[s] = None \/ Live(s),
               rows' = [rows EXCEPT ![s] = row]
        PROVE  RowsLast
    <3>1. row # None
      BY ServersAssumption
    <3> QED BY <2>2, <3>1 DEF RowsLast, Live, TablesOK, ContentsOK, ServerTables
  <2> QED BY <1>2, <2>1, <2>2
<1>4. \/ UNCHANGED task
      \/ \E t \in Tasks :
            /\ Become(w, t) /\ t.step # "list"
            /\ t.step \in {"forget", "unsave"} => rows'[t.server] # None
  <2>1. ASSUME NEW i \in Instances, NEW s \in Servers
        PROVE  /\ GetTools(i, {s}, None) \in Tasks /\ GetTools(i, {s}, None).step = "get"
               /\ \A fetch \in Servers \cup {None} :
                     LET t == [step |-> "reload", on |-> i, kind |-> "servers", fetch |-> fetch]
                     IN  t \in Tasks /\ t.step = "reload"
               /\ LET t == [step |-> "forget", on |-> i, kind |-> "servers", server |-> s, fetch |-> None]
                  IN  t \in Tasks /\ t.step = "forget" /\ t.server = s
    <3>1. GetTools(i, {s}, None) \in GetTasks /\ GetTools(i, {s}, None).step = "get"
      BY DEF GetTools, GetTasks
    <3>2. ASSUME NEW fetch \in Servers \cup {None}
          PROVE  [step |-> "reload", on |-> i, kind |-> "servers", fetch |-> fetch] \in ReloadTasks
      BY DEF ReloadTasks
    <3>3. [step |-> "forget", on |-> i, kind |-> "servers", server |-> s, fetch |-> None] \in ForgetTasks
      BY DEF ForgetTasks
    <3> QED BY <3>1, <3>2, <3>3 DEF Tasks
  <2>2. CASE QuietRequest(w)
    BY <2>1, <2>2 DEF QuietRequest
  <2>3. CASE RowRequest(w)
    <3>1. PICK i \in Instances, s \in Servers, row \in ServerRows :
            /\ rows' = [rows EXCEPT ![s] = row]
            /\ \/ \E fetch \in Servers \cup {None} :
                     Become(w, [step |-> "reload", on |-> i, kind |-> "servers", fetch |-> fetch])
               \/ UNCHANGED task
               \/ Become(w, [step |-> "forget", on |-> i, kind |-> "servers", server |-> s, fetch |-> None])
      BY <2>3 DEF RowRequest, WriteRow, ThenReload
    <3>2. rows'[s] # None
      BY <3>1, ServersAssumption DEF TablesOK, ContentsOK, ServerTables
    <3>3. ASSUME NEW fetch \in Servers \cup {None},
                 Become(w, [step |-> "reload", on |-> i, kind |-> "servers", fetch |-> fetch])
          PROVE  \E t \in Tasks : Become(w, t) /\ t.step = "reload"
      <4> DEFINE t == [step |-> "reload", on |-> i, kind |-> "servers", fetch |-> fetch]
      <4>1. t \in Tasks /\ t.step = "reload"
        BY <2>1
      <4> QED BY <3>3, <4>1
    <3>4. ASSUME Become(w, [step |-> "forget", on |-> i, kind |-> "servers", server |-> s, fetch |-> None])
          PROVE  \E t \in Tasks : Become(w, t) /\ t.step = "forget" /\ t.server = s
      <4> DEFINE t == [step |-> "forget", on |-> i, kind |-> "servers", server |-> s, fetch |-> None]
      <4>1. t \in Tasks /\ t.step = "forget" /\ t.server = s
        BY <2>1
      <4> QED BY <3>4, <4>1
    <3> QED BY <3>1, <3>2, <3>3, <3>4
  <2> QED BY <1>1, <2>2, <2>3
<1>5. Removers'
  BY <1>3, <1>4, RemoversSee
<1>6. FoundLive
  <2>1. \A i \in Instances, s \in Servers : NewFetch(i, s) \in Fetches /\ NewFetch(i, s).step = "find"
    BY DEF NewFetch, Fetches
  <2>2. \/ UNCHANGED fetches
        \/ \E f \in Fetchers, r \in Fetches \cup {None} :
              fetches' = [fetches EXCEPT ![f] = r] /\ ~(r # None /\ r.step # "find")
    BY <1>1, <2>1 DEF RequestTools
  <2>3. UNCHANGED task \/ \E v \in Callers, t \in Tasks : Become(v, t) /\ (t.step = "list" => Live(t.server))
    BY <1>4
  <2> QED BY <2>2, <2>3, FoundWhileLive
<1>7. ToolsFound /\ PurgedGone
  BY <1>1 DEF RequestTools, ToolsFound, PurgedGone
<1> QED BY <1>3, <1>5, <1>6, <1>7 DEF Lasting

\* Refreshes find living servers, and only who has found a server stores its tools.
LEMMA BackgroundLasts ==
  ASSUME GatewayTypes, Removers,
         (\E f \in Fetchers : Background(f)) \/ (\E i \in Instances : Refresh(i) \/ Stale(i))
  PROVE  Lasting
<1> USE DEF GatewayTypes
<1>1. UNCHANGED <<tableVars, task>>
  BY BackgroundSteps
<1>2. RowsLast /\ Removers'
  BY <1>1 DEF RowsLast, Live, Removers, tableVars
<1>3. ASSUME NEW f \in Fetchers, Background(f) PROVE FoundLive /\ ToolsFound /\ PurgedGone
  <2> DEFINE r == fetches[f]
  <2>1. r # None /\ r \in Fetches
    BY <1>3 DEF Background, Fetch, ListFails, StoreTools, Save, ToolsOK
  <2>2. /\ [r EXCEPT !.step = "set"] \in Fetches /\ [r EXCEPT !.step = "set"].server = r.server
        /\ [r EXCEPT !.step = "save"] \in Fetches /\ [r EXCEPT !.step = "save"].server = r.server
        /\ r.on \in Instances /\ r.server \in Servers
    BY <2>1 DEF Fetches
  <2>3. r.step # "find" => AboutToKeep(r.server)
    BY <2>1 DEF AboutToKeep
  <2>4. PICK n \in Fetches \cup {None} :
          /\ fetches' = [fetches EXCEPT ![f] = n]
          /\ n # None => n.server = r.server /\ (Live(r.server) \/ r.step # "find")
    <3>1. CASE Fetch(f)
      BY <2>2, <3>1 DEF Fetch, Fetchable
    <3>2. CASE ListFails(f) \/ Save(f)
      BY <3>2 DEF ListFails, Save
    <3>3. CASE StoreTools(f)
      BY <2>2, <3>3 DEF StoreTools
    <3> QED BY <1>3, <3>1, <3>2, <3>3 DEF Background
  <2>5. FoundLive
    BY <1>1, <2>1, <2>4, FoundWhileLive
  <2>6. UNCHANGED purged
    BY <1>3 DEF Background, Fetch, ListFails, StoreTools, Save
  <2>7. UNCHANGED tools \/ (r.step # "find" /\ tools' = [tools EXCEPT ![r.on][r.server] = "fresh"])
    BY <1>3 DEF Background, Fetch, ListFails, StoreTools, Save
  <2>8. UNCHANGED saved \/ (r.step # "find" /\ saved' = saved \cup {r.server})
    BY <1>3 DEF Background, Fetch, ListFails, StoreTools, Save
  <2> HIDE DEF r
  <2>9. ToolsFound
    <3>1. ASSUME NEW i \in Instances, NEW s \in Servers, tools'[i][s] # None
          PROVE  tools[i][s] # None \/ AboutToKeep(s)
      BY <2>2, <2>3, <2>7, <3>1, ToolMarked
    <3> QED BY <2>3, <2>8, <3>1 DEF ToolsFound
  <2> QED BY <2>5, <2>6, <2>9 DEF PurgedGone
<1>4. ASSUME NEW i \in Instances, Refresh(i) PROVE FoundLive /\ ToolsFound /\ PurgedGone
  <2>1. PICK s \in Servers, f \in Fetchers : fetches' = [fetches EXCEPT ![f] = NewFetch(i, s)]
    BY <1>4 DEF Refresh
  <2>2. NewFetch(i, s) \in Fetches /\ NewFetch(i, s).step = "find"
    BY DEF NewFetch, Fetches
  <2> QED BY <1>1, <1>4, <2>1, <2>2, FoundWhileLive DEF Refresh, ToolsFound, PurgedGone
<1>5. ASSUME NEW i \in Instances, Stale(i) PROVE FoundLive /\ ToolsFound /\ PurgedGone
  <2>1. PICK s \in Servers : tools[i][s] = "fresh" /\ tools' = [tools EXCEPT ![i][s] = "stale"]
    BY <1>5 DEF Stale
  <2>2. UNCHANGED <<saved, fetches, purged>>
    BY <1>5 DEF Stale
  <2>3. \A j \in Instances, x \in Servers : tools'[j][x] # None => tools[j][x] # None
    BY <2>1, ToolMarked, ServersAssumption
  <2> QED BY <1>1, <2>2, <2>3, FoundWhileLive DEF ToolsFound, PurgedGone
<1> QED BY <1>2, <1>3, <1>4, <1>5 DEF Lasting

\* A handler that lists tools has found a living server, and one that has dropped the
\* tools of a server marks it only if nobody is about to store them.
LEMMA ToolsLast ==
  ASSUME GatewayTypes, Removers, NEW w \in Callers, ServerSteps(w)
  PROVE  Lasting
<1> DEFINE t == task[w]
<1> USE DEF GatewayTypes
<1>1. t \in Tasks
  BY DEF TasksOK
<1>2. PICK u \in Tasks : Handles(w, u) /\ ToolTask(w, u)
  BY ToolTasks
<1>3. UNCHANGED rows
  BY <1>2 DEF ToolTask, Unsave, tableVars
<1>4. RowsLast
  BY <1>3 DEF RowsLast, Live
<1>5. Become(w, u) /\ (u.step = "list" => Live(u.server))
  BY <1>2 DEF ToolTask, Handles
<1>6. u.step \in {"forget", "unsave"} => rows'[u.server] # None
  BY <1>2, <1>3 DEF ToolTask, Removers
<1>7. Removers'
  BY <1>4, <1>5, <1>6, RemoversSee
<1>8. FoundLive
  <2>1. \A i \in Instances, s \in Servers : NewFetch(i, s) \in Fetches /\ NewFetch(i, s).step = "find"
    BY DEF NewFetch, Fetches
  <2>2. \/ UNCHANGED fetches
        \/ \E f \in Fetchers, r \in Fetches \cup {None} :
              fetches' = [fetches EXCEPT ![f] = r] /\ ~(r # None /\ r.step # "find")
    <3>1. CASE Spawn(w)
      <4>1. t.on \in Instances /\ t.fetch \in Servers
        BY <1>1, <3>1, Shapes DEF Spawn, SpawnTasks
      <4>2. PICK f \in Fetchers : fetches' = [fetches EXCEPT ![f] = NewFetch(t.on, t.fetch)]
        BY <3>1 DEF Spawn
      <4>3. NewFetch(t.on, t.fetch) \in Fetches /\ NewFetch(t.on, t.fetch).step = "find"
        BY <2>1, <4>1
      <4> QED BY <4>2, <4>3
    <3>2. CASE ~Spawn(w)
      BY <3>2 DEF ServerSteps, GetFresh, LockTools, ListTools, Listed, Invalidate, Unsave, toolVars
    <3> QED BY <3>1, <3>2
  <2> QED BY <1>5, <2>2, FoundWhileLive
<1> HIDE DEF t
<1>9. CASE ListTools(w)
  <2>1. t \in ListTasks /\ t.on \in Instances /\ t.server \in Servers /\ t.step = "list"
    BY <1>1, <1>9, Shapes DEF ListTools, ListTasks, t
  <2>2. AboutToKeep(t.server)
    BY <2>1 DEF AboutToKeep, t
  <2>3. UNCHANGED purged
    BY <1>9 DEF ListTools
  <2>4. \/ tools' = [tools EXCEPT ![t.on][t.server] = "fresh"] /\ saved' \in {saved, saved \cup {t.server}}
        \/ UNCHANGED <<tools, saved>>
    BY <1>9 DEF ListTools, t
  <2>5. ASSUME NEW i \in Instances, NEW s \in Servers, tools'[i][s] # None
        PROVE  tools[i][s] # None \/ AboutToKeep(s)
    BY <2>1, <2>2, <2>4, <2>5, ToolMarked
  <2>6. ToolsFound /\ PurgedGone
    BY <2>2, <2>3, <2>4, <2>5 DEF ToolsFound, PurgedGone
  <2> QED BY <1>4, <1>7, <1>8, <2>6 DEF Lasting
<1>10. CASE Invalidate(w)
  <2>1. t \in ForgetTasks /\ t.on \in Instances /\ t.server \in Servers
    BY <1>1, <1>10, Shapes DEF Invalidate, ForgetTasks, t
  <2>2. UNCHANGED <<saved, purged>> /\ tools' = [tools EXCEPT ![t.on][t.server] = None]
    BY <1>10 DEF Invalidate, t
  <2>3. \A i \in Instances, s \in Servers : tools'[i][s] # None => tools[i][s] # None
    BY <2>1, <2>2, ToolMarked
  <2> QED BY <1>4, <1>7, <1>8, <2>2, <2>3 DEF Lasting, ToolsFound, PurgedGone
<1>11. CASE Unsave(w)
  <2>1. t \in ForgetTasks /\ t.on \in Instances /\ t.server \in Servers /\ t.step = "unsave"
    BY <1>1, <1>11, Shapes DEF Unsave, ForgetTasks, t
  <2>2. UNCHANGED tools /\ saved' \in {saved, saved \ {t.server}}
    BY <1>11 DEF Unsave, t
  <2>3. rows[t.server] # None
    BY <2>1 DEF Removers, t
  <2>4. purged' = IF Live(t.server) \/ t.server \in saved' \/ AboutToKeep(t.server) \/ tools[t.on][t.server] # None
                  THEN purged ELSE [purged EXCEPT ![t.on] = @ \cup {t.server}]
    BY <1>11 DEF Unsave, t
  <2>5. PurgedGone
    <3>1. CASE purged' = purged
      BY <3>1 DEF PurgedGone
    <3>2. CASE purged' # purged
      <4>1. /\ ~Live(t.server) /\ t.server \notin saved' /\ ~AboutToKeep(t.server)
            /\ tools'[t.on][t.server] = None /\ purged' = [purged EXCEPT ![t.on] = @ \cup {t.server}]
        BY <2>2, <2>4, <3>2
      <4>2. \A i \in Instances : \A s \in purged'[i] : s \in purged[i] \/ (i = t.on /\ s = t.server)
        BY <2>1, <4>1 DEF ToolsOK
      <4> QED BY <2>3, <4>1, <4>2 DEF PurgedGone
    <3> QED BY <3>1, <3>2
  <2>6. ToolsFound
    BY <2>2 DEF ToolsFound
  <2> QED BY <1>4, <1>7, <1>8, <2>5, <2>6 DEF Lasting
<1>12. CASE GetFresh(w) \/ LockTools(w) \/ Listed(w) \/ Spawn(w)
  <2>1. UNCHANGED <<tools, saved, purged>>
    BY <1>12 DEF GetFresh, LockTools, Listed, Spawn, toolVars
  <2>2. ToolsFound /\ PurgedGone
    BY <2>1 DEF ToolsFound, PurgedGone
  <2> QED BY <1>4, <1>7, <1>8, <2>2 DEF Lasting
<1> QED BY <1>9, <1>10, <1>11, <1>12 DEF ServerSteps

\* A start brings back the saved tools, of which none are of a purged server.
LEMMA RestartLasts ==
  ASSUME GatewayTypes, Removers, NEW i \in Instances, Restart(i)
  PROVE  Lasting
<1> USE DEF GatewayTypes
<1>1. RowsLast
  <2>1. \A s \in Servers : rows[s] # None => rows'[s] # None /\ (~rows[s].live => ~rows'[s].live)
    BY StartRows DEF Restart, TablesOK
  <2> QED BY <2>1 DEF RowsLast, Live
<1>2. \A w \in Callers : task'[w] \in {Idle, task[w]}
  BY RestartLeaves
<1>3. FoundLive
  <2>1. \A f \in Fetchers : fetches'[f] \in {None, fetches[f]}
    BY DEF Restart
  <2> QED BY <1>2, <2>1 DEF FoundLive, AboutToKeep, Idle
<1>4. Removers'
  <2> SUFFICES ASSUME NEW w \in Callers, task'[w].step \in {"forget", "unsave"}
               PROVE  rows'[task'[w].server] # None
    BY DEF Removers
  <2>1. task'[w] = task[w]
    BY <1>2 DEF Idle
  <2>2. task[w] \in ForgetTasks
    BY <2>1, Shapes DEF TasksOK
  <2> QED BY <1>1, <2>1, <2>2 DEF Removers, RowsLast, ForgetTasks
<1>5. ToolsFound /\ PurgedGone
  <2>1. UNCHANGED <<saved, purged>> /\ tools' = [tools EXCEPT ![i] = [s \in Servers |-> IF s \in saved THEN "stale" ELSE None]]
    BY DEF Restart
  <2>2. \A j \in Instances, s \in Servers : tools'[j][s] # None => tools[j][s] # None \/ s \in saved
    BY <2>1 DEF ToolsOK
  <2> QED BY <2>1, <2>2 DEF ToolsFound, PurgedGone
<1> QED BY <1>1, <1>3, <1>4, <1>5 DEF Lasting

\* The tools of a deleted server stay away once they are dropped: no refresh that has
\* yet to find the server, no listing of its tools and no start of an instance
\* brings them back, in memory or in the database.
THEOREM PurgesLast == Spec => []PurgedStaysGone
<1>1. Init => PurgedInv
  BY DEF Init, TablesInit, ToolsInit, PurgedInv, Idle
<1>2. GatewayTypes /\ PurgedInv /\ [Next]_vars => PurgedInv'
  <2> SUFFICES ASSUME GatewayTypes, PurgedInv, [Next]_vars PROVE PurgedInv'
    OBVIOUS
  <2>1. Removers
    BY DEF PurgedInv, Removers
  <2>2. CASE Forget \/ UNCHANGED vars
    <3>1. UNCHANGED <<rows, toolVars, task>>
      BY <2>2 DEF Forget, Rest, vars, tableVars
    <3> QED BY <2>1, <3>1, QuietLasts, LastingKeepsPurged, GatewayTypesKept DEF GatewayTypes
  <2>3. ASSUME Next, ~Forget PROVE Lasting
    BY <2>1, <2>3, TablesLast, CallsLast, RequestsLast, ToolsLast, BackgroundLasts, RestartLasts DEF Next
  <2> QED BY <2>2, <2>3, LastingKeepsPurged, GatewayTypesKept DEF GatewayTypes
<1>3. PurgedInv => PurgedStaysGone
  BY DEF PurgedInv, PurgedStaysGone
<1> QED BY <1>1, <1>2, <1>3, TypesKept, PTL DEF Spec

-----------------------------------------------------------------------------
(* The sessions of an alias.                                               *)

\* A step of one caller, with what it may do to sessions that are not its own.
LEMMA NewSessionsKept ==
  ASSUME GatewayTypes, NewSessions, NEW w \in Callers, NEW t, t = task[w],
         NEW u, task'[w] = u, \A v \in Callers \ {w} : task'[v] = task[v],
         opened' \in {opened, opened + 1},
         \A i \in Instances, a \in Aliases :
            /\ refused[i][a] \subseteq 0..opened
            /\ sessions'[i][a] \in {0, sessions[i][a]} \/ (t.step \in Calling /\ sessions'[i][a] = t.sid)
            /\ \A n \in refused'[i][a] : n \in refused[i][a] \/ (t.step \in Calling /\ n = t.sid),
         u.step \in Calling =>
            \/ u.sid = 0 \/ (t.step \in Calling /\ u.sid = t.sid)
            \/ u.sid = opened + 1 /\ opened' = opened + 1
            \/ \E i \in Instances, a \in Aliases : u.sid = sessions[i][a],
         u.step \in {"keep", "initialized"} =>
            u.sid = opened + 1 /\ opened' = opened + 1 /\ UNCHANGED <<sessions, refused>>
  PROVE  NewSessions'
<1>1. opened \in Nat /\ \A i \in Instances, a \in Aliases : sessions[i][a] \in 0..opened
  BY CallsAssumption DEF GatewayTypes, SessionsOK
<1>2. \A v \in Callers : task[v].step \in Calling => task[v].sid \in Nat /\ task[v].sid <= opened
  <2> TAKE v \in Callers
  <2>1. task[v] \in Tasks /\ (task[v].step \in Calling => task[v].sid <= opened)
    BY DEF GatewayTypes, TasksOK, CallsOK
  <2> QED BY <2>1, Shapes DEF CallTasks
<1> SUFFICES ASSUME NEW x \in Callers, New(x)'
             PROVE  /\ task'[x].sid \in 1..opened'
                    /\ \A i \in Instances, a \in Aliases :
                          sessions'[i][a] # task'[x].sid /\ task'[x].sid \notin refused'[i][a]
                    /\ \A v \in Callers \ {x} : task'[v].step \in Calling => task'[v].sid # task'[x].sid
  BY DEF NewSessions
<1>3. CASE x = w
  <2>1. u.sid = opened + 1 /\ opened' = opened + 1 /\ UNCHANGED <<sessions, refused>>
    BY <1>3 DEF New
  <2>2. \A i \in Instances, a \in Aliases : sessions[i][a] # opened + 1 /\ opened + 1 \notin refused[i][a]
    BY <1>1
  <2> QED BY <1>1, <1>2, <1>3, <2>1, <2>2
<1>4. CASE x # w
  <2>1. task'[x] = task[x] /\ New(x)
    BY <1>4 DEF New
  <2>2. task[x].sid \in 1..opened
    BY <2>1 DEF NewSessions
  <2>3. /\ \A i \in Instances, a \in Aliases :
             sessions[i][a] # task[x].sid /\ task[x].sid \notin refused[i][a]
        /\ \A v \in Callers \ {x} : task[v].step \in Calling => task[v].sid # task[x].sid
    BY <2>1 DEF NewSessions
  <2>4. t.step \in Calling => t.sid # task[x].sid
    BY <1>4, <2>3
  <2>5. u.step \in Calling => u.sid # task[x].sid
    BY <1>1, <2>2, <2>3, <2>4
  <2>6. \A i \in Instances, a \in Aliases :
           sessions'[i][a] # task[x].sid /\ task[x].sid \notin refused'[i][a]
    BY <2>2, <2>3, <2>4
  <2>7. task[x].sid \in 1..opened'
    BY <1>1, <2>2
  <2> QED BY <2>1, <2>3, <2>5, <2>6, <2>7
<1> QED BY <1>3, <1>4

\* An alias whose session is not newly to be replaced.
LEMMA BalancedSame ==
  ASSUME NEW i \in Instances, NEW a \in Aliases, Balanced(i, a),
         refused'[i][a] = refused[i][a], reopened'[i][a] = reopened[i][a], Spare(i, a)' => Spare(i, a)
  PROVE  Balanced(i, a)'
BY DEF Balanced

\* A step that opens, stores and replaces no session.
LEMMA NoSessionChanged ==
  ASSUME GatewayTypes, SessionsInv, UNCHANGED <<sessions, opened, reinit, refused, reopened>>,
         \A w \in Callers :
            /\ task'[w].step \in Calling => task'[w] = task[w]
            /\ task[w].step \in {"init", "initialized"} => task'[w] = task[w]
  PROVE  SessionsInv'
<1> USE DEF SessionsInv
<1>1. NewSessions'
  BY DEF NewSessions, New, Calling
<1>2. \A i \in Instances : reinit[i] # None => reinit[i] \in Callers /\ task'[reinit[i]] = task[reinit[i]]
  BY DEF LockHeld, GatewayTypes, SessionsOK
<1>3. LockHeld'
  <2>1. \A i \in Instances : reinit[i] # None =>
           task'[reinit[i]].step \in {"init", "initialized"} /\ task'[reinit[i]].on = i
    BY <1>2 DEF LockHeld
  <2>2. \A w \in Callers : task'[w].step \in {"init", "initialized"} => reinit[task'[w].on] = w
    BY DEF LockHeld, Calling
  <2>3. \A w \in Callers : task'[w].step \in {"expired", "init"} =>
           task'[w].sid \in refused[task'[w].on][task'[w].alias]
    BY DEF LockHeld, Calling
  <2> QED BY <2>1, <2>2, <2>3 DEF LockHeld
<1>4. ASSUME NEW i \in Instances, NEW a \in Aliases PROVE Balanced(i, a)' /\ refused'[i][a] \subseteq 0..opened'
  <2>1. Spare(i, a)' = Spare(i, a)
    BY <1>2 DEF Spare, Reopening
  <2> QED BY <2>1, BalancedSame
<1> QED BY <1>1, <1>3, <1>4

\* What a caller in a call is, and what the sessions are at that time.
LEMMA InCall ==
  ASSUME GatewayTypes, SessionsInv, NEW w \in Callers, task[w].step \in Calling
  PROVE  /\ task[w] \in CallTasks /\ task[w].on \in Instances /\ task[w].alias \in Aliases
         /\ task[w].sid \in 0..opened /\ opened \in Nat
         /\ task[w].step \in {"init", "initialized"} => reinit[task[w].on] = w
         /\ reinit[task[w].on] = w => task[w].step \in {"init", "initialized"}
         /\ \A i \in Instances : reinit[i] = w => i = task[w].on
         /\ \A i \in Instances, a \in Aliases :
               /\ refused[i][a] \subseteq 0..opened /\ IsFiniteSet(refused[i][a]) /\ Balanced(i, a)
               /\ reopened[i][a] \in Nat /\ Cardinality(refused[i][a]) \in Nat
         /\ w # None
<1>1. task[w] \in Tasks /\ task[w].sid <= opened
  BY DEF GatewayTypes, TasksOK, CallsOK
<1>2. task[w] \in CallTasks /\ opened \in Nat
  BY <1>1, Shapes, CallsAssumption DEF GatewayTypes, SessionsOK
<1>3. task[w].on \in Instances /\ task[w].alias \in Aliases /\ task[w].sid \in 0..opened
  BY <1>1, <1>2 DEF CallTasks
<1>4. w # None
  BY ServersAssumption
<1>5. /\ task[w].step \in {"init", "initialized"} => reinit[task[w].on] = w
      /\ \A i \in Instances : reinit[i] = w => i = task[w].on /\ task[w].step \in {"init", "initialized"}
  BY <1>4 DEF SessionsInv, LockHeld
<1>6. ASSUME NEW i \in Instances, NEW a \in Aliases
      PROVE  /\ refused[i][a] \subseteq 0..opened /\ IsFiniteSet(refused[i][a]) /\ Balanced(i, a)
             /\ reopened[i][a] \in Nat /\ Cardinality(refused[i][a]) \in Nat
  BY FS_CardinalityType DEF SessionsInv, Balanced, GatewayTypes, SessionsOK
<1> QED BY <1>2, <1>3, <1>4, <1>5, <1>6

\* One cell of a table of two dimensions is set.
LEMMA CellSet ==
  ASSUME NEW S, NEW T, NEW V, NEW f \in [S -> [T -> V]], NEW x \in S, NEW y \in T, NEW v,
         NEW g, g = [f EXCEPT ![x][y] = v]
  PROVE  \A p \in S, q \in T : g[p][q] = IF p = x /\ q = y THEN v ELSE f[p][q]
<1>1. f[x] \in [T -> V]
  OBVIOUS
<1>2. \A q \in T : [f[x] EXCEPT ![y] = v][q] = IF q = y THEN v ELSE f[x][q]
  BY <1>1
<1>3. \A p \in S : g[p] = IF p = x THEN [f[x] EXCEPT ![y] = v] ELSE f[p]
  OBVIOUS
<1> QED BY <1>2, <1>3

\* A session is opened: by a call that asked for it, or in the place of another.
LEMMA SessionOpened ==
  ASSUME GatewayTypes, SessionsInv, NEW w \in Callers, Opened(w) \/ Initialize(w)
  PROVE  SessionsInv'
<1> DEFINE t == task[w]
           i == t.on
           a == t.alias
<1>1. t.step \in Calling
  BY DEF Opened, Initialize, Doing, Calling
<1> USE InCall
<1> DEFINE u == [t EXCEPT !.step = IF t.step = "call" THEN "keep" ELSE "initialized", !.sid = opened + 1]
<1>2. /\ UNCHANGED <<sessions, reinit, refused>> /\ opened' = opened + 1
      /\ task' = [task EXCEPT ![w] = u]
      /\ \/ t.step = "call" /\ UNCHANGED reopened
         \/ t.step = "init" /\ reopened' = [reopened EXCEPT ![i][a] = @ + 1]
  BY DEF Opened, Initialize, Doing, Open, Become
<1>3. /\ u.step = IF t.step = "call" THEN "keep" ELSE "initialized"
      /\ u.sid = opened + 1 /\ u.on = i /\ u.alias = a
  BY <1>1 DEF CallTasks
<1> HIDE DEF u
<1>4. task'[w] = u /\ \A v \in Callers \ {w} : task'[v] = task[v]
  BY <1>2 DEF GatewayTypes, TasksOK
<1>8. \/ t.step = "call" /\ UNCHANGED reopened
      \/ /\ t.step = "init"
         /\ \A j \in Instances, b \in Aliases :
               reopened'[j][b] = IF j = i /\ b = a THEN reopened[i][a] + 1 ELSE reopened[j][b]
  <2> DEFINE OneMore == \A j \in Instances, b \in Aliases :
                reopened'[j][b] = IF j = i /\ b = a THEN reopened[i][a] + 1 ELSE reopened[j][b]
  <2>1. reopened \in [Instances -> [Aliases -> Nat]] /\ i \in Instances /\ a \in Aliases
    BY <1>1 DEF GatewayTypes, SessionsOK
  <2>2. ASSUME reopened' = [reopened EXCEPT ![i][a] = @ + 1]
        PROVE  OneMore
    <3>1. reopened' = [reopened EXCEPT ![i][a] = reopened[i][a] + 1]
      BY <2>2
    <3> HIDE DEF i, a
    <3> QED BY <2>1, <3>1, CellSet
  <2>3. CASE t.step = "call" /\ UNCHANGED reopened
    BY <2>3
  <2>4. CASE t.step = "init" /\ reopened' = [reopened EXCEPT ![i][a] = @ + 1]
    <3>1. OneMore
      BY <2>2, <2>4
    <3> QED BY <2>4, <3>1
  <2> HIDE DEF OneMore
  <2> QED BY <1>2, <2>3, <2>4
<1>5. NewSessions'
  <2>1. u.step \in {"keep", "initialized"} /\ t.step \in {"call", "init"}
    BY <1>2, <1>3
  <2> QED BY <1>1, <1>2, <1>3, <1>4, <2>1, NewSessionsKept DEF SessionsInv
<1>6. LockHeld'
  <2>1. ASSUME NEW j \in Instances, reinit[j] # None
        PROVE  task'[reinit[j]].step \in {"init", "initialized"} /\ task'[reinit[j]].on = j
    <3>1. reinit[j] \in Callers /\ task[reinit[j]].step \in {"init", "initialized"} /\ task[reinit[j]].on = j
      BY <2>1 DEF SessionsInv, LockHeld, GatewayTypes, SessionsOK
    <3> QED BY <1>2, <1>3, <1>4, <3>1
  <2>2. \A v \in Callers : task'[v].step \in {"init", "initialized"} => reinit[task'[v].on] = v
    BY <1>1, <1>2, <1>3, <1>4 DEF SessionsInv, LockHeld
  <2>3. \A v \in Callers : task'[v].step \in {"expired", "init"} =>
           task'[v].sid \in refused[task'[v].on][task'[v].alias]
    BY <1>3, <1>4 DEF SessionsInv, LockHeld
  <2> QED BY <1>2, <2>1, <2>2, <2>3 DEF LockHeld
<1>7. ASSUME NEW j \in Instances, NEW b \in Aliases PROVE Balanced(j, b)' /\ refused'[j][b] \subseteq 0..opened'
  <2>1. refused'[j][b] \subseteq 0..opened'
    BY <1>1, <1>2
  <2>2. reinit[j] # None => reinit[j] \in Callers
    BY DEF GatewayTypes, SessionsOK
  <2>3. CASE reinit[j] # w
    <3>1. Spare(j, b)' = Spare(j, b)
      BY <1>2, <1>4, <2>2, <2>3 DEF Spare, Reopening
    <3>2. reopened'[j][b] = reopened[j][b]
      <4>1. t.step = "init" => j # i
        BY <1>1, <2>3
      <4> QED BY <1>8, <4>1
    <3> QED BY <1>1, <1>2, <2>1, <3>1, <3>2, BalancedSame
  <2>4. CASE reinit[j] = w
    <3>1. j = i /\ t.step = "init" /\ w # None
      BY <1>1, <1>2, <2>4
    <3>2. CASE b # a
      <4>1. Spare(j, b)' = Spare(j, b)
        BY <1>2, <1>3, <1>4, <2>4, <3>1, <3>2 DEF Spare, Reopening
      <4>2. reopened'[j][b] = reopened[j][b]
        BY <1>8, <3>2
      <4> QED BY <1>1, <1>2, <2>1, <4>1, <4>2, BalancedSame
    <3>3. CASE b = a
      <4>1. Spare(j, b)
        BY <2>4, <3>1, <3>3 DEF Spare, Reopening
      <4>2. t.sid \in refused[j][b]
        BY <3>1, <3>3 DEF SessionsInv, LockHeld
      <4>3. reopened[j][b] < Cardinality(refused[j][b])
        BY <1>1, <4>1, <4>2 DEF Balanced
      <4>4. reopened'[j][b] = reopened[j][b] + 1
        BY <1>8, <3>1, <3>3
      <4>5. ~Spare(j, b)'
        BY <1>2, <1>3, <1>4, <2>4, <3>1, <3>3 DEF Spare, Reopening
      <4> QED BY <1>1, <1>2, <2>1, <4>3, <4>4, <4>5 DEF Balanced
    <3> QED BY <3>2, <3>3
  <2> QED BY <2>3, <2>4
<1> QED BY <1>5, <1>6, <1>7 DEF SessionsInv

\* Nothing has changed for an alias: neither its sessions nor who replaces one.
LEMMA SpareSame ==
  ASSUME NEW i \in Instances, NEW a \in Aliases, reinit'[i] = reinit[i],
         sessions'[i][a] = sessions[i][a], refused'[i][a] = refused[i][a],
         reinit[i] # None => task'[reinit[i]] = task[reinit[i]]
  PROVE  Spare(i, a)' = Spare(i, a)
BY DEF Spare, Reopening

\* A session is refused: one more to be replaced, if it was not refused before.
LEMMA SessionRefused ==
  ASSUME GatewayTypes, SessionsInv, NEW w \in Callers, Refused(w)
  PROVE  SessionsInv'
<1> DEFINE t == task[w]
           i == t.on
           a == t.alias
           u == [t EXCEPT !.step = "expired"]
<1>1. t.step = "call" /\ t.step \in Calling
  BY DEF Refused, Doing, Calling
<1> USE InCall
<1>2. /\ UNCHANGED <<sessions, reinit, opened, reopened>> /\ task' = [task EXCEPT ![w] = u]
      /\ refused' = [refused EXCEPT ![i][a] = @ \cup {t.sid}]
  BY DEF Refused, Become
<1>3. u.step = "expired" /\ u.sid = t.sid /\ u.on = i /\ u.alias = a
  BY <1>1 DEF CallTasks
<1> HIDE DEF u
<1>4. task'[w] = u /\ \A v \in Callers \ {w} : task'[v] = task[v]
  BY <1>2 DEF GatewayTypes, TasksOK
<1>5. \A j \in Instances, b \in Aliases :
         refused'[j][b] = IF j = i /\ b = a THEN refused[i][a] \cup {t.sid} ELSE refused[j][b]
  <2>1. refused \in [Instances -> [Aliases -> SUBSET Nat]] /\ i \in Instances /\ a \in Aliases
    BY <1>1 DEF GatewayTypes, SessionsOK
  <2>2. refused' = [refused EXCEPT ![i][a] = refused[i][a] \cup {t.sid}]
    BY <1>2
  <2> HIDE DEF i, a
  <2> QED BY <2>1, <2>2, CellSet
<1>6. NewSessions'
  <2>1. \A j \in Instances, b \in Aliases :
           /\ refused[j][b] \subseteq 0..opened /\ sessions'[j][b] = sessions[j][b]
           /\ \A n \in refused'[j][b] : n \in refused[j][b] \/ n = t.sid
    BY <1>1, <1>2, <1>5
  <2>2. u.step \notin {"keep", "initialized"} /\ u.sid = t.sid /\ opened' = opened
    BY <1>2, <1>3
  <2> QED BY <1>1, <1>4, <2>1, <2>2, NewSessionsKept DEF SessionsInv
<1>7. LockHeld'
  <2>1. ASSUME NEW j \in Instances, reinit[j] # None
        PROVE  task'[reinit[j]].step \in {"init", "initialized"} /\ task'[reinit[j]].on = j
    <3>1. reinit[j] \in Callers /\ task[reinit[j]].step \in {"init", "initialized"} /\ task[reinit[j]].on = j
      BY <2>1 DEF SessionsInv, LockHeld, GatewayTypes, SessionsOK
    <3> QED BY <1>1, <1>4, <3>1
  <2>2. \A v \in Callers : task'[v].step \in {"init", "initialized"} => reinit[task'[v].on] = v
    BY <1>3, <1>4 DEF SessionsInv, LockHeld
  <2>3. ASSUME NEW v \in Callers, task'[v].step \in {"expired", "init"}
        PROVE  task'[v].sid \in refused'[task'[v].on][task'[v].alias]
    <3>1. CASE v = w
      BY <1>1, <1>3, <1>4, <1>5, <3>1
    <3>2. CASE v # w
      <4>1. task'[v] = task[v] /\ task[v].step \in Calling
        BY <1>4, <2>3, <3>2 DEF Calling
      <4>2. task[v].on \in Instances /\ task[v].alias \in Aliases
        BY <4>1
      <4>3. task[v].sid \in refused[task[v].on][task[v].alias]
        BY <2>3, <4>1 DEF SessionsInv, LockHeld
      <4> QED BY <1>5, <4>1, <4>2, <4>3
    <3> QED BY <3>1, <3>2
  <2> QED BY <1>2, <2>1, <2>2, <2>3 DEF LockHeld
<1>8. ASSUME NEW j \in Instances, NEW b \in Aliases PROVE Balanced(j, b)' /\ refused'[j][b] \subseteq 0..opened'
  <2>1. refused'[j][b] \subseteq 0..opened'
    BY <1>1, <1>2, <1>5
  <2>2. reinit[j] # None => reinit[j] \in Callers /\ task'[reinit[j]] = task[reinit[j]]
    <3>1. reinit[j] # w
      BY <1>1 DEF SessionsInv, LockHeld
    <3>2. reinit[j] \in Callers \cup {None}
      BY DEF GatewayTypes, SessionsOK
    <3> QED BY <1>4, <3>1, <3>2
  <2>3. CASE refused'[j][b] = refused[j][b]
    <3>1. Spare(j, b)' = Spare(j, b)
      BY <1>2, <2>2, <2>3, SpareSame
    <3> QED BY ZenonT(30), <1>1, <1>2, <2>1, <2>3, <3>1, BalancedSame
  <2>4. CASE refused'[j][b] # refused[j][b]
    <3>1. refused'[j][b] = refused[j][b] \cup {t.sid} /\ t.sid \notin refused[j][b]
      <4>1. j = i /\ b = a /\ refused'[j][b] = refused[j][b] \cup {t.sid}
        BY <1>5, <2>4
      <4>2. t.sid \in refused[j][b] => refused[j][b] \cup {t.sid} = refused[j][b]
        OBVIOUS
      <4> QED BY <2>4, <4>1, <4>2
    <3>2. /\ IsFiniteSet(refused'[j][b])
          /\ Cardinality(refused'[j][b]) = Cardinality(refused[j][b]) + 1
      <4> DEFINE S == refused[j][b]
                 n == t.sid
      <4>1. IsFiniteSet(S) /\ n \notin S /\ refused'[j][b] = S \cup {n}
        BY <1>1, <3>1
      <4> HIDE DEF S, n
      <4>2. IsFiniteSet(S \cup {n}) /\ Cardinality(S \cup {n}) = Cardinality(S) + 1
        BY <4>1, FS_AddElement
      <4> QED BY <4>1, <4>2 DEF S
    <3>3. reopened'[j][b] = reopened[j][b] /\ reopened[j][b] <= Cardinality(refused[j][b])
          /\ reopened[j][b] \in Nat /\ Cardinality(refused[j][b]) \in Nat
      BY <1>1, <1>2 DEF Balanced
    <3>4. reopened'[j][b] < Cardinality(refused'[j][b])
      BY <3>2, <3>3
    <3> QED BY <2>1, <3>2, <3>3, <3>4 DEF Balanced
  <2> QED BY <2>3, <2>4
<1> QED BY <1>6, <1>7, <1>8 DEF SessionsInv

\* A new session is stored, by the call that has opened it.
LEMMA SessionStored ==
  ASSUME GatewayTypes, SessionsInv, NEW w \in Callers, Keep(w) \/ Initialized(w)
  PROVE  SessionsInv'
<1> DEFINE t == task[w]
           i == t.on
           a == t.alias
           u == IF t.step = "keep" THEN Over(t) ELSE [t EXCEPT !.step = "retry"]
<1>1. t.step \in Calling /\ New(w) /\ i \in Instances /\ a \in Aliases
  <2>1. t.step \in Calling /\ New(w)
    BY DEF Keep, Initialized, Doing, Calling, New
  <2> QED BY <2>1, InCall
<1> USE InCall
<1>2. /\ UNCHANGED <<opened, refused, reopened>> /\ task' = [task EXCEPT ![w] = u]
      /\ sessions' = [sessions EXCEPT ![i][a] = t.sid]
      /\ \/ t.step = "keep" /\ UNCHANGED reinit
         \/ t.step = "initialized" /\ reinit' = [reinit EXCEPT ![i] = None]
  BY DEF Keep, Initialized, Doing, Become
<1>3. u.step \in {"idle", "run", "retry"} /\ (u.step \in Calling => u.sid = t.sid)
  <2>1. t \in CallTasks /\ Scripted(t)
    BY <1>1 DEF GatewayTypes, TasksOK
  <2>2. Over(t).step \in {"idle", "run"}
    BY <2>1, AfterCall
  <2>3. [t EXCEPT !.step = "retry"].step = "retry" /\ [t EXCEPT !.step = "retry"].sid = t.sid
    BY <2>1 DEF CallTasks
  <2> QED BY <2>2, <2>3 DEF Calling
<1> HIDE DEF u
<1>4. task'[w] = u /\ \A v \in Callers \ {w} : task'[v] = task[v]
  BY <1>2 DEF GatewayTypes, TasksOK
<1>5. \A j \in Instances, b \in Aliases :
         sessions'[j][b] = IF j = i /\ b = a THEN t.sid ELSE sessions[j][b]
  <2>1. sessions \in [Instances -> [Aliases -> 0..opened]]
    BY DEF GatewayTypes, SessionsOK
  <2> HIDE DEF i, a
  <2> QED BY <1>1, <1>2, <2>1, CellSet
<1>6. NewSessions'
  <2>1. \A j \in Instances, b \in Aliases :
           /\ refused[j][b] \subseteq 0..opened /\ refused'[j][b] = refused[j][b]
           /\ sessions'[j][b] \in {0, sessions[j][b]} \/ (t.step \in Calling /\ sessions'[j][b] = t.sid)
    BY <1>1, <1>2, <1>5
  <2>2. u.step \notin {"keep", "initialized"} /\ (u.step \in Calling => t.step \in Calling /\ u.sid = t.sid)
        /\ opened' = opened
    BY <1>1, <1>2, <1>3
  <2> QED BY <1>4, <2>1, <2>2, NewSessionsKept DEF SessionsInv
<1>7. \A j \in Instances :
         /\ reinit'[j] = IF reinit[j] = w THEN None ELSE reinit[j]
         /\ reinit[j] # None => reinit[j] \in Callers
  <2>1. w # None /\ (t.step = "initialized" => reinit[i] = w) /\ (t.step = "keep" => \A j \in Instances : reinit[j] # w)
    BY <1>1
  <2>2. \A j \in Instances : reinit[j] = w => j = i
    BY <1>1
  <2> QED BY <1>1, <1>2, <2>1, <2>2 DEF GatewayTypes, SessionsOK
<1>8. LockHeld'
  <2>1. ASSUME NEW j \in Instances, reinit'[j] # None
        PROVE  task'[reinit'[j]].step \in {"init", "initialized"} /\ task'[reinit'[j]].on = j
    <3>1. reinit'[j] = reinit[j] /\ reinit[j] # w /\ reinit[j] \in Callers
      BY <1>7, <2>1
    <3>2. task[reinit[j]].step \in {"init", "initialized"} /\ task[reinit[j]].on = j
      BY <2>1, <3>1 DEF SessionsInv, LockHeld
    <3> QED BY <1>4, <3>1, <3>2
  <2>2. ASSUME NEW v \in Callers, task'[v].step \in {"init", "initialized"}
        PROVE  reinit'[task'[v].on] = v
    <3>1. v # w /\ task'[v] = task[v]
      BY <1>3, <1>4, <2>2
    <3>2. task[v].step \in Calling
      BY <2>2, <3>1 DEF Calling
    <3>3. reinit[task[v].on] = v /\ task[v].on \in Instances
      BY <2>2, <3>1, <3>2
    <3> QED BY <1>7, <3>1, <3>3
  <2>3. \A v \in Callers : task'[v].step \in {"expired", "init"} =>
           task'[v].sid \in refused[task'[v].on][task'[v].alias]
    BY <1>3, <1>4 DEF SessionsInv, LockHeld
  <2> QED BY <1>2, <2>1, <2>2, <2>3 DEF LockHeld
<1>9. ASSUME NEW j \in Instances, NEW b \in Aliases PROVE Balanced(j, b)' /\ refused'[j][b] \subseteq 0..opened'
  <2>1. /\ refused'[j][b] \subseteq 0..opened' /\ refused'[j][b] = refused[j][b]
        /\ reopened'[j][b] = reopened[j][b]
    BY <1>1, <1>2
  <2>2. t.sid \in 1..opened /\ t.sid \notin refused[j][b] /\ sessions[j][b] # t.sid
    BY <1>1 DEF SessionsInv, NewSessions
  <2>3. CASE reinit[j] = w
    <3>1. j = i /\ ~Reopening(j, b)'
      BY <1>1, <1>7, <2>3 DEF Reopening
    <3>2. CASE b = a
      <4>1. ~Spare(j, b)'
        BY <1>5, <2>1, <2>2, <3>1, <3>2 DEF Spare
      <4> QED BY <1>1, <2>1, <4>1, BalancedSame
    <3>3. CASE b # a
      <4>1. ~Reopening(j, b) /\ sessions'[j][b] = sessions[j][b]
        BY <1>5, <2>3, <3>3 DEF Reopening
      <4>2. Spare(j, b)' = Spare(j, b)
        BY <2>1, <3>1, <4>1 DEF Spare
      <4> QED BY <1>1, <2>1, <4>2, BalancedSame
    <3> QED BY <3>2, <3>3
  <2>4. CASE reinit[j] # w
    <3>1. reinit'[j] = reinit[j] /\ (reinit[j] # None => task'[reinit[j]] = task[reinit[j]])
      BY <1>4, <1>7, <2>4
    <3>2. Reopening(j, b)' = Reopening(j, b)
      BY <3>1 DEF Reopening
    <3>3. Spare(j, b)' => Spare(j, b)
      <4>1. CASE Reopening(j, b)
        BY <3>1, <3>2, <4>1 DEF Spare, Reopening
      <4>2. CASE ~Reopening(j, b)
        <5>1. sessions'[j][b] = sessions[j][b] \/ sessions'[j][b] = t.sid
          BY <1>5
        <5>2. t.sid # 0
          BY <1>1, <2>2
        <5> QED BY <2>1, <2>2, <3>2, <4>2, <5>1, <5>2 DEF Spare
      <4> QED BY <4>1, <4>2
    <3> QED BY <1>1, <2>1, <3>3, BalancedSame
  <2> QED BY <2>3, <2>4
<1> QED BY <1>6, <1>8, <1>9 DEF SessionsInv

\* A call goes to replace a session, or finds that another has replaced it.
LEMMA SessionLocked ==
  ASSUME GatewayTypes, SessionsInv, NEW w \in Callers, Lock(w)
  PROVE  SessionsInv'
<1> DEFINE t == task[w]
           i == t.on
           a == t.alias
           late == Replaced(i, a, t.sid)
           u == [t EXCEPT !.step = IF late THEN "retry" ELSE "init"]
<1>1. t.step = "expired" /\ t.step \in Calling /\ reinit[i] = None /\ i \in Instances /\ a \in Aliases
  <2>1. t.step = "expired" /\ t.step \in Calling /\ reinit[i] = None
    BY DEF Lock, Doing, Calling
  <2> QED BY <2>1, InCall
<1> USE InCall
<1>2. /\ UNCHANGED <<opened, refused, reopened>> /\ task' = [task EXCEPT ![w] = u]
      /\ IF late THEN UNCHANGED <<sessions, reinit>>
         ELSE sessions' = [sessions EXCEPT ![i][a] = 0] /\ reinit' = [reinit EXCEPT ![i] = w]
  BY DEF Lock, Become
<1>3. /\ u.step = IF late THEN "retry" ELSE "init"
      /\ u.sid = t.sid /\ u.on = i /\ u.alias = a
  BY <1>1 DEF CallTasks
<1> HIDE DEF u
<1>4. task'[w] = u /\ \A v \in Callers \ {w} : task'[v] = task[v]
  BY <1>2 DEF GatewayTypes, TasksOK
<1>5. \A j \in Instances, b \in Aliases :
         sessions'[j][b] = IF ~late /\ j = i /\ b = a THEN 0 ELSE sessions[j][b]
  <2>1. CASE late
    BY <1>2, <2>1
  <2>2. CASE ~late
    <3>1. sessions \in [Instances -> [Aliases -> 0..opened]]
      BY DEF GatewayTypes, SessionsOK
    <3>2. sessions' = [sessions EXCEPT ![i][a] = 0]
      BY <1>2, <2>2
    <3>3. \A j \in Instances, b \in Aliases :
             sessions'[j][b] = IF j = i /\ b = a THEN 0 ELSE sessions[j][b]
      <4> HIDE DEF i, a
      <4> QED BY <1>1, <3>1, <3>2, CellSet
    <3> QED BY <2>2, <3>3
  <2> QED BY <2>1, <2>2
<1>6. \A j \in Instances :
         /\ reinit'[j] = IF ~late /\ j = i THEN w ELSE reinit[j]
         /\ reinit[j] # None => reinit[j] \in Callers \ {w}
  <2>1. \A j \in Instances : reinit[j] # w
    BY <1>1
  <2> QED BY <1>1, <1>2, <2>1 DEF GatewayTypes, SessionsOK
<1>7. t.sid \in refused[i][a]
  BY <1>1 DEF SessionsInv, LockHeld
<1>8. NewSessions'
  <2>1. \A j \in Instances, b \in Aliases :
           /\ refused[j][b] \subseteq 0..opened /\ refused'[j][b] = refused[j][b]
           /\ sessions'[j][b] \in {0, sessions[j][b]}
    BY <1>1, <1>2, <1>5
  <2>2. u.step \notin {"keep", "initialized"} /\ u.sid = t.sid /\ opened' = opened
    BY <1>2, <1>3
  <2> QED BY <1>1, <1>4, <2>1, <2>2, NewSessionsKept DEF SessionsInv
<1>9. LockHeld'
  <2>1. ASSUME NEW j \in Instances, reinit'[j] # None
        PROVE  task'[reinit'[j]].step \in {"init", "initialized"} /\ task'[reinit'[j]].on = j
    <3>1. CASE ~late /\ j = i
      BY <1>3, <1>4, <1>6, <3>1
    <3>2. CASE ~(~late /\ j = i)
      <4>1. reinit'[j] = reinit[j] /\ reinit[j] \in Callers \ {w}
        BY <1>6, <2>1, <3>2
      <4>2. task[reinit[j]].step \in {"init", "initialized"} /\ task[reinit[j]].on = j
        BY <2>1, <4>1 DEF SessionsInv, LockHeld
      <4> QED BY <1>4, <4>1, <4>2
    <3> QED BY <3>1, <3>2
  <2>2. ASSUME NEW v \in Callers, task'[v].step \in {"init", "initialized"}
        PROVE  reinit'[task'[v].on] = v
    <3>1. CASE v = w
      BY <1>1, <1>3, <1>4, <1>6, <2>2, <3>1
    <3>2. CASE v # w
      <4>1. task'[v] = task[v] /\ task[v].step \in Calling
        BY <1>4, <2>2, <3>2 DEF Calling
      <4>2. reinit[task[v].on] = v /\ task[v].on \in Instances /\ v # None
        BY <2>2, <4>1
      <4>3. task[v].on # i
        BY <1>1, <4>2
      <4> QED BY <1>6, <4>1, <4>2, <4>3
    <3> QED BY <3>1, <3>2
  <2>3. \A v \in Callers : task'[v].step \in {"expired", "init"} =>
           task'[v].sid \in refused[task'[v].on][task'[v].alias]
    BY <1>3, <1>4, <1>7 DEF SessionsInv, LockHeld
  <2> QED BY <1>2, <2>1, <2>2, <2>3 DEF LockHeld
<1>10. ASSUME NEW j \in Instances, NEW b \in Aliases PROVE Balanced(j, b)' /\ refused'[j][b] \subseteq 0..opened'
  <2>1. /\ refused'[j][b] \subseteq 0..opened' /\ refused'[j][b] = refused[j][b]
        /\ reopened'[j][b] = reopened[j][b]
    BY <1>1, <1>2
  <2>2. CASE ~late /\ j = i /\ b = a
    <3>1. ~Reopening(j, b) /\ sessions[j][b] \in {0, t.sid}
      BY <1>1, <2>2 DEF Reopening, Replaced
    <3>2. Spare(j, b)
      BY <1>7, <2>2, <3>1 DEF Spare
    <3> QED BY <1>1, <2>1, <3>2, BalancedSame
  <2>3. CASE ~late /\ j = i /\ b # a
    <3>1. ~Reopening(j, b) /\ ~Reopening(j, b)' /\ sessions'[j][b] = sessions[j][b]
      BY <1>1, <1>3, <1>4, <1>5, <1>6, <2>3 DEF Reopening
    <3>2. Spare(j, b)' = Spare(j, b)
      BY <2>1, <3>1 DEF Spare
    <3> QED BY <1>1, <2>1, <3>2, BalancedSame
  <2>4. CASE late \/ j # i
    <3>1. /\ reinit'[j] = reinit[j] /\ sessions'[j][b] = sessions[j][b]
          /\ reinit[j] # None => task'[reinit[j]] = task[reinit[j]]
      BY <1>4, <1>5, <1>6, <2>4
    <3>2. Spare(j, b)' = Spare(j, b)
      BY <2>1, <3>1, SpareSame
    <3> QED BY <1>1, <2>1, <3>2, BalancedSame
  <2> QED BY <2>2, <2>3, <2>4
<1> QED BY <1>8, <1>9, <1>10 DEF SessionsInv

\* A session could not be replaced, and the next call may do it.
LEMMA SessionNotReplaced ==
  ASSUME GatewayTypes, SessionsInv, NEW w \in Callers, InitializeFails(w)
  PROVE  SessionsInv'
<1> DEFINE t == task[w]
           i == t.on
           a == t.alias
           u == Over(t)
<1>1. t.step = "init" /\ t.step \in Calling /\ i \in Instances /\ a \in Aliases /\ reinit[i] = w
  <2>1. t.step = "init" /\ t.step \in Calling
    BY DEF InitializeFails, Doing, Calling
  <2> QED BY <2>1, InCall
<1> USE InCall
<1>2. /\ UNCHANGED <<sessions, opened, refused, reopened>> /\ task' = [task EXCEPT ![w] = u]
      /\ reinit' = [reinit EXCEPT ![i] = None]
  BY DEF InitializeFails, Become
<1>3. u.step \in {"idle", "run"}
  <2>1. t \in CallTasks /\ Scripted(t)
    BY <1>1 DEF GatewayTypes, TasksOK
  <2> QED BY <2>1, AfterCall
<1> HIDE DEF u
<1>4. task'[w] = u /\ \A v \in Callers \ {w} : task'[v] = task[v]
  BY <1>2 DEF GatewayTypes, TasksOK
<1>5. \A j \in Instances :
         /\ reinit'[j] = IF j = i THEN None ELSE reinit[j]
         /\ reinit[j] = w => j = i
         /\ reinit[j] # None => reinit[j] \in Callers
  <2>1. \A j \in Instances : reinit[j] = w => j = i
    BY <1>1
  <2> QED BY <1>1, <1>2, <2>1 DEF GatewayTypes, SessionsOK
<1>6. NewSessions'
  <2>1. \A j \in Instances, b \in Aliases :
           /\ refused[j][b] \subseteq 0..opened /\ refused'[j][b] = refused[j][b]
           /\ sessions'[j][b] \in {0, sessions[j][b]}
    BY <1>1, <1>2
  <2>2. u.step \notin {"keep", "initialized"} /\ u.step \notin Calling /\ opened' = opened
    BY <1>2, <1>3 DEF Calling
  <2> QED BY <1>4, <2>1, <2>2, NewSessionsKept DEF SessionsInv
<1>7. LockHeld'
  <2>1. ASSUME NEW j \in Instances, reinit'[j] # None
        PROVE  task'[reinit'[j]].step \in {"init", "initialized"} /\ task'[reinit'[j]].on = j
    <3>1. reinit'[j] = reinit[j] /\ reinit[j] \in Callers \ {w}
      BY <1>5, <2>1
    <3>2. task[reinit[j]].step \in {"init", "initialized"} /\ task[reinit[j]].on = j
      BY <2>1, <3>1 DEF SessionsInv, LockHeld
    <3> QED BY <1>4, <3>1, <3>2
  <2>2. ASSUME NEW v \in Callers, task'[v].step \in {"init", "initialized"}
        PROVE  reinit'[task'[v].on] = v
    <3>1. v # w /\ task'[v] = task[v]
      BY <1>3, <1>4, <2>2
    <3>2. task[v].step \in Calling
      BY <2>2, <3>1 DEF Calling
    <3>3. reinit[task[v].on] = v /\ task[v].on \in Instances
      BY <2>2, <3>1, <3>2
    <3>4. task[v].on # i
      BY <1>1, <3>1, <3>3
    <3> QED BY <1>5, <3>1, <3>3, <3>4
  <2>3. \A v \in Callers : task'[v].step \in {"expired", "init"} =>
           task'[v].sid \in refused[task'[v].on][task'[v].alias]
    BY <1>3, <1>4 DEF SessionsInv, LockHeld
  <2> QED BY <1>2, <2>1, <2>2, <2>3 DEF LockHeld
<1>8. ASSUME NEW j \in Instances, NEW b \in Aliases PROVE Balanced(j, b)' /\ refused'[j][b] \subseteq 0..opened'
  <2>1. /\ refused'[j][b] \subseteq 0..opened' /\ refused'[j][b] = refused[j][b]
        /\ reopened'[j][b] = reopened[j][b]
    BY <1>1, <1>2
  <2>2. CASE j = i /\ b = a
    <3>1. Spare(j, b)
      <4>1. w # None
        BY <1>1
      <4> QED BY <1>1, <2>2, <4>1 DEF Spare, Reopening
    <3> QED BY <1>1, <2>1, <3>1, BalancedSame
  <2>3. CASE j = i /\ b # a
    <3>1. ~Reopening(j, b) /\ ~Reopening(j, b)' /\ sessions'[j][b] = sessions[j][b]
      BY <1>1, <1>2, <1>5, <2>3 DEF Reopening
    <3>2. Spare(j, b)' = Spare(j, b)
      BY <2>1, <3>1 DEF Spare
    <3> QED BY <1>1, <2>1, <3>2, BalancedSame
  <2>4. CASE j # i
    <3>1. /\ reinit'[j] = reinit[j] /\ sessions'[j][b] = sessions[j][b]
          /\ reinit[j] # None => task'[reinit[j]] = task[reinit[j]]
      BY <1>2, <1>4, <1>5, <2>4
    <3>2. Spare(j, b)' = Spare(j, b)
      BY <2>1, <3>1, SpareSame
    <3> QED BY <1>1, <2>1, <3>2, BalancedSame
  <2> QED BY <2>2, <2>3, <2>4
<1> QED BY <1>6, <1>7, <1>8 DEF SessionsInv

\* A call begins, with the session its alias has or with none.
LEMMA SessionUsed ==
  ASSUME GatewayTypes, SessionsInv, NEW w \in Callers, task[w].step \notin Calling,
         UNCHANGED <<sessions, opened, reinit, refused, reopened>>,
         NEW u, Become(w, u), u.step = "call", NEW i \in Instances, NEW a \in Aliases,
         u.sid \in {0, sessions[i][a]}
  PROVE  SessionsInv'
<1>1. task'[w] = u /\ \A v \in Callers \ {w} : task'[v] = task[v]
  BY DEF Become, GatewayTypes, TasksOK
<1>2. NewSessions'
  <2>1. \A j \in Instances, b \in Aliases :
           /\ refused[j][b] \subseteq 0..opened /\ refused'[j][b] = refused[j][b]
           /\ sessions'[j][b] \in {0, sessions[j][b]}
    BY DEF SessionsInv
  <2>2. u.step \notin {"keep", "initialized"} /\ opened' = opened
    OBVIOUS
  <2> QED BY <1>1, <2>1, <2>2, NewSessionsKept DEF SessionsInv
<1>3. \A j \in Instances : reinit[j] # None =>
         reinit[j] \in Callers \ {w} /\ task'[reinit[j]] = task[reinit[j]]
  <2>1. \A j \in Instances : reinit[j] # None => reinit[j] \in Callers /\ reinit[j] # w
    BY DEF GatewayTypes, SessionsOK, SessionsInv, LockHeld, Calling
  <2> QED BY <1>1, <2>1
<1>4. LockHeld'
  <2>1. \A j \in Instances : reinit[j] # None =>
           task'[reinit[j]].step \in {"init", "initialized"} /\ task'[reinit[j]].on = j
    BY <1>3 DEF SessionsInv, LockHeld
  <2>2. \A v \in Callers : task'[v].step \in {"init", "initialized"} => reinit[task'[v].on] = v
    BY <1>1 DEF SessionsInv, LockHeld
  <2>3. \A v \in Callers : task'[v].step \in {"expired", "init"} =>
           task'[v].sid \in refused[task'[v].on][task'[v].alias]
    BY <1>1 DEF SessionsInv, LockHeld
  <2> QED BY <2>1, <2>2, <2>3 DEF LockHeld
<1>5. ASSUME NEW j \in Instances, NEW b \in Aliases PROVE Balanced(j, b)' /\ refused'[j][b] \subseteq 0..opened'
  <2>1. Spare(j, b)' = Spare(j, b)
    BY <1>3, SpareSame
  <2> QED BY <2>1, BalancedSame DEF SessionsInv
<1> QED BY <1>2, <1>4, <1>5 DEF SessionsInv

\* A step of a call or a script keeps the sessions as they should be.
LEMMA CallSessions ==
  ASSUME GatewayTypes, SessionsInv, NEW w \in Callers, CallNext(w)
  PROVE  SessionsInv'
<1> DEFINE t == task[w]
<1>1. t \in Tasks /\ Scripted(t) /\ task \in [Callers -> Tasks]
  BY DEF GatewayTypes, TasksOK
<1>2. ASSUME UNCHANGED sessionVars, NEW u, Become(w, u), u.step \notin Calling,
             t.step \notin {"init", "initialized"}
      PROVE  SessionsInv'
  <2>1. task'[w] = u /\ \A v \in Callers \ {w} : task'[v] = task[v]
    BY <1>1, <1>2 DEF Become
  <2>2. \A v \in Callers :
           /\ task'[v].step \in Calling => task'[v] = task[v]
           /\ task[v].step \in {"init", "initialized"} => task'[v] = task[v]
    BY <1>2, <2>1
  <2> QED BY <1>2, <2>2, NoSessionChanged DEF sessionVars
<1>3. CASE Free(w) /\ BeginCall(w)
  <2>1. PICK i \in Instances, alias \in Aliases, team, admin, init \in BOOLEAN, s \in Servers :
           Become(w, Call(i, s, alias, None, init, None))
    BY <1>3, LookupServers DEF BeginCall
  <2> DEFINE c == Call(i, s, alias, None, init, None)
  <2>2. c.step = "call" /\ c.sid \in {0, sessions[i][alias]}
    BY DEF Call
  <2>3. t.step = "idle" /\ UNCHANGED sessionVars
    BY <1>3 DEF Free, Idle, BeginCall
  <2> QED BY <2>1, <2>2, <2>3, SessionUsed DEF Calling, sessionVars
<1>4. CASE Free(w) /\ BeginExecute(w)
  <2>1. PICK i, servers, script : Become(w, GetTools(i, servers, script))
    BY <1>4 DEF BeginExecute
  <2>2. GetTools(i, servers, script).step \notin Calling
    BY DEF GetTools, Calling
  <2>3. t.step = "idle" /\ UNCHANGED sessionVars
    BY <1>4 DEF Free, Idle, BeginExecute
  <2> QED BY <1>2, <2>1, <2>2, <2>3
<1>5. CASE Answered(w) \/ Retried(w)
  <2>1. t.step \in {"call", "retry"} /\ Become(w, Over(t)) /\ UNCHANGED sessionVars
    BY <1>5 DEF Answered, Retried, Doing
  <2>2. Over(t).step \notin Calling
    BY <1>1, <2>1, AfterCall, Shapes DEF Calling
  <2> QED BY <1>2, <2>1, <2>2
<1>6. CASE Acquire(w)
  <2>1. t.step = "get" /\ t.script \in Scripts /\ UNCHANGED sessionVars
    BY <1>1, <1>6, Shapes DEF Acquire, Listing, GetTasks
  <2> DEFINE offered == {x \in t.script.tools : \E s \in t.got : rows[s].alias = x[1]}
  <2>2. PICK u \in {Idle, [t.script EXCEPT !.tools = offered]} : Become(w, u)
    BY <1>6 DEF Acquire
  <2>3. u.step \in {"idle", "run"}
    BY <2>1, <2>2 DEF Scripts, Idle
  <2> QED BY <1>2, <2>1, <2>2, <2>3 DEF Calling
<1>7. CASE GiveUp(w) \/ Release(w)
  BY <1>2, <1>7 DEF GiveUp, Release, Listing, Doing, Idle, Calling
<1>8. CASE CallTool(w)
  <2>1. t.step = "run" /\ t.on \in Instances /\ t.tools \subseteq Aliases \X Tools /\ UNCHANGED sessionVars
    BY <1>1, <1>8, Shapes DEF CallTool, Doing, Scripts
  <2> DEFINE script == [t EXCEPT !.left = @ - 1]
  <2>2. PICK x \in t.tools, s \in Servers : Become(w, Call(t.on, s, x[1], x[2], FALSE, script))
    BY <1>8, <2>1, LookupServers DEF CallTool
  <2> DEFINE c == Call(t.on, s, x[1], x[2], FALSE, script)
  <2>3. c.step = "call" /\ c.sid \in {0, sessions[t.on][x[1]]} /\ x[1] \in Aliases
    BY <2>1 DEF Call
  <2> HIDE DEF c
  <2> QED BY <2>1, <2>2, <2>3, SessionUsed DEF Calling, sessionVars, c
<1> QED
  BY <1>3, <1>4, <1>5, <1>6, <1>7, <1>8, SessionOpened, SessionRefused, SessionStored, SessionLocked,
     SessionNotReplaced DEF CallNext

\* An instance starts again without sessions.
LEMMA RestartSessions ==
  ASSUME GatewayTypes, SessionsInv, NEW i \in Instances, Restart(i)
  PROVE  SessionsInv'
<1>1. \A w \in Callers : task'[w] = IF task[w] # Idle /\ task[w].on = i THEN Idle ELSE task[w]
  BY RestartLeaves
<1>2. opened' = opened /\ \A j \in Instances, a \in Aliases :
         /\ sessions'[j][a] = IF j = i THEN 0 ELSE sessions[j][a]
         /\ refused'[j][a] = IF j = i THEN {} ELSE refused[j][a]
         /\ reopened'[j][a] = IF j = i THEN 0 ELSE reopened[j][a]
  BY DEF Restart, GatewayTypes, SessionsOK
<1>9. \A j \in Instances : reinit'[j] = IF j = i THEN None ELSE reinit[j]
  BY DEF Restart, GatewayTypes, SessionsOK
<1>3. \A w \in Callers : task'[w].step # "idle" => task'[w] = task[w] /\ task[w] # Idle /\ task[w].on # i
  BY <1>1 DEF Idle
<1>4. \A w \in Callers : task[w].step \in Calling =>
         task[w].on \in Instances /\ task[w].alias \in Aliases /\ task[w].step # "idle" /\ task[w] # Idle
  BY InCall DEF Calling, Idle
<1>5. NewSessions'
  <2> SUFFICES ASSUME NEW x \in Callers, New(x)'
               PROVE  /\ task'[x].sid \in 1..opened'
                      /\ \A j \in Instances, a \in Aliases :
                            sessions'[j][a] # task'[x].sid /\ task'[x].sid \notin refused'[j][a]
                      /\ \A v \in Callers \ {x} : task'[v].step \in Calling => task'[v].sid # task'[x].sid
    BY DEF NewSessions
  <2>1. task'[x] = task[x] /\ New(x)
    BY <1>3 DEF New
  <2>2. /\ task[x].sid \in 1..opened
        /\ \A j \in Instances, a \in Aliases :
              sessions[j][a] # task[x].sid /\ task[x].sid \notin refused[j][a]
        /\ \A v \in Callers \ {x} : task[v].step \in Calling => task[v].sid # task[x].sid
    BY <2>1 DEF SessionsInv, NewSessions
  <2>3. \A v \in Callers : task'[v].step \in Calling => task'[v] = task[v]
    BY <1>3 DEF Calling
  <2>4. task[x].sid # 0 /\ task[x].sid \notin {}
    BY <2>2
  <2> QED BY <1>2, <2>1, <2>2, <2>3, <2>4
<1>6. \A j \in Instances : j # i /\ reinit[j] # None =>
         reinit[j] \in Callers /\ task'[reinit[j]] = task[reinit[j]]
  <2> SUFFICES ASSUME NEW j \in Instances, j # i, reinit[j] # None
               PROVE  reinit[j] \in Callers /\ task'[reinit[j]] = task[reinit[j]]
    OBVIOUS
  <2>1. reinit[j] \in Callers /\ task[reinit[j]].on = j
    BY DEF GatewayTypes, SessionsOK, SessionsInv, LockHeld
  <2> QED BY <1>1, <2>1
<1>7. LockHeld'
  <2>1. \A j \in Instances : reinit'[j] # None =>
           task'[reinit'[j]].step \in {"init", "initialized"} /\ task'[reinit'[j]].on = j
    <3> SUFFICES ASSUME NEW j \in Instances, reinit'[j] # None
                 PROVE  task'[reinit'[j]].step \in {"init", "initialized"} /\ task'[reinit'[j]].on = j
      OBVIOUS
    <3>1. j # i /\ reinit'[j] = reinit[j]
      BY <1>9
    <3> QED BY <1>6, <3>1 DEF SessionsInv, LockHeld
  <2>2. ASSUME NEW w \in Callers, task'[w].step \in {"expired", "init", "initialized"}
        PROVE  /\ task'[w].step \in {"init", "initialized"} => reinit'[task'[w].on] = w
               /\ task'[w].step \in {"expired", "init"} =>
                     task'[w].sid \in refused'[task'[w].on][task'[w].alias]
    <3>1. task'[w] = task[w] /\ task[w].on # i /\ task[w].step \in Calling
      BY <1>3, <2>2 DEF Calling
    <3>2. task[w].on \in Instances /\ task[w].alias \in Aliases
      BY <1>4, <3>1
    <3> QED BY <1>2, <1>9, <2>2, <3>1, <3>2 DEF SessionsInv, LockHeld
  <2> QED BY <2>1, <2>2 DEF LockHeld
<1>8. ASSUME NEW j \in Instances, NEW a \in Aliases PROVE Balanced(j, a)' /\ refused'[j][a] \subseteq 0..opened'
  <2>1. CASE j = i
    BY <1>2, <2>1, FS_EmptySet DEF Balanced
  <2>2. CASE j # i
    <3>1. reinit'[j] = reinit[j] /\ refused'[j][a] = refused[j][a] /\ sessions'[j][a] = sessions[j][a]
          /\ reopened'[j][a] = reopened[j][a]
      BY <1>2, <1>9, <2>2
    <3>2. Spare(j, a)' = Spare(j, a)
      BY <1>6, <2>2, <3>1, SpareSame
    <3> QED BY <1>2, <3>1, <3>2, BalancedSame DEF SessionsInv
  <2> QED BY <2>1, <2>2
<1> QED BY <1>5, <1>7, <1>8 DEF SessionsInv

\* The sessions stay as they should be.
LEMMA SessionsKept ==
  ASSUME GatewayTypes, SessionsInv, [Next]_vars
  PROVE  SessionsInv'
<1>1. CASE HandlerStep
  <2>1. UNCHANGED <<sessions, opened, reinit, refused, reopened>>
    BY <1>1 DEF HandlerStep, sessionVars
  <2>2. CASE UNCHANGED task
    BY <2>1, <2>2, NoSessionChanged
  <2>3. ASSUME NEW w \in Callers, NEW t \in Tasks, Handles(w, t) PROVE SessionsInv'
    <3>1. task'[w] = t /\ \A v \in Callers \ {w} : task'[v] = task[v]
      BY <2>3, TaskChanged DEF Handles, GatewayTypes
    <3>2. task[w].step \notin Calling /\ t.step \notin Calling
      BY <2>3 DEF Handles, Handling, Calling
    <3>3. \A v \in Callers :
             /\ task'[v].step \in Calling => task'[v] = task[v]
             /\ task[v].step \in {"init", "initialized"} => task'[v] = task[v]
      BY <3>1, <3>2 DEF Calling
    <3> QED BY <2>1, <3>3, NoSessionChanged
  <2> QED BY <1>1, <2>2, <2>3 DEF HandlerStep, TableStep
<1>2. CASE Forget \/ UNCHANGED vars
  <2>1. UNCHANGED <<task, sessions, opened, reinit, refused, reopened>>
    BY <1>2 DEF Forget, vars, sessionVars
  <2> QED BY <2>1, NoSessionChanged
<1> QED BY <1>1, <1>2, StepKinds, CallSessions, RestartSessions

\* Every session that a server has given up is replaced once at most
\* (mcp_proxy.go reinitializeSession): an instance opens no more sessions of an
\* alias in the place of others than it was refused sessions of it.
THEOREM OneInit == Spec => []OneInitPerExpiry
<1>1. Init => SessionsInv
  <2> SUFFICES ASSUME Init PROVE SessionsInv
    OBVIOUS
  <2>1. \A w \in Callers : task[w].step = "idle"
    BY DEF Init, TablesInit, Idle
  <2>2. NewSessions
    BY <2>1 DEF NewSessions, New
  <2>3. LockHeld
    BY <2>1 DEF Init, CallsInit, LockHeld
  <2>4. \A i \in Instances, a \in Aliases : refused[i][a] = {} /\ reopened[i][a] = 0
    BY DEF Init, CallsInit
  <2>5. \A i \in Instances, a \in Aliases : refused[i][a] \subseteq 0..opened /\ Balanced(i, a)
    BY <2>4, FS_EmptySet DEF Balanced
  <2> QED BY <2>2, <2>3, <2>5 DEF SessionsInv
<1>2. GatewayTypes /\ SessionsInv /\ [Next]_vars => SessionsInv'
  BY SessionsKept
<1>3. SessionsInv => OneInitPerExpiry
  BY DEF SessionsInv, Balanced, OneInitPerExpiry
<1> QED BY <1>1, <1>2, <1>3, TypesKept, PTL DEF Spec

-----------------------------------------------------------------------------
(* The copies.                                                             *)

\* As long as nobody writes the tables their queries return the same.
LEMMA SameTables ==
  ASSUME UNCHANGED <<lists, rows>>
  PROVE  \A k, q : Current(k)' = Current(k) /\ Result(k, q)' = Result(k, q)
<1>1. \A s : Active(s)' = Active(s)
  BY DEF Active, Live
<1>2. \A k, q : Result(k, q)' = Result(k, q)
  BY <1>1 DEF Result
<1> QED BY <1>2 DEF Current

\* Whoever would bring an instance a table still will.
LEMMA PendingKept ==
  ASSUME NEW i \in Instances, NEW k \in Kinds,
         \A n \in DOMAIN channel[i] : channel[i][n] = k =>
            \E m \in DOMAIN channel'[i] : channel'[i][m] = k,
         \A p \in Loaders : Brings(p, i, k) => Brings(p, i, k)',
         \A w \in Callers : Owes(w, i, k) => Owes(w, i, k)'
  PROVE  Pending(i, k) => Pending(i, k)'
BY DEF Pending

\* A copy and its table that are left alone.
LEMMA CoveredKept ==
  ASSUME NEW i \in Instances, NEW k \in Kinds, Covered(i, k), Current(k)' = Current(k),
         missed[i][k] => missed'[i][k], cached'[i][k] = cached[i][k],
         Pending(i, k) => Pending(i, k)' \/ missed'[i][k]
  PROVE  Covered(i, k)'
BY DEF Covered

\* A load of a table that is left alone.
LEMMA FreshSame ==
  ASSUME UNCHANGED <<lists, rows>>, NEW p \in Loaders, Fresh(p), load'[p] = load[p]
  PROVE  Fresh(p)'
BY SameTables DEF Fresh, Loading

\* What its handler owes to others, while its step owes the same.
LEMMA OwesSame ==
  ASSUME NEW w \in Callers, NEW t, task'[w] = t, \A v \in Callers \ {w} : task'[v] = task[v],
         \A i \in Instances, k \in Kinds : Owes(w, i, k) =>
            \/ t.step \in {"forget", "unsave"} /\ t.on = i /\ k \in {"servers", "transports"}
            \/ t.step \in {"reload", "publish"} /\ t.on # i /\ t.kind = k /\ k \in Announced
  PROVE  \A v \in Callers, i \in Instances, k \in Kinds : Owes(v, i, k) => Owes(v, i, k)'
<1> SUFFICES ASSUME NEW v \in Callers, NEW i \in Instances, NEW k \in Kinds, Owes(v, i, k)
             PROVE  Owes(v, i, k)'
  OBVIOUS
<1>1. CASE v # w
  BY <1>1 DEF Owes
<1>2. CASE v = w
  BY <1>2 DEF Owes
<1> QED BY <1>1, <1>2

\* A load that is over leaves its handler with what it owed.
LEMMA LoadOwes ==
  ASSUME GatewayTypes, NEW p \in Loaders, Loading(p), AfterLoad(p)
  PROVE  \A w \in Callers, i \in Instances, k \in Kinds : Owes(w, i, k) => Owes(w, i, k)'
<1> USE DEF GatewayTypes
<1>1. CASE UNCHANGED task
  BY <1>1 DEF Owes
<1>2. CASE p \in Callers /\ task[p].step = "reload" /\ task[p] \in ReloadTasks
  <2>1. PICK t \in Tasks :
          /\ Handles(p, t) /\ t.step \in {"publish", "idle", "spawn"}
          /\ t.step = "publish" => t.kind = task[p].kind /\ t.on = task[p].on
          /\ load[p].kind \in Lists => t.step = "publish"
    BY <1>2, AfterLoads
  <2>2. task'[p] = t /\ \A v \in Callers \ {p} : task'[v] = task[v]
    BY <1>2, <2>1, TaskChanged DEF Handles
  <2>3. task[p].kind \in Announced => t.step = "publish"
    <3>1. load[p].kind = task[p].kind \/ task[p].kind = "servers"
      BY <1>2 DEF LoadersOK
    <3> QED BY <2>1, <3>1 DEF Announced, Lists
  <2>4. \A i \in Instances, k \in Kinds : Owes(p, i, k) =>
           t.step \in {"reload", "publish"} /\ t.on # i /\ t.kind = k /\ k \in Announced
    BY <1>2, <2>1, <2>3 DEF Owes
  <2> QED BY <1>2, <2>2, <2>4, OwesSame
<1> QED BY <1>1, <1>2, AfterLoads

\* A load makes its next query.
LEMMA CopyRead ==
  ASSUME GatewayTypes, CopiesInv, NEW p \in Loaders, Read(p)
  PROVE  CopiesInv'
<1> USE DEF GatewayTypes
<1> DEFINE l == load[p]
           r == Result(l.kind, Queries(l.kind)[Len(l.read) + 1])
           n == [l EXCEPT !.read = Append(l.read, r)]
<1>1. Loading(p) /\ ~AllRead(p) /\ load' = [load EXCEPT ![p] = n]
      /\ UNCHANGED <<lists, rows, cached, channel, missed, task>>
  BY DEF Read
<1>2. /\ l \in LoadTypes /\ l.kind \in Kinds \ {"transports"}
      /\ n \in LoadTypes /\ n # None /\ n.on = l.on /\ n.kind = l.kind /\ n.dirty = l.dirty
      /\ n.read = Append(l.read, r)
  BY <1>1, LoadRead DEF TablesOK
<1>3. Len(l.read) \in Nat /\ l.read \in Seq(Results) /\ r \in Results
  <2>1. l.read \in Seq(Results)
    BY <1>2 DEF LoadTypes, Loads
  <2>2. Len(l.read) + 1 \in 1..Len(Queries(l.kind))
    BY <1>1, LoadRead DEF TablesOK
  <2>3. r \in Results
    BY <1>2, <2>2, CurrentTyped DEF TablesOK
  <2> HIDE DEF r
  <2> QED BY <2>1, <2>3
<1> DEFINE Is(m) == n.read[m] = Result(l.kind, Queries(l.kind)[m])
<1>4. Fresh(p) /\ ~l.dirty => \A m \in 1..Len(n.read) : Is(m)
  <2> SUFFICES ASSUME Fresh(p), ~l.dirty, NEW m \in 1..Len(n.read) PROVE Is(m)
    OBVIOUS
  <2>1. \A x \in 1..Len(l.read) : l.read[x] = Result(l.kind, Queries(l.kind)[x])
    BY <1>1, <1>2 DEF Fresh
  <2>2. /\ Len(n.read) = Len(l.read) + 1
        /\ \A x \in 1..Len(l.read) : n.read[x] = l.read[x]
        /\ n.read[Len(l.read) + 1] = r
    <3> HIDE DEF r, n
    <3> QED BY <1>2, <1>3, AppendProperties
  <2>3. m \in 1..Len(l.read) \/ m = Len(l.read) + 1
    BY <1>3, <2>2
  <2> QED BY <2>1, <2>2, <2>3
<1> HIDE DEF n
<1>5. load'[p] = n /\ \A q \in Loaders \ {p} : load'[q] = load[q]
  BY <1>1, <1>2, LoadChanged
<1>6. ASSUME NEW q \in Loaders PROVE Fresh(q)'
  <2>1. Fresh(q)
    BY DEF CopiesInv
  <2>2. CASE q = p
    <3>1. \A k, x : Result(k, x)' = Result(k, x)
      BY <1>1, SameTables
    <3>2. n.kind = l.kind /\ n.dirty = l.dirty /\ l.kind # "transports" /\ load'[p] = n
      BY <1>2, <1>5
    <3>3. ~l.dirty => \A m \in 1..Len(n.read) : n.read[m] = Result(l.kind, Queries(l.kind)[m])
      BY <1>4, <2>1, <2>2
    <3>4. ~l.dirty =>
             (\A m \in 1..Len(load[p].read) :
                 load[p].read[m] = Result(load[p].kind, Queries(load[p].kind)[m]))'
      BY <3>1, <3>2, <3>3
    <3> QED BY <2>2, <3>2, <3>4 DEF Fresh
  <2>3. CASE q # p
    BY <1>1, <1>5, <2>1, <2>3, FreshSame
  <2> QED BY <2>2, <2>3
<1>7. ASSUME NEW i \in Instances, NEW k \in Kinds PROVE Covered(i, k)'
  <2>1. \A q \in Loaders : Brings(q, i, k) => Brings(q, i, k)'
    BY <1>1, <1>2, <1>5 DEF Brings, Loading
  <2>2. \A w \in Callers : Owes(w, i, k) => Owes(w, i, k)'
    BY <1>1 DEF Owes
  <2>3. Pending(i, k) => Pending(i, k)'
    BY <1>1, <2>1, <2>2, PendingKept
  <2> QED BY <1>1, <2>3, CoveredKept, SameTables DEF CopiesInv
<1> QED BY <1>6, <1>7 DEF CopiesInv

\* A copy is replaced by what was read, and the load is over or goes on with the
\* transports.
LEMMA CopyStored ==
  ASSUME GatewayTypes, CopiesInv, NEW p \in Loaders, Store(p)
  PROVE  CopiesInv'
<1> USE DEF GatewayTypes
<1> DEFINE l == load[p]
           f == [s \in Servers |-> Connection(l.read[1][s])]
           n == [l EXCEPT !.kind = "transports", !.read[1] = f]
<1>1. AllRead(p) /\ Loading(p) /\ UNCHANGED <<lists, rows, channel>>
  BY DEF Store, AllRead
<1>2. l.on \in Instances /\ l.kind \in Kinds /\ l.dirty \in BOOLEAN /\ CopyOf(l.kind, l.read)
  BY <1>1, LoadStored DEF TablesOK
<1>3. \A i \in Instances, k \in Kinds :
         /\ cached'[i][k] = IF i = l.on /\ k = l.kind THEN l.read ELSE cached[i][k]
         /\ missed'[i][k] = IF i = l.on /\ k = l.kind THEN l.dirty ELSE missed[i][k]
  <2>1. /\ cached' = [cached EXCEPT ![l.on][l.kind] = l.read]
        /\ missed' = [missed EXCEPT ![l.on][l.kind] = l.dirty]
    BY DEF Store, Copy
  <2>2. cached \in [Instances -> [Kinds -> Seq(Results)]] /\ missed \in [Instances -> [Kinds -> BOOLEAN]]
    BY DEF TablesOK
  <2> HIDE DEF l
  <2>3. \A i \in Instances, k \in Kinds :
           cached'[i][k] = IF i = l.on /\ k = l.kind THEN l.read ELSE cached[i][k]
    BY <1>2, <2>1, <2>2, CellSet
  <2>4. \A i \in Instances, k \in Kinds :
           missed'[i][k] = IF i = l.on /\ k = l.kind THEN l.dirty ELSE missed[i][k]
    BY <1>2, <2>1, <2>2, CellSet
  <2> QED BY <2>3, <2>4
<1>4. ~l.dirty => l.read = Current(l.kind)
  <2> SUFFICES ASSUME ~l.dirty PROVE l.read = Current(l.kind)
    OBVIOUS
  <2>1. CASE l.kind = "transports"
    BY <1>1, <2>1 DEF CopiesInv, Fresh
  <2>2. CASE l.kind # "transports"
    <3>1. CopyOf(l.kind, Current(l.kind))
      BY <1>2, CurrentTyped DEF TablesOK
    <3>2. \A m \in 1..Len(l.read) : l.read[m] = Result(l.kind, Queries(l.kind)[m])
      BY <1>1, <2>2 DEF CopiesInv, Fresh
    <3>3. \A m \in 1..Len(l.read) : l.read[m] = Current(l.kind)[m]
      BY <1>2, <2>2, <3>2, CurrentTyped DEF TablesOK, CopyOf
    <3> HIDE DEF l
    <3> QED BY <1>2, <3>1, <3>3, SeqEqual DEF CopyOf
  <2> QED BY <2>1, <2>2
<1>5. /\ load'[p] = IF l.kind = "servers" THEN n ELSE None
      /\ \A q \in Loaders \ {p} : load'[q] = load[q]
  BY DEF Store, LoadsOK
<1>6. l.kind = "servers" => /\ n # None /\ n.on = l.on /\ n.kind = "transports"
                            /\ n.dirty = l.dirty /\ n.read = <<f>>
  BY <1>1, LoadStored DEF TablesOK
<1>7. l.kind = "servers" /\ ~l.dirty => <<f>> = Current("transports")
  <2> SUFFICES ASSUME l.kind = "servers", ~l.dirty PROVE <<f>> = Current("transports")
    OBVIOUS
  <2>1. l.read[1] = Result("servers", "active")
    <3>1. l.read = Current("servers") /\ Len(Queries("servers")) = 1 /\ Queries("servers")[1] = "active"
      BY <1>4 DEF Queries
    <3>2. Current("servers")[1] = Result("servers", Queries("servers")[1])
      <4>1. "servers" \in Kinds \ {"transports"} /\ 1 \in 1..Len(Queries("servers"))
        BY <3>1 DEF Kinds
      <4> QED BY <4>1, CurrentTyped DEF TablesOK
    <3> QED BY <3>1, <3>2
  <2> QED BY <2>1 DEF Current
<1> HIDE DEF n, f
<1>8. ASSUME NEW q \in Loaders PROVE Fresh(q)'
  <2>1. CASE q # p
    BY <1>1, <1>5, <2>1, FreshSame DEF CopiesInv
  <2>2. CASE q = p /\ l.kind # "servers"
    BY <1>5, <2>2 DEF Fresh, Loading
  <2>3. CASE q = p /\ l.kind = "servers"
    <3>1. Current("transports")' = Current("transports")
      BY <1>1, SameTables
    <3>2. load'[p].kind = "transports" /\ (~load'[p].dirty => load'[p].read = Current("transports"))
      BY <1>5, <1>6, <1>7, <2>3
    <3> QED BY <2>3, <3>1, <3>2 DEF Fresh
  <2> QED BY <2>1, <2>2, <2>3
<1>9. \A w \in Callers, i \in Instances, k \in Kinds : Owes(w, i, k) => Owes(w, i, k)'
  <2>1. CASE UNCHANGED task
    BY <2>1 DEF Owes
  <2>2. CASE AfterLoad(p)
    BY <1>1, <2>2, LoadOwes
  <2> QED BY <2>1, <2>2 DEF Store
<1>10. ASSUME NEW i \in Instances, NEW k \in Kinds PROVE Covered(i, k)'
  <2>1. Current(k)' = Current(k)
    BY <1>1, SameTables
  <2>2. CASE i = l.on /\ k = l.kind
    <3>1. missed'[i][k] = l.dirty /\ cached'[i][k] = l.read
      BY <1>3, <2>2
    <3> QED BY <1>2, <1>4, <2>1, <2>2, <3>1 DEF Covered
  <2>3. CASE i = l.on /\ k = "transports" /\ l.kind = "servers"
    <3>1. Brings(p, i, k)'
      BY <1>5, <1>6, <2>3 DEF Brings, Loading
    <3> QED BY <3>1 DEF Covered, Pending
  <2>4. CASE ~(i = l.on /\ (k = l.kind \/ (k = "transports" /\ l.kind = "servers")))
    <3>1. missed'[i][k] = missed[i][k] /\ cached'[i][k] = cached[i][k]
      BY <1>3, <2>4
    <3>2. \A q \in Loaders : Brings(q, i, k) => Brings(q, i, k)'
      <4> TAKE q \in Loaders
      <4>1. CASE q # p
        BY <1>5, <4>1 DEF Brings, Loading
      <4>2. CASE q = p
        BY <2>4, <4>2 DEF Brings
      <4> QED BY <4>1, <4>2
    <3>3. Pending(i, k) => Pending(i, k)'
      BY <1>1, <1>9, <3>2, PendingKept
    <3> QED BY <2>1, <3>1, <3>3, CoveredKept DEF CopiesInv
  <2> QED BY <2>2, <2>3, <2>4
<1> QED BY <1>8, <1>10 DEF CopiesInv

\* A load fails, and its instance does not learn what it would have brought.
LEMMA CopyNotRead ==
  ASSUME GatewayTypes, CopiesInv, NEW p \in Loaders, LoadFails(p)
  PROVE  CopiesInv'
<1> USE DEF GatewayTypes
<1> DEFINE l == load[p]
<1>1. Loading(p) /\ AfterLoad(p) /\ UNCHANGED <<lists, rows, cached, channel>>
  BY DEF LoadFails
<1>2. load'[p] = None /\ \A q \in Loaders \ {p} : load'[q] = load[q]
  BY DEF LoadFails, LoadsOK
<1>3. \A i \in Instances, k \in Kinds :
         missed'[i][k] <=> \/ missed[i][k]
                           \/ i = l.on /\ (k = l.kind \/ (k = "transports" /\ l.kind = "servers"))
  BY DEF LoadFails, TablesOK
<1>4. ASSUME NEW q \in Loaders PROVE Fresh(q)'
  <2>1. CASE q # p
    BY <1>1, <1>2, <2>1, FreshSame DEF CopiesInv
  <2>2. CASE q = p
    BY <1>2, <2>2 DEF Fresh, Loading
  <2> QED BY <2>1, <2>2
<1>5. ASSUME NEW i \in Instances, NEW k \in Kinds PROVE Covered(i, k)'
  <2>1. CASE missed'[i][k]
    BY <2>1 DEF Covered
  <2>2. CASE ~missed'[i][k]
    <3>1. \A q \in Loaders : Brings(q, i, k) => Brings(q, i, k)'
      <4> TAKE q \in Loaders
      <4>1. CASE q # p
        BY <1>2, <4>1 DEF Brings, Loading
      <4>2. CASE q = p
        BY <1>3, <2>2, <4>2 DEF Brings
      <4> QED BY <4>1, <4>2
    <3>2. \A w \in Callers : Owes(w, i, k) => Owes(w, i, k)'
      BY <1>1, LoadOwes
    <3>3. Pending(i, k) => Pending(i, k)'
      BY <1>1, <3>1, <3>2, PendingKept
    <3>4. ~missed[i][k]
      BY <1>3, <2>2
    <3> QED BY <1>1, <3>3, <3>4, CoveredKept, SameTables DEF CopiesInv
  <2> QED BY <2>1, <2>2
<1> QED BY <1>4, <1>5 DEF CopiesInv

\* A new load brings its table, and what another loads stays as it was.
LEMMA LoadBegun ==
  ASSUME LoadsOK, NEW p \in Loaders, ~Loading(p), NEW i \in Instances, NEW k \in Kinds \ {"transports"},
         load' = [load EXCEPT ![p] = NewLoad(i, k)]
  PROVE  /\ Fresh(p)' /\ Brings(p, i, k)' /\ (k = "servers" => Brings(p, i, "transports")')
         /\ \A q \in Loaders \ {p} : load'[q] = load[q]
         /\ \A q \in Loaders, j \in Instances, x \in Kinds : Brings(q, j, x) => Brings(q, j, x)'
<1>1. load'[p] = NewLoad(i, k) /\ \A q \in Loaders \ {p} : load'[q] = load[q]
  BY DEF LoadsOK
<1>2. NewLoad(i, k) # None /\ NewLoad(i, k).on = i /\ NewLoad(i, k).kind = k /\ NewLoad(i, k).read = <<>>
  BY FirstLoad
<1>3. Fresh(p)'
  <2>1. load'[p].kind # "transports" /\ Len(load'[p].read) = 0
    BY <1>1, <1>2
  <2> QED BY <2>1 DEF Fresh
<1>4. Brings(p, i, k)' /\ (k = "servers" => Brings(p, i, "transports")')
  BY <1>1, <1>2 DEF Brings, Loading
<1>5. \A q \in Loaders, j \in Instances, x \in Kinds : Brings(q, j, x) => Brings(q, j, x)'
  BY <1>1 DEF Brings, Loading
<1> QED BY <1>1, <1>3, <1>4, <1>5

\* A ticker begins a load, or an instance handles or loses an announcement.
LEMMA CopyHeard ==
  ASSUME GatewayTypes, CopiesInv, NEW i \in Instances, Tick(i) \/ Receive(i) \/ Lose(i)
  PROVE  CopiesInv'
<1> USE DEF GatewayTypes
<1>1. UNCHANGED <<lists, rows, cached, task>>
  BY DEF Tick, Receive, Lose
<1>2. \A w \in Callers, j \in Instances, k \in Kinds : Owes(w, j, k) => Owes(w, j, k)'
  BY <1>1 DEF Owes
<1>3. channel[i] # <<>> =>
         /\ Head(channel[i]) \in Kinds \ {"transports"} /\ Tail(channel[i]) \in Seq(Kinds \ {"transports"})
         /\ \A n \in DOMAIN channel[i] :
               \/ n = 1 /\ channel[i][n] = Head(channel[i])
               \/ n - 1 \in DOMAIN Tail(channel[i]) /\ Tail(channel[i])[n - 1] = channel[i][n]
  <2> SUFFICES ASSUME channel[i] # <<>>
               PROVE  /\ Head(channel[i]) \in Kinds \ {"transports"}
                      /\ Tail(channel[i]) \in Seq(Kinds \ {"transports"})
                      /\ \A n \in DOMAIN channel[i] :
                            \/ n = 1 /\ channel[i][n] = Head(channel[i])
                            \/ n - 1 \in DOMAIN Tail(channel[i]) /\ Tail(channel[i])[n - 1] = channel[i][n]
    OBVIOUS
  <2>1. channel[i] \in Seq(Kinds \ {"transports"})
    BY DEF TablesOK
  <2>2. /\ Head(channel[i]) \in Kinds \ {"transports"} /\ Tail(channel[i]) \in Seq(Kinds \ {"transports"})
        /\ Len(Tail(channel[i])) = Len(channel[i]) - 1 /\ Head(channel[i]) = channel[i][1]
        /\ \A n \in 1..Len(Tail(channel[i])) : Tail(channel[i])[n] = channel[i][n + 1]
    BY <2>1, HeadTailProperties
  <2>3. Len(channel[i]) \in Nat /\ DOMAIN channel[i] = 1..Len(channel[i])
        /\ DOMAIN Tail(channel[i]) = 1..Len(Tail(channel[i]))
    BY <2>1, <2>2
  <2> QED BY <2>2, <2>3
<1>4. \A j \in Instances \ {i} : channel'[j] = channel[j]
  BY DEF Tick, Receive, Lose, TablesOK
<1>5. CASE Tick(i) \/ Receive(i)
  <2>1. PICK p \in Loaders, k \in Kinds \ {"transports"} :
          /\ ~Loading(p) /\ load' = [load EXCEPT ![p] = NewLoad(i, k)]
          /\ \/ UNCHANGED channel
             \/ channel[i] # <<>> /\ k = Head(channel[i]) /\ channel' = [channel EXCEPT ![i] = Tail(@)]
    BY <1>3, <1>5, NoCaller DEF Tick, Receive
  <2>2. UNCHANGED missed
    BY <1>5 DEF Tick, Receive
  <2>3. \A q \in Loaders : Fresh(q)'
    BY <1>1, <2>1, LoadBegun, FreshSame DEF CopiesInv
  <2>4. ASSUME NEW j \in Instances, NEW x \in Kinds, Pending(j, x) PROVE Pending(j, x)'
    <3>1. \A q \in Loaders : Brings(q, j, x) => Brings(q, j, x)'
      BY <2>1, LoadBegun
    <3>2. CASE channel'[j] = channel[j]
      BY <1>2, <2>4, <3>1, <3>2, PendingKept
    <3>3. CASE channel'[j] # channel[j]
      <4>1. j = i /\ channel[i] # <<>> /\ k = Head(channel[i]) /\ channel'[i] = Tail(channel[i])
        BY <1>4, <2>1, <3>3 DEF TablesOK
      <4>2. Brings(p, i, k)'
        BY <2>1, LoadBegun
      <4>3. CASE \E n \in DOMAIN channel[i] : channel[i][n] = x
        <5>1. x = k \/ \E n \in DOMAIN channel'[i] : channel'[i][n] = x
          BY <1>3, <4>1, <4>3
        <5> QED BY <4>1, <4>2, <5>1 DEF Pending
      <4>4. CASE (\E q \in Loaders : Brings(q, j, x)) \/ \E w \in Callers : Owes(w, j, x)
        BY <1>2, <3>1, <4>4 DEF Pending
      <4> QED BY <2>4, <4>1, <4>3, <4>4 DEF Pending
    <3> QED BY <3>2, <3>3
  <2>5. \A j \in Instances, x \in Kinds : Covered(j, x)'
    BY <1>1, <2>2, <2>4, CoveredKept, SameTables DEF CopiesInv
  <2> QED BY <2>3, <2>5 DEF CopiesInv
<1>6. CASE Lose(i)
  <2>1. channel[i] # <<>> /\ channel' = [channel EXCEPT ![i] = Tail(@)] /\ UNCHANGED load
        /\ missed' = [missed EXCEPT ![i][Head(channel[i])] = TRUE]
    BY <1>6 DEF Lose
  <2>2. \A j \in Instances, x \in Kinds :
           missed'[j][x] = IF j = i /\ x = Head(channel[i]) THEN TRUE ELSE missed[j][x]
    <3>1. missed \in [Instances -> [Kinds -> BOOLEAN]]
      BY DEF TablesOK
    <3>2. PICK h \in Kinds : h = Head(channel[i])
      BY <1>3, <2>1
    <3> QED BY <2>1, <3>1, <3>2, CellSet
  <2>3. \A q \in Loaders : Fresh(q)'
    BY <1>1, <2>1, FreshSame DEF CopiesInv
  <2>4. ASSUME NEW j \in Instances, NEW x \in Kinds, Pending(j, x), ~missed'[j][x] PROVE Pending(j, x)'
    <3>1. \A q \in Loaders : Brings(q, j, x) => Brings(q, j, x)'
      BY <2>1 DEF Brings, Loading
    <3>2. \A n \in DOMAIN channel[j] : channel[j][n] = x => \E m \in DOMAIN channel'[j] : channel'[j][m] = x
      <4>1. CASE j # i
        BY <1>4, <4>1
      <4>2. CASE j = i
        <5>1. x # Head(channel[i]) /\ channel'[i] = Tail(channel[i])
          BY <2>1, <2>2, <2>4, <4>2 DEF TablesOK
        <5> QED BY <1>3, <2>1, <4>2, <5>1
      <4> QED BY <4>1, <4>2
    <3> QED BY <1>2, <2>4, <3>1, <3>2, PendingKept
  <2>5. \A j \in Instances, x \in Kinds : Covered(j, x)'
    BY <1>1, <2>2, <2>4, CoveredKept, SameTables DEF CopiesInv
  <2> QED BY <2>3, <2>5 DEF CopiesInv
<1> QED BY <1>5, <1>6

\* A change is announced, or its announcement fails.
LEMMA CopyAnnounced ==
  ASSUME GatewayTypes, CopiesInv, NEW w \in Callers, Publish(w) \/ PublishFails(w)
  PROVE  CopiesInv'
<1> USE DEF GatewayTypes
<1> DEFINE t == task[w]
<1>1. t.step = "publish" /\ UNCHANGED <<lists, rows, cached, load>> /\ Become(w, Idle)
  BY DEF Publish, PublishFails
<1>2. t \in ReloadTasks
  BY <1>1, Shapes DEF TasksOK
<1>3. task'[w] = Idle /\ \A v \in Callers \ {w} : task'[v] = task[v]
  BY <1>1 DEF TasksOK, Become
<1>4. \A q \in Loaders : Fresh(q)'
  BY <1>1, FreshSame DEF CopiesInv
<1>5. \A i \in Instances, k \in Kinds : missed[i][k] => missed'[i][k]
  BY DEF Publish, PublishFails
<1>6. \A i \in Instances : \A n \in DOMAIN channel[i] :
         n \in DOMAIN channel'[i] /\ channel'[i][n] = channel[i][n]
  <2>1. CASE UNCHANGED channel
    BY <2>1
  <2>2. CASE Publish(w)
    <3> TAKE i \in Instances
    <3>1. channel[i] \in Seq(Kinds \ {"transports"}) /\ Message(t.kind) \in Kinds \ {"transports"}
      BY <1>2 DEF TablesOK, ReloadTasks, Message, Kinds, Lists
    <3>2. channel'[i] = Append(channel[i], Message(t.kind))
      BY <2>2 DEF Publish
    <3> HIDE DEF t
    <3> QED BY <3>1, <3>2, AppendProperties
  <2> QED BY <2>1, <2>2 DEF PublishFails
<1>7. ASSUME NEW i \in Instances, NEW k \in Kinds, Pending(i, k) PROVE Pending(i, k)' \/ missed'[i][k]
  <2>1. CASE Owes(w, i, k)
    <3>1. t.on # i /\ t.kind = k /\ k \in Announced
      BY <1>1, <2>1 DEF Owes
    <3>2. CASE Publish(w)
      <4>1. channel'[i] = Append(channel[i], k)
        BY <3>1, <3>2 DEF Publish, Message, Announced
      <4>2. channel[i] \in Seq(Kinds \ {"transports"}) /\ k \in Kinds \ {"transports"}
        BY <3>1 DEF TablesOK, Announced
      <4>3. Len(channel[i]) + 1 \in DOMAIN channel'[i] /\ channel'[i][Len(channel[i]) + 1] = k
        BY <4>1, <4>2, AppendProperties
      <4> QED BY <4>3 DEF Pending
    <3>3. CASE PublishFails(w)
      BY <3>1, <3>3 DEF PublishFails
    <3> QED BY <3>2, <3>3
  <2>2. CASE ~Owes(w, i, k)
    <3>1. \A v \in Callers : Owes(v, i, k) => Owes(v, i, k)'
      BY <1>3, <2>2 DEF Owes
    <3>2. \A q \in Loaders : Brings(q, i, k) => Brings(q, i, k)'
      BY <1>1 DEF Brings, Loading
    <3> QED BY <1>6, <1>7, <3>1, <3>2, PendingKept
  <2> QED BY <2>1, <2>2
<1>8. \A i \in Instances, k \in Kinds : Covered(i, k)'
  BY <1>1, <1>5, <1>7, CoveredKept, SameTables DEF CopiesInv
<1> QED BY <1>4, <1>8 DEF CopiesInv

\* A copy of a table is what its queries return.
LEMMA CurrentSame ==
  ASSUME NEW k \in Kinds \ {"transports"},
         \A n \in 1..Len(Queries(k)) : Result(k, Queries(k)[n])' = Result(k, Queries(k)[n])
  PROVE  Current(k)' = Current(k)
<1>1. DOMAIN Queries(k) = 1..Len(Queries(k))
  BY QueryCounts
<1> QED BY <1>1 DEF Current

\* A change of what query q of table k returns, and of nothing else.
Changes(k, q) ==
    /\ \A x \in Kinds \ {"transports"} : \A n \in 1..Len(Queries(x)) :
          x # k \/ Queries(x)[n] # q => Result(x, Queries(x)[n])' = Result(x, Queries(x)[n])
    /\ k # "servers" => Current("transports")' = Current("transports")
LoadBegins(k, q) ==
    \E w \in Callers, i \in Instances, z \in Kinds \ {"transports"} :
       ~Loading(w) /\ load' = [Outdated(k, q) EXCEPT ![w] = NewLoad(i, z)]

\* A change passes by the loads that have made the query already, and they know.
LEMMA OutdatedFresh ==
  ASSUME LoadsOK, NEW p \in Loaders, Fresh(p), NEW k, NEW q, load'[p] = Outdated(k, q)[p],
         Changes(k, q)
  PROVE  Fresh(p)'
<1> SUFFICES ASSUME Loading(p)', ~load'[p].dirty PROVE Fresh(p)'
  BY DEF Fresh
<1>1. Loading(p) /\ load'[p] = load[p]
  BY OutdatedLoads DEF Loading
<1>2. load[p] \in LoadTypes
  BY <1>1 DEF LoadsOK, Loading
<1>3. ~( \/ load[p].kind = k /\ \E n \in 1..Len(load[p].read) : Queries(k)[n] = q
         \/ k = "servers" /\ load[p].kind = "transports")
  <2> SUFFICES ASSUME \/ load[p].kind = k /\ \E n \in 1..Len(load[p].read) : Queries(k)[n] = q
                      \/ k = "servers" /\ load[p].kind = "transports"
               PROVE  FALSE
    OBVIOUS
  <2>1. load'[p] = [load[p] EXCEPT !.dirty = TRUE]
    BY <1>1 DEF Outdated
  <2> QED BY <1>2, <2>1 DEF LoadTypes, Loads
<1>4. CASE load[p].kind = "transports"
  BY <1>1, <1>3, <1>4 DEF Fresh, Changes
<1>5. CASE load[p].kind # "transports"
  <2>1. load[p].kind \in Kinds \ {"transports"} /\ Len(load[p].read) <= Len(Queries(load[p].kind))
        /\ Len(load[p].read) \in Nat /\ Len(Queries(load[p].kind)) \in Nat
    BY <1>2, <1>5, QueryCounts DEF LoadTypes, Loads
  <2>2. PICK z \in Kinds \ {"transports"} : z = load[p].kind
    BY <2>1
  <2>3. \A n \in 1..Len(load[p].read) : load[p].read[n] = Result(z, Queries(z)[n])
    BY <1>1, <1>5, <2>2 DEF Fresh
  <2>4. \A n \in 1..Len(load[p].read) : Result(z, Queries(z)[n])' = Result(z, Queries(z)[n])
    BY <1>3, <2>1, <2>2 DEF Changes
  <2>5. (\A n \in 1..Len(load[p].read) : load[p].read[n] = Result(load[p].kind, Queries(load[p].kind)[n]))'
    BY <1>1, <2>2, <2>3, <2>4
  <2> QED BY <1>1, <1>5, <2>5 DEF Fresh
<1> QED BY <1>4, <1>5

\* What a change leaves of the loads, with the one that its handler begins.
LEMMA WrittenLoads ==
  ASSUME LoadsOK, NEW k, NEW q, \A p \in Loaders : Fresh(p),
         load' = Outdated(k, q) \/ LoadBegins(k, q),
         Changes(k, q)
  PROVE  /\ \A p \in Loaders : Fresh(p)'
         /\ \A p \in Loaders, i \in Instances, x \in Kinds : Brings(p, i, x) => Brings(p, i, x)'
<1> DEFINE o == Outdated(k, q)
<1>1. /\ o \in [Loaders -> LoadTypes \cup {None}]
      /\ \A p \in Loaders : /\ o[p] # None <=> Loading(p)
                            /\ Loading(p) => o[p].on = load[p].on /\ o[p].kind = load[p].kind
  BY OutdatedLoads
<1> HIDE DEF o
<1>2. ASSUME NEW p \in Loaders, load'[p] = o[p]
      PROVE  Fresh(p)' /\ \A i \in Instances, x \in Kinds : Brings(p, i, x) => Brings(p, i, x)'
  <2>1. Fresh(p)'
    BY <1>2, OutdatedFresh DEF o
  <2>2. Loading(p) => Loading(p)' /\ load'[p].on = load[p].on /\ load'[p].kind = load[p].kind
    BY <1>1, <1>2 DEF Loading
  <2> QED BY <2>1, <2>2 DEF Brings
<1>3. CASE load' = o
  BY <1>2, <1>3
<1>4. ASSUME NEW w \in Callers, NEW i \in Instances, NEW z \in Kinds \ {"transports"},
             ~Loading(w), load' = [o EXCEPT ![w] = NewLoad(i, z)]
      PROVE  /\ \A p \in Loaders : Fresh(p)'
             /\ \A p \in Loaders, j \in Instances, x \in Kinds : Brings(p, j, x) => Brings(p, j, x)'
  <2>1. w \in Loaders /\ load'[w] = NewLoad(i, z) /\ \A p \in Loaders \ {w} : load'[p] = o[p]
    BY <1>1, <1>4 DEF Loaders
  <2>2. Fresh(w)'
    <3>1. load'[w].kind # "transports" /\ Len(load'[w].read) = 0
      BY <2>1, FirstLoad
    <3> QED BY <3>1 DEF Fresh
  <2>3. \A j \in Instances, x \in Kinds : ~Brings(w, j, x)
    BY <1>4 DEF Brings
  <2> QED BY <1>2, <2>1, <2>2, <2>3
<1> QED BY <1>3, <1>4 DEF o, LoadBegins

\* A handler changes an allowlist or an alias: its instance will load the table,
\* and the others will hear of it or have missed it.
LEMMA ListWritten ==
  ASSUME GatewayTypes, CopiesInv, NEW w \in Callers, NEW i \in Instances, NEW k \in Lists,
         NEW scope \in {"org", "team", "key"}, NEW new,
         task[w].step \in {"idle", "check"}, Written(w, i, k, scope, new),
         Become(w, [step |-> "reload", on |-> i, kind |-> k, fetch |-> None])
  PROVE  CopiesInv'
<1> USE DEF GatewayTypes
<1> DEFINE t == [step |-> "reload", on |-> i, kind |-> k, fetch |-> None]
<1>1. /\ UNCHANGED <<rows, cached, channel>> /\ missed' = MissedBy(Instances \ {i}, k)
      /\ load' = [Outdated(k, scope) EXCEPT ![w] = NewLoad(i, k)]
      /\ lists' = [lists EXCEPT ![k][scope] = new]
  BY DEF Written
<1>2. task'[w] = t /\ \A v \in Callers \ {w} : task'[v] = task[v]
  BY DEF TasksOK, Become
<1>3. t.step = "reload" /\ t.on = i /\ t.kind = k /\ k \in Kinds \ {"transports"} /\ k # "servers"
  BY DEF Kinds, Lists
<1> HIDE DEF t
<1>4. ~Loading(w) /\ w \in Loaders
  BY DEF LoadersOK, Loaders
<1>5. \A x \in Kinds \ {"transports"} : \A n \in 1..Len(Queries(x)) :
         x # k \/ Queries(x)[n] # scope => Result(x, Queries(x)[n])' = Result(x, Queries(x)[n])
  <2> SUFFICES ASSUME NEW x \in Kinds \ {"transports"}, NEW n \in 1..Len(Queries(x)),
                      x # k \/ Queries(x)[n] # scope
               PROVE  Result(x, Queries(x)[n])' = Result(x, Queries(x)[n])
    OBVIOUS
  <2>1. CASE x = "servers"
    BY <1>1, <2>1 DEF Result, Active, Live
  <2>2. CASE x \in Lists
    <3>1. lists \in [Lists -> [{"org", "team", "key"} -> SUBSET (Models \cup Servers)]]
      BY DEF TablesOK, ContentsOK
    <3>2. Queries(x)[n] \in {"org", "team", "key"} /\ x # "servers"
      BY <2>2, QueryCounts DEF Lists
    <3>3. lists'[x][Queries(x)[n]] = lists[x][Queries(x)[n]]
      BY <1>1, <2>2, <3>1, <3>2, CellSet
    <3> QED BY <3>2, <3>3 DEF Result
  <2> QED BY <2>1, <2>2 DEF Kinds
<1>6. \A x \in Kinds \ {k} : Current(x)' = Current(x)
  <2> TAKE x \in Kinds \ {k}
  <2>1. CASE x = "transports"
    <3>1. Result("servers", "active")' = Result("servers", "active")
      BY <1>1 DEF Result, Active, Live
    <3> QED BY <2>1, <3>1 DEF Current
  <2>2. CASE x # "transports"
    BY <1>5, <2>2, CurrentSame
  <2> QED BY <2>1, <2>2
<1>7. /\ \A p \in Loaders : Fresh(p)'
      /\ \A p \in Loaders, j \in Instances, x \in Kinds : Brings(p, j, x) => Brings(p, j, x)'
  <2>1. Current("transports")' = Current("transports")
    BY <1>3, <1>6 DEF Kinds
  <2>2. LoadsOK /\ \A p \in Loaders : Fresh(p)
    BY DEF CopiesInv
  <2>3. LoadBegins(k, scope)
    BY <1>1, <1>3, <1>4 DEF LoadBegins
  <2>4. Changes(k, scope)
    BY <1>5, <2>1 DEF Changes
  <2> QED BY <2>2, <2>3, <2>4, WrittenLoads
<1>8. \A v \in Callers, j \in Instances, x \in Kinds : Owes(v, j, x) => Owes(v, j, x)'
  <2>1. \A j \in Instances, x \in Kinds : ~Owes(w, j, x)
    BY DEF Owes
  <2> QED BY <1>2, <2>1, OwesSame
<1>9. \A j \in Instances, x \in Kinds :
         /\ missed[j][x] => missed'[j][x]
         /\ j # i /\ x = k /\ k \notin Announced => missed'[j][x]
  BY <1>1 DEF MissedBy
<1>10. ASSUME NEW j \in Instances, NEW x \in Kinds PROVE Covered(j, x)'
  <2>1. CASE x # k
    <3>1. Pending(j, x) => Pending(j, x)'
      BY <1>1, <1>7, <1>8, PendingKept
    <3> QED BY <1>1, <1>6, <1>9, <2>1, <3>1, CoveredKept DEF CopiesInv
  <2>2. CASE x = k /\ j = i
    <3>1. load'[w] = NewLoad(i, k)
      BY <1>1, <1>4 DEF Outdated
    <3>2. Brings(w, i, k)'
      BY <1>3, <3>1, FirstLoad DEF Brings, Loading
    <3> QED BY <1>4, <2>2, <3>2 DEF Covered, Pending
  <2>3. CASE x = k /\ j # i
    <3>1. CASE k \in Announced
      <4>1. Owes(w, j, x)'
        BY <1>2, <1>3, <2>3, <3>1 DEF Owes
      <4> QED BY <4>1 DEF Covered, Pending
    <3>2. CASE k \notin Announced
      BY <1>9, <2>3, <3>2 DEF Covered
    <3> QED BY <3>1, <3>2
  <2> QED BY <2>1, <2>2, <2>3
<1> QED BY <1>7, <1>10 DEF CopiesInv

\* A change of the servers is one of the tables of servers and of transports.
LEMMA RowsChange ==
  ASSUME UNCHANGED lists
  PROVE  Changes("servers", "active") /\ \A k \in Lists : Current(k)' = Current(k)
<1>1. \A k \in Lists : k # "servers" /\ k \in Kinds \ {"transports"}
  BY DEF Lists, Kinds
<1>2. \A k \in Lists : \A q : Result(k, q)' = Result(k, q)
  BY <1>1 DEF Result
<1>3. \A k \in Lists : Current(k)' = Current(k)
  BY <1>1, <1>2, CurrentSame
<1>4. \A n \in 1..Len(Queries("servers")) : Queries("servers")[n] = "active"
  BY DEF Queries
<1> QED BY <1>2, <1>3, <1>4 DEF Changes, Kinds

\* A handler changes a server: its instance will load the tables, and the others
\* have missed it.
LEMMA CopyWritten ==
  ASSUME GatewayTypes, CopiesInv, NEW w \in Callers, task[w].step = "idle", RowRequest(w)
  PROVE  CopiesInv'
<1> USE DEF GatewayTypes
<1>1. PICK i \in Instances, s \in Servers, row \in ServerRows :
         \/ /\ WriteRow(s, row, Instances \ {i})
            /\ \E fetch \in Servers \cup {None} : ThenReload(w, i, fetch)
         \/ WriteRow(s, row, Instances) /\ load' = Outdated("servers", "active") /\ UNCHANGED task
         \/ /\ WriteRow(s, row, Instances \ {i}) /\ load' = Outdated("servers", "active")
            /\ Become(w, [step |-> "forget", on |-> i, kind |-> "servers", server |-> s, fetch |-> None])
  BY DEF RowRequest
<1>2. UNCHANGED <<lists, cached, channel>>
  BY <1>1 DEF WriteRow
<1>3. ~Loading(w) /\ w \in Loaders
  BY DEF LoadersOK, Loaders
<1>4. load' = Outdated("servers", "active") \/ LoadBegins("servers", "active")
  <2>1. ASSUME NEW fetch, ThenReload(w, i, fetch) PROVE LoadBegins("servers", "active")
    <3>1. "servers" \in Kinds \ {"transports"}
      BY DEF Kinds
    <3> QED BY <1>3, <2>1, <3>1 DEF ThenReload, LoadBegins
  <2> QED BY <1>1, <2>1
<1>5. /\ \A p \in Loaders : Fresh(p)'
      /\ \A p \in Loaders, j \in Instances, x \in Kinds : Brings(p, j, x) => Brings(p, j, x)'
  <2>1. LoadsOK /\ \A p \in Loaders : Fresh(p)
    BY DEF CopiesInv
  <2>2. Changes("servers", "active")
    BY <1>2, RowsChange
  <2> QED BY <1>4, <2>1, <2>2, WrittenLoads
<1>6. \A v \in Callers, j \in Instances, x \in Kinds : Owes(v, j, x) => Owes(v, j, x)'
  <2>1. \A j \in Instances, x \in Kinds : ~Owes(w, j, x)
    BY DEF Owes
  <2>2. \A v \in Callers \ {w} : task'[v] = task[v]
    BY <1>1 DEF ThenReload, Become, TasksOK
  <2> QED BY <2>1, <2>2 DEF Owes
<1>7. \A j \in Instances, x \in Kinds : missed[j][x] => missed'[j][x]
  BY <1>1 DEF WriteRow, MissedBy
<1>8. ASSUME NEW j \in Instances, NEW x \in Kinds PROVE Covered(j, x)'
  <2>1. CASE x \in Lists
    <3>1. Current(x)' = Current(x)
      BY <1>2, <2>1, RowsChange
    <3>2. Pending(j, x) => Pending(j, x)'
      BY <1>2, <1>5, <1>6, PendingKept
    <3> QED BY <1>2, <1>7, <3>1, <3>2, CoveredKept DEF CopiesInv
  <2>2. CASE x \in {"servers", "transports"} /\ missed'[j][x]
    BY <2>2 DEF Covered
  <2>3. CASE x \in {"servers", "transports"} /\ ~missed'[j][x]
    <3>1. j = i /\ ~WriteRow(s, row, Instances)
      BY <2>3 , <1>1 DEF WriteRow, MissedBy, Announced
    <3>2. ASSUME NEW fetch, ThenReload(w, i, fetch) PROVE Brings(w, i, x)'
      <4>1. load'[w] = NewLoad(i, "servers")
        BY <1>3, <3>2 DEF ThenReload, Outdated
      <4>2. "servers" \in Kinds \ {"transports"}
        BY DEF Kinds
      <4> QED BY <2>3, <4>1, <4>2, FirstLoad DEF Brings, Loading
    <3>3. ASSUME Become(w, [step |-> "forget", on |-> i, kind |-> "servers", server |-> s, fetch |-> None])
          PROVE  Owes(w, i, x)'
      <4> DEFINE t == [step |-> "forget", on |-> i, kind |-> "servers", server |-> s, fetch |-> None]
      <4>1. t.step = "forget" /\ t.on = i
        OBVIOUS
      <4> HIDE DEF t
      <4>2. task'[w] = t
        BY <3>3 DEF Become, TasksOK, t
      <4> QED BY <2>3, <4>1, <4>2 DEF Owes
    <3> QED BY <1>1, <1>3, <3>1, <3>2, <3>3 DEF Covered, Pending
  <2> QED BY <2>1, <2>2, <2>3 DEF Kinds
<1> QED BY <1>5, <1>8 DEF CopiesInv

\* A handler that has dropped the tools of a server loads the servers.
LEMMA CopyOwed ==
  ASSUME GatewayTypes, CopiesInv, NEW w \in Callers, Unsave(w)
  PROVE  CopiesInv'
<1> USE DEF GatewayTypes
<1>1. /\ task[w].step = "unsave" /\ UNCHANGED <<lists, rows, cached, channel, missed>>
      /\ load' = [load EXCEPT ![w] = NewLoad(task[w].on, "servers")]
      /\ Become(w, [step |-> "reload", on |-> task[w].on, kind |-> "servers", fetch |-> None])
  BY DEF Unsave
<1>2. PICK i \in Instances : i = task[w].on
  <2>1. task[w] \in ForgetTasks
    BY <1>1, Shapes DEF TasksOK
  <2> QED BY <2>1 DEF ForgetTasks
<1>3. ~Loading(w) /\ w \in Loaders /\ "servers" \in Kinds \ {"transports"}
  BY <1>1 DEF LoadersOK, Loaders, Kinds
<1>4. /\ Fresh(w)' /\ Brings(w, i, "servers")' /\ Brings(w, i, "transports")'
      /\ \A q \in Loaders \ {w} : load'[q] = load[q]
      /\ \A q \in Loaders, j \in Instances, x \in Kinds : Brings(q, j, x) => Brings(q, j, x)'
  <2>1. LoadsOK /\ load' = [load EXCEPT ![w] = NewLoad(i, "servers")]
    BY <1>1, <1>2
  <2> QED BY <1>3, <2>1, LoadBegun
<1>5. \A q \in Loaders : Fresh(q)'
  BY <1>1, <1>4, FreshSame DEF CopiesInv
<1>6. \A v \in Callers \ {w} : task'[v] = task[v]
  BY <1>1 DEF Become, TasksOK
<1>7. ASSUME NEW j \in Instances, NEW x \in Kinds PROVE Covered(j, x)'
  <2>1. CASE Owes(w, j, x)
    <3>1. j = i /\ x \in {"servers", "transports"}
      BY <1>1, <1>2, <2>1 DEF Owes
    <3> QED BY <1>3, <1>4, <3>1 DEF Covered, Pending
  <2>2. CASE ~Owes(w, j, x)
    <3>1. \A v \in Callers : Owes(v, j, x) => Owes(v, j, x)'
      BY <1>6, <2>2 DEF Owes
    <3>2. Pending(j, x) => Pending(j, x)'
      BY <1>1, <1>4, <3>1, PendingKept
    <3> QED BY <1>1, <3>2, CoveredKept, SameTables DEF CopiesInv
  <2> QED BY <2>1, <2>2
<1> QED BY <1>5, <1>7 DEF CopiesInv

\* A step that leaves the tables, their copies and what the handlers owe alone.
LEMMA CopiesUntouched ==
  ASSUME GatewayTypes, CopiesInv, UNCHANGED tableVars,
         \A v \in Callers, i \in Instances, k \in Kinds : Owes(v, i, k) => Owes(v, i, k)'
  PROVE  CopiesInv'
<1>1. UNCHANGED <<lists, rows, cached, load, channel, missed>>
  BY DEF tableVars
<1>2. \A p \in Loaders : Fresh(p)'
  BY <1>1, FreshSame DEF CopiesInv
<1>3. \A p \in Loaders, i \in Instances, k \in Kinds : Brings(p, i, k) => Brings(p, i, k)'
  BY <1>1 DEF Brings, Loading
<1>4. \A i \in Instances, k \in Kinds : Pending(i, k) => Pending(i, k)'
  BY <1>1, <1>3, PendingKept
<1>5. \A i \in Instances, k \in Kinds : Covered(i, k)'
  BY <1>1, <1>4, CoveredKept, SameTables DEF CopiesInv
<1> QED BY <1>2, <1>5 DEF CopiesInv

\* An instance starts again: it has read every table, and the others that it has
\* not told of a change have missed it.
LEMMA RestartCopies ==
  ASSUME GatewayTypes, CopiesInv, NEW i \in Instances, Restart(i)
  PROVE  CopiesInv'
<1> USE DEF GatewayTypes
<1>1. /\ \A p \in Loaders : Loading(p)' <=> Loading(p) /\ load[p].on # i
      /\ \A p \in Loaders : Loading(p)' =>
            /\ load'[p].on = load[p].on /\ load'[p].kind = load[p].kind
            /\ load'[p] = load[p] \/ load'[p] = Outdated("servers", "active")[p]
            /\ rows' # rows => load'[p] = Outdated("servers", "active")[p]
      /\ \A w \in Callers : task'[w] = IF task[w] # Idle /\ task[w].on = i THEN Idle ELSE task[w]
  BY RestartLeaves
<1>2. Changes("servers", "active") /\ UNCHANGED lists
      /\ \A k \in Lists : Current(k)' = Current(k)
  BY RowsChange DEF Restart
<1>3. ASSUME NEW p \in Loaders PROVE Fresh(p)'
  <2>1. Fresh(p) /\ LoadsOK
    BY DEF CopiesInv
  <2>2. CASE ~Loading(p)'
    BY <2>2 DEF Fresh
  <2>3. CASE Loading(p)' /\ load'[p] = Outdated("servers", "active")[p]
    BY <1>2, <2>1, <2>3, OutdatedFresh
  <2>4. CASE load'[p] = load[p] /\ rows' = rows
    BY <1>2, <2>1, <2>4, FreshSame
  <2> QED BY <1>1, <2>2, <2>3, <2>4
<1>4. ASSUME NEW k \in Kinds PROVE Covered(i, k)'
  <2>1. cached'[i][k] = Current(k)'
    BY DEF Restart, TablesOK
  <2> QED BY <2>1 DEF Covered
<1>5. ASSUME NEW j \in Instances \ {i}, NEW k \in Kinds PROVE Covered(j, k)'
  <2>1. missed'[j][k] <=> \/ missed[j][k] \/ (k \notin Lists /\ rows' # rows)
                          \/ \E w \in Callers : Announcing(w, i, k)
    BY DEF Restart
  <2>2. cached'[j] = cached[j] /\ channel'[j] = channel[j]
    BY DEF Restart, TablesOK
  <2>3. CASE missed'[j][k]
    BY <2>3 DEF Covered
  <2>4. CASE ~missed'[j][k]
    <3>1. Current(k)' = Current(k)
      BY <1>2, <2>1, <2>4, SameTables
    <3>2. \A p \in Loaders : Brings(p, j, k) => Brings(p, j, k)'
      BY <1>1 DEF Brings
    <3>3. \A w \in Callers : Owes(w, j, k) => Owes(w, j, k)'
      <4> SUFFICES ASSUME NEW w \in Callers, Owes(w, j, k) PROVE Owes(w, j, k)'
        OBVIOUS
      <4>1. task[w].on # i
        BY <2>1, <2>4 DEF Owes, Announcing
      <4>2. task'[w] = task[w]
        BY <1>1, <4>1
      <4> QED BY <4>2 DEF Owes
    <3>4. Pending(j, k) => Pending(j, k)'
      BY <2>2, <3>2, <3>3, PendingKept
    <3> QED BY <2>1, <2>2, <3>1, <3>4, CoveredKept DEF CopiesInv
  <2> QED BY <2>3, <2>4
<1> QED BY <1>3, <1>4, <1>5 DEF CopiesInv

\* A step of somebody who owes nobody anything, which leaves the tables alone.
LEMMA CopiesOfOthers ==
  ASSUME GatewayTypes, CopiesInv, UNCHANGED tableVars, NEW w \in Callers, NEW t,
         Become(w, t), task[w].step \notin {"reload", "publish", "forget", "unsave"}
  PROVE  CopiesInv'
<1>1. task'[w] = t /\ \A v \in Callers \ {w} : task'[v] = task[v]
  BY DEF Become, TasksOK, GatewayTypes
<1>2. \A i \in Instances, k \in Kinds : ~Owes(w, i, k)
  BY DEF Owes
<1>3. \A v \in Callers, i \in Instances, k \in Kinds : Owes(v, i, k) => Owes(v, i, k)'
  BY <1>1, <1>2, OwesSame
<1> QED BY <1>3, CopiesUntouched

\* The requests of handlers of the allowlists and aliases.
LEMMA AccessCopies ==
  ASSUME GatewayTypes, CopiesInv, NEW w \in Callers, AccessNext(w)
  PROVE  CopiesInv'
<1>1. ASSUME NEW t \in Tasks, Handles(w, t), UNCHANGED tableVars PROVE CopiesInv'
  <2>1. Become(w, t) /\ task[w].step \in {"idle", "check"}
    BY <1>1, AccessTasks DEF Handles
  <2> QED BY <1>1, <2>1, CopiesOfOthers
<1>2. ASSUME NEW i \in Instances, NEW k \in Lists, NEW scope \in {"org", "team", "key"},
             NEW new \in SUBSET (Models \cup Servers), Written(w, i, k, scope, new),
             Become(w, [step |-> "reload", on |-> i, kind |-> k, fetch |-> None])
      PROVE  CopiesInv'
  <2>1. task[w].step \in {"idle", "check"}
    BY AccessTasks
  <2> QED BY <1>2, <2>1, ListWritten
<1> QED BY <1>1, <1>2, AccessTasks

\* The requests of handlers of servers, and their steps.
LEMMA ServerCopies ==
  ASSUME GatewayTypes, CopiesInv, NEW w \in Callers, ServerRequests(w) \/ ServerSteps(w)
  PROVE  CopiesInv'
<1>1. CASE ServerRequests(w)
  <2>1. task[w].step = "idle" /\ (QuietRequest(w) \/ RowRequest(w))
    BY <1>1, RequestTasks
  <2>2. CASE RowRequest(w)
    BY <2>1, <2>2, CopyWritten
  <2>3. CASE QuietRequest(w) /\ UNCHANGED task
    <3>1. \A v \in Callers, i \in Instances, k \in Kinds : Owes(v, i, k) => Owes(v, i, k)'
      BY <2>3 DEF Owes
    <3> QED BY <2>3, <3>1, CopiesUntouched DEF QuietRequest
  <2>4. ASSUME UNCHANGED tableVars, NEW i \in Instances, NEW s \in Servers,
               Become(w, GetTools(i, {s}, None))
        PROVE  CopiesInv'
    BY <2>1, <2>4, CopiesOfOthers
  <2> QED BY <2>1, <2>2, <2>3, <2>4 DEF QuietRequest
<1>2. CASE ServerSteps(w)
  <2>1. PICK t \in Tasks : Handles(w, t) /\ ToolTask(w, t)
    BY <1>2, ToolTasks
  <2>2. task'[w] = t /\ (\A v \in Callers \ {w} : task'[v] = task[v]) /\ Become(w, t)
    BY <2>1, TaskChanged DEF Handles, GatewayTypes
  <2>3. CASE task[w].step \in {"get", "list", "spawn"} /\ UNCHANGED tableVars
    BY <2>2, <2>3, CopiesOfOthers
  <2>4. CASE /\ task[w].step = "forget" /\ t.step = "unsave" /\ t.on = task[w].on
             /\ UNCHANGED tableVars
    <3>1. \A i \in Instances, k \in Kinds : Owes(w, i, k) =>
             t.step \in {"forget", "unsave"} /\ t.on = i /\ k \in {"servers", "transports"}
      BY <2>4 DEF Owes
    <3>2. \A v \in Callers, i \in Instances, k \in Kinds : Owes(v, i, k) => Owes(v, i, k)'
      BY <2>2, <3>1, OwesSame
    <3> QED BY <2>4, <3>2, CopiesUntouched
  <2>5. CASE Unsave(w)
    BY <2>5, CopyOwed
  <2> QED BY <2>1, <2>3, <2>4, <2>5 DEF ToolTask
<1> QED BY <1>1, <1>2

\* The copies stay as they should be.
LEMMA CopiesKept ==
  ASSUME GatewayTypes, CopiesInv, [Next]_vars
  PROVE  CopiesInv'
<1>1. CASE TablesNext
  BY <1>1, CopyRead, CopyStored, CopyNotRead, CopyAnnounced, CopyHeard DEF TablesNext
<1>2. ASSUME NEW w \in Callers, AccessNext(w) \/ ServerRequests(w) \/ ServerSteps(w) PROVE CopiesInv'
  BY <1>2, AccessCopies, ServerCopies
<1>3. ASSUME NEW w \in Callers, CallNext(w) PROVE CopiesInv'
  <2>1. UNCHANGED tableVars /\ \E t \in Tasks : Moves(w, t)
    BY <1>3, CallSteps
  <2>2. PICK t \in Tasks : Moves(w, t)
    BY <2>1
  <2>3. Become(w, t) /\ task[w].step \notin {"reload", "publish", "forget", "unsave"}
    BY <2>2 DEF Moves, Calling
  <2> QED BY <2>1, <2>3, CopiesOfOthers
<1>4. CASE UNCHANGED <<tableVars, task>>
  <2>1. \A v \in Callers, i \in Instances, k \in Kinds : Owes(v, i, k) => Owes(v, i, k)'
    BY <1>4 DEF Owes
  <2> QED BY <1>4, <2>1, CopiesUntouched
<1>5. CASE (\E f \in Fetchers : Background(f)) \/ (\E i \in Instances : Refresh(i) \/ Stale(i))
  BY <1>4, <1>5, BackgroundSteps
<1>6. CASE Forget \/ UNCHANGED vars
  <2>1. UNCHANGED <<tableVars, task>>
    BY <1>6 DEF Forget, Rest, vars
  <2> QED BY <1>4, <2>1
<1>7. ASSUME NEW i \in Instances, Restart(i) PROVE CopiesInv'
  BY <1>7, RestartCopies
<1> QED BY <1>1, <1>2, <1>3, <1>5, <1>6, <1>7 DEF Next

\* What an instance admits and forwards follows the tables (handler.go, app.go and
\* the caches of internal/proxy): an instance that has handled the announcements, has
\* no load under way and missed nothing has the copy that the tables are.
THEOREM CopiesFollow == Spec => []AccessFollows
<1>1. Init => CopiesInv
  <2> SUFFICES ASSUME Init PROVE CopiesInv
    OBVIOUS
  <2>1. \A p \in Loaders : ~Loading(p)
    BY DEF Init, TablesInit, Loading
  <2>2. \A i \in Instances, k \in Kinds : cached[i][k] = Current(k)
    BY DEF Init, TablesInit
  <2> QED BY <2>1, <2>2 DEF CopiesInv, Fresh, Covered
<1>2. GatewayTypes /\ CopiesInv /\ [Next]_vars => CopiesInv'
  BY CopiesKept
<1>3. GatewayTypes /\ CopiesInv => AccessFollows
  <2> SUFFICES ASSUME GatewayTypes, CopiesInv, NEW i \in Instances, NEW k \in Kinds, Settled(i, k)
               PROVE  cached[i][k] = Current(k)
    BY DEF AccessFollows
  <2> DEFINE loaded == IF k = "transports" THEN {"servers", "transports"} ELSE {k}
  <2>1. /\ ~missed[i][k]
        /\ \A n \in DOMAIN channel[i] : channel[i][n] # k
        /\ \A p \in Loaders : Loading(p) => (load[p].on # i \/ load[p].kind \notin loaded)
        /\ \A w \in Callers : task[w].step \in {"reload", "publish", "forget", "unsave"}
              => (task[w].kind \notin loaded \/ (task[w].on # i /\ task[w].kind \notin Announced))
    BY DEF Settled
  <2>2. \A p \in Loaders : ~Brings(p, i, k)
    BY <2>1 DEF Brings
  <2>3. ASSUME NEW w \in Callers, Owes(w, i, k) PROVE FALSE
    <3>1. CASE task[w].step \in {"forget", "unsave"} /\ task[w].on = i /\ k \in {"servers", "transports"}
      <4>1. task[w] \in ForgetTasks
        BY <3>1, Shapes DEF GatewayTypes, TasksOK
      <4>2. task[w].kind = "servers"
        BY <4>1 DEF ForgetTasks
      <4> QED BY <2>1, <3>1, <4>2
    <3>2. CASE /\ task[w].step \in {"reload", "publish"} /\ task[w].on # i
               /\ task[w].kind = k /\ k \in Announced
      BY <2>1, <3>2 DEF Announced
    <3> QED BY <2>3, <3>1, <3>2 DEF Owes
  <2> QED BY <2>1, <2>2, <2>3 DEF CopiesInv, Covered, Pending
<1> QED BY <1>1, <1>2, <1>3, TypesKept, PTL DEF Spec

=============================================================================
