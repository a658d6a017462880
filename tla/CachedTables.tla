---------------------------- MODULE CachedTables ----------------------------
(***************************************************************************)
(* The tables that every instance keeps a copy of: which models and MCP    *)
(* servers an organisation, a team and a key may use, the aliases of the   *)
(* models, and the MCP servers with their transports (internal/proxy       *)
(* access_cache.go, mcp_access_cache.go, alias_cache.go,                   *)
(* mcp_server_cache.go, mcp_transport_cache.go; internal/api/admin         *)
(* handler.go; internal/app/app.go).  A copy is read query by query and    *)
(* then replaced, by the handler that changed the table, by the subscriber *)
(* of the announcements and by a ticker, and nothing orders the three.     *)
(*                                                                         *)
(* One organisation, one team of it and one key of the team.               *)
(***************************************************************************)
EXTENDS Naturals, Sequences, FiniteSets

CONSTANTS
    Instances, Callers,
    At,           \* At[w]: the instances caller w sends its requests to
    None,
    Models,       \* names the registry resolves
    Servers,      \* identifiers of MCP servers
    FirstServers, \* FirstServers[s]: None or the row at the start
    MaxEvents     \* bound: requests, ticks, lost messages, failures, restarts
                  \* and lapses of time, all together

VARIABLES
    lists,        \* lists[k][scope]: the allowlists, and the target of the one alias
    rows,         \* rows[s]: None or the row of the MCP server
    cached,       \* cached[i][k][q]: what instance i holds of query q of table k
    load,         \* load[p]: None, or what p has read of a table so far
    channel,      \* channel[i]: the announcements instance i has not handled
    missed,       \* history, missed[i][k]: i was not told of a change of k, failed to
                  \* read it, or has stored what it read before it
    task,         \* task[w]: what the handler of caller w is doing
    events        \* how many of the events have happened

tableVars == <<lists, rows, cached, load, channel, missed>>

ASSUME TablesAssumption ==
    /\ MaxEvents \in Nat /\ At \in [Callers -> SUBSET Instances] /\ IsFiniteSet(Callers)
    /\ None \notin Models \cup Servers
    /\ Callers \cap (Instances \X {"ticker", "subscriber"}) = {}

Idle == [step |-> "idle"]
Become(w, t) == task' = [task EXCEPT ![w] = t]
Event == events < MaxEvents /\ events' = events + 1
Free(w) == task[w] = Idle /\ events < MaxEvents
Request(w, i) == Free(w) /\ i \in At[w] /\ Event

-----------------------------------------------------------------------------
(* The tables and their queries.                                           *)

Lists == {"models", "aliases", "access"}
Kinds == Lists \cup {"servers", "transports"}
Announced == {"models", "aliases"}
\* A change of the access to MCP servers announces one of the access to models.
Message(k) == IF k = "access" THEN "models" ELSE k

Queries(k) ==
    CASE k \in {"servers", "transports"} -> <<"active">>
      [] k = "aliases" -> <<"org", "team">>
      [] OTHER -> <<"org", "team", "key">>

Live(s)   == rows[s] # None /\ rows[s].live
Active(s) == Live(s) /\ rows[s].active

Result(k, q) ==
    IF k = "servers" THEN [s \in Servers |-> IF Active(s) THEN rows[s] ELSE None]
    ELSE lists[k][q]

\* The transport cache keeps of a row what its connections depend on.
Connection(row) == IF row = None THEN None ELSE row.url

\* What a copy of table k would hold.
Current(k) ==
    IF k = "transports" THEN <<[s \in Servers |-> Connection(Result("servers", "active")[s])]>>
    ELSE [n \in DOMAIN Queries(k) |-> Result(k, Queries(k)[n])]

-----------------------------------------------------------------------------
(* Loads.  The tickers of one instance take turns: loads of different      *)
(* tables have nothing in common.                                          *)

Loaders == Callers \cup (Instances \X {"ticker", "subscriber"})

NewLoad(i, k) == [on |-> i, kind |-> k, read |-> <<>>, dirty |-> FALSE]
Loading(p) == load[p] # None
AllRead(p) == Loading(p) /\ Len(load[p].read) = Len(Queries(load[p].kind))

\* A change of what query q of k returns passes by the loads that have made it.
Outdated(k, q) ==
    [p \in Loaders |->
        IF /\ Loading(p)
           /\ \/ load[p].kind = k /\ \E n \in 1..Len(load[p].read) : Queries(k)[n] = q
              \/ k = "servers" /\ load[p].kind = "transports"
        THEN [load[p] EXCEPT !.dirty = TRUE] ELSE load[p]]

\* No instance but the one that changed an unannounced table learns of it.
MissedBy(others, k) ==
    [i \in Instances |-> [x \in Kinds |->
        \/ missed[i][x]
        \/ i \in others /\ (x = k \/ (x = "transports" /\ k = "servers")) /\ k \notin Announced]]

Read(p) ==
    LET l == load[p] IN
    /\ Loading(p) /\ ~AllRead(p)
    /\ load' = [load EXCEPT ![p].read = Append(@, Result(l.kind, Queries(l.kind)[Len(@) + 1]))]
    /\ UNCHANGED <<lists, rows, cached, channel, missed, task, events>>

\* Mutant of Copy: a scope that has no rows any more is left as it was.
CopyKeepsEmptied(old, k, read) ==
    [n \in DOMAIN read |-> IF k \in Lists /\ read[n] = {} THEN old[n] ELSE read[n]]
\* Mutant of Copy: what was read is added to the copy.
CopyAppends(old, k, read) == old \o read
\* Load and LoadAll replace the whole copy.
Copy(old, k, read) == read

\* What the loader does when its load is over, one way or another.
AfterLoad(p) ==
    IF p \notin Callers THEN UNCHANGED task
    ELSE Become(p, IF load[p].kind \in Lists THEN [task[p] EXCEPT !.step = "publish"]
                   ELSE IF task[p].fetch = None THEN Idle
                   ELSE [task[p] EXCEPT !.step = "spawn"])

\* The servers that were read go to the transport cache next.
Store(p) ==
    LET l == load[p]  i == l.on  k == l.kind IN
    /\ AllRead(p)
    /\ cached' = [cached EXCEPT ![i][k] = Copy(@, k, l.read)]
    /\ missed' = [missed EXCEPT ![i][k] = l.dirty]
    /\ IF k = "servers"
       THEN /\ load' = [load EXCEPT ![p].kind = "transports",
                                    ![p].read[1] = [s \in Servers |-> Connection(@[s])]]
            /\ UNCHANGED task
       ELSE load' = [load EXCEPT ![p] = None] /\ AfterLoad(p)
    /\ UNCHANGED <<lists, rows, channel, events>>

LoadFails(p) ==
    LET l == load[p] IN
    /\ Loading(p) /\ l.kind # "transports" /\ Event
    /\ load' = [load EXCEPT ![p] = None]
    /\ missed' = [missed EXCEPT ![l.on] = [k \in Kinds |->
           \/ @[k] \/ k = l.kind \/ (k = "transports" /\ l.kind = "servers")]]
    /\ AfterLoad(p)
    /\ UNCHANGED <<lists, rows, cached, channel>>

Tick(i) ==
    /\ ~Loading(<<i, "ticker">>) /\ Event
    /\ \E k \in Kinds \ {"transports"} : load' = [load EXCEPT ![<<i, "ticker">>] = NewLoad(i, k)]
    /\ UNCHANGED <<lists, rows, cached, channel, missed, task>>

-----------------------------------------------------------------------------
(* Announcements, which the announcing instance receives too.              *)

Publish(w) ==
    /\ task[w].step = "publish"
    /\ channel' = [i \in Instances |-> Append(channel[i], Message(task[w].kind))]
    /\ Become(w, Idle)
    /\ UNCHANGED <<lists, rows, cached, load, missed, events>>

PublishFails(w) ==
    /\ task[w].step = "publish" /\ Event
    /\ missed' = [i \in Instances |-> [k \in Kinds |->
           missed[i][k] \/ (k = task[w].kind /\ i # task[w].on)]]
    /\ Become(w, Idle)
    /\ UNCHANGED <<lists, rows, cached, load, channel>>

Receive(i) ==
    /\ channel[i] # <<>> /\ ~Loading(<<i, "subscriber">>)
    /\ channel' = [channel EXCEPT ![i] = Tail(@)]
    /\ load' = [load EXCEPT ![<<i, "subscriber">>] = NewLoad(i, Head(channel[i]))]
    /\ UNCHANGED <<lists, rows, cached, missed, task, events>>

Lose(i) ==
    /\ channel[i] # <<>> /\ Event
    /\ channel' = [channel EXCEPT ![i] = Tail(@)]
    /\ missed' = [missed EXCEPT ![i][Head(channel[i])] = TRUE]
    /\ UNCHANGED <<lists, rows, cached, load, task>>

-----------------------------------------------------------------------------

TablesInit ==
    /\ lists = [k \in Lists |-> [q \in {"org", "team", "key"} |-> {}]]
    /\ rows = FirstServers
    /\ cached = [i \in Instances |-> [k \in Kinds |-> Current(k)]]
    /\ load = [p \in Loaders |-> None]
    /\ channel = [i \in Instances |-> <<>>]
    /\ missed = [i \in Instances |-> [k \in Kinds |-> FALSE]]
    /\ task = [w \in Callers |-> Idle]
    /\ events = 0

TablesNext ==
    \/ \E p \in Loaders : Read(p) \/ Store(p) \/ LoadFails(p)
    \/ \E w \in Callers : Publish(w) \/ PublishFails(w)
    \/ \E i \in Instances : Tick(i) \/ Receive(i) \/ Lose(i)
=============================================================================
