----------------------------- MODULE McpGateway -----------------------------
(***************************************************************************)
(* The MCP gateway of several instances: the tables of AccessLists, the    *)
(* servers and their tools of McpServers, and the calls of McpCalls, with  *)
(* instances that stop and start (internal/app/app.go).                    *)
(***************************************************************************)
EXTENDS McpCalls

vars == <<tableVars, task, events, toolVars, sessionVars, poolVars>>

Init == TablesInit /\ ToolsInit /\ CallsInit

\* A handler on i that has changed an announced table and not yet announced it.
Announcing(w, i, k) ==
    /\ task[w].step \in {"reload", "publish"} /\ task[w].on = i
    /\ task[w].kind = k /\ k \in Announced

\* New puts the servers in order and reads every table and the saved tools before
\* it subscribes.  An instance that cannot start takes no step any more.
Restart(i) ==
    /\ Event
    /\ \E table \in Synced : rows' \in Probed(table)
    /\ UNCHANGED lists
    /\ cached' = [cached EXCEPT ![i] = [k \in Kinds |-> Current(k)']]
    /\ channel' = [channel EXCEPT ![i] = <<>>]
    /\ missed' = [j \in Instances |-> [k \in Kinds |->
           /\ j # i
           /\ \/ missed[j][k] \/ (k \notin Lists /\ rows' # rows)
              \/ \E w \in Callers : Announcing(w, i, k)]]
    /\ load' = [p \in Loaders |->
           IF Loading(p) /\ load[p].on = i THEN None
           ELSE IF rows' = rows THEN load[p] ELSE Outdated("servers", "active")[p]]
    /\ task' = [w \in Callers |-> IF task[w] # Idle /\ task[w].on = i THEN Idle ELSE task[w]]
    /\ tools' = [tools EXCEPT ![i] = [s \in Servers |-> IF s \in saved THEN "stale" ELSE None]]
    /\ toolLock' = [toolLock EXCEPT ![i] = None]
    /\ fetches' = [f \in Fetchers |-> IF fetches[f] # None /\ fetches[f].on = i THEN None ELSE fetches[f]]
    /\ sessions' = [sessions EXCEPT ![i] = [a \in Aliases |-> 0]]
    /\ reinit' = [reinit EXCEPT ![i] = None]
    /\ refused' = [refused EXCEPT ![i] = [a \in Aliases |-> {}]]
    /\ reopened' = [reopened EXCEPT ![i] = [a \in Aliases |-> 0]]
    /\ idle' = [idle EXCEPT ![i] = PoolSize]
    /\ lost' = [lost EXCEPT ![i] = 0]
    /\ UNCHANGED <<saved, blocked, purged, opened, alive>>

Next ==
    \/ TablesNext /\ UNCHANGED <<toolVars, sessionVars, poolVars>>
    \/ \E w \in Callers :
          \/ AccessNext(w) /\ UNCHANGED <<toolVars, sessionVars, poolVars>>
          \/ (ServerRequests(w) \/ ServerSteps(w)) /\ UNCHANGED <<sessionVars, poolVars>>
          \/ CallNext(w)
    \/ \E f \in Fetchers : Background(f) /\ UNCHANGED <<sessionVars, poolVars>>
    \/ \E i \in Instances : (Refresh(i) \/ Stale(i)) /\ UNCHANGED <<sessionVars, poolVars>>
    \/ Forget
    \/ \E i \in Instances : Restart(i)

Spec == Init /\ [][Next]_vars

-----------------------------------------------------------------------------
(* Properties.                                                             *)

\* No message, load or handler of instance i will still bring it table k.
Settled(i, k) ==
    LET loaded == IF k = "transports" THEN {"servers", "transports"} ELSE {k} IN
    /\ ~missed[i][k]
    /\ \A n \in DOMAIN channel[i] : channel[i][n] # k
    /\ \A p \in Loaders : Loading(p) => (load[p].on # i \/ load[p].kind \notin loaded)
    /\ \A w \in Callers : task[w].step \in {"reload", "publish", "forget", "unsave"}
                             => (task[w].kind \notin loaded
                                 \/ (task[w].on # i /\ task[w].kind \notin Announced))

\* What an instance admits and forwards follows the tables: once it has handled
\* the announcements and none of its loads is under way, and unless it has stored
\* something read before a change, failed to read it, or was never told of it,
\* its copy is what the tables hold.
AccessFollows ==
    \A i \in Instances, k \in Kinds :
        Settled(i, k) => cached[i][k] = Current(k)

\* The tools of a deleted server are gone for good, in memory and in the
\* database, unless somebody was about to store them when they were dropped: no
\* refresh, listing or restart brings them back.
PurgedStaysGone ==
    \A i \in Instances : \A s \in purged[i] : tools[i][s] = None /\ s \notin saved

\* Every session that a server has given up is replaced once, however many calls
\* it was refused for: an instance opens no more sessions of an alias in the place
\* of others than were refused to it.
OneInitPerExpiry ==
    \A i \in Instances, a \in Aliases : reopened[i][a] <= Cardinality(refused[i][a])

\* The pool of an instance has a runtime for each of its slots that no script
\* uses, whatever fails, but for those that could not be made again.
Calling == {"call", "keep", "expired", "init", "initialized", "retry"}
Running(w, i) ==
    /\ task[w].step = "run" \/ (task[w].step \in Calling /\ task[w].script # None)
    /\ task[w].on = i
SlotsKept ==
    \A i \in Instances :
        idle[i] + Cardinality({w \in Callers : Running(w, i)}) + lost[i] = PoolSize

\* The variables have their types.
TypeOK ==
    /\ lists \in [Lists -> [{"org", "team", "key"} -> SUBSET (Models \cup Servers)]]
    /\ rows \in [Servers -> ServerRows \cup {None}]
    /\ \A i \in Instances, k \in Kinds : Len(cached[i][k]) = Len(Queries(k))
    /\ tools \in [Instances -> [Servers -> {None, "fresh", "stale"}]]
    /\ saved \subseteq Servers /\ blocked \subseteq Servers \X Tools
    /\ sessions \in [Instances -> [Aliases -> 0..opened]] /\ opened <= MaxSessions
    /\ toolLock \in [Instances -> Callers \cup {None}] /\ reinit \in [Instances -> Callers \cup {None}]
    /\ idle \in [Instances -> 0..PoolSize] /\ events <= MaxEvents
=============================================================================
