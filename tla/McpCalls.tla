------------------------------ MODULE McpCalls ------------------------------
(***************************************************************************)
(* Calls of MCP servers (internal/api/admin/mcp_proxy.go HandleMCPProxy    *)
(* and CallMCPTool, internal/mcp/http_transport.go Call) and the scripts   *)
(* of Code Mode that make them (internal/app/code_mode.go,                 *)
(* internal/mcp/codemode_exec.go, codemode_pool.go).                       *)
(*                                                                         *)
(* An instance keeps one session for every alias.  A server that does not  *)
(* know a session answers 404, and the caller then replaces it, under one  *)
(* lock for all servers and only if nobody has replaced it yet.            *)
(***************************************************************************)
EXTENDS McpServers

CONSTANTS
    MaxSessions,  \* bound: sessions the servers ever open
    PoolSize,     \* runtimes of the pool
    MaxToolCalls

VARIABLES
    sessions,     \* sessions[i][a]: the session of alias a, 0 when there is none
    opened,       \* sessions opened so far; they are numbered
    alive,        \* alive[s]: the sessions that server s knows
    reinit,       \* reinit[i]: None, or the caller that holds mcpReInitMu
    refused,      \* history, refused[i][a]: the sessions i was answered 404 for
    reopened,     \* history, reopened[i][a]: how many sessions i opened in their place
    idle,         \* idle[i]: the runtimes in the pool of instance i
    lost          \* history, lost[i]: the runtimes that i could not make again

sessionVars == <<sessions, opened, alive, reinit, refused, reopened>>
poolVars == <<idle, lost>>

\* A script, and what it has left to call.
Scripts == [step: {"run"}, on: Instances, team: BOOLEAN, admin: BOOLEAN, left: 0..MaxToolCalls,
            tools: SUBSET (Aliases \X Tools)]

ASSUME CallsAssumption ==
    /\ MaxSessions \in Nat /\ PoolSize \in Nat \ {0} /\ MaxToolCalls \in Nat
    /\ None \notin Scripts

Rest == UNCHANGED <<tableVars, toolVars>>
Doing(w, step) == task[w].step = step /\ Rest /\ UNCHANGED events

-----------------------------------------------------------------------------
(* The servers.                                                            *)

Open(s) ==
    /\ opened < MaxSessions
    /\ opened' = opened + 1
    /\ alive' = [alive EXCEPT ![s] = @ \cup {opened + 1}]

\* A server starts again and knows no session any more.
Forget ==
    \E s \in Servers :
        /\ alive[s] # {}
        /\ alive' = [alive EXCEPT ![s] = {}]
        /\ Rest /\ UNCHANGED <<task, events, sessions, opened, reinit, refused, reopened, poolVars>>

-----------------------------------------------------------------------------
(* A call.                                                                 *)

\* The key may use every server of its own and the global ones it was given.
Callable(i, s, admin) == admin \/ rows[s].scope # "global" \/ MayUse(i, "access", s)

\* mcpSessions is read before the call is made.
Call(i, s, alias, tool, init, script) ==
    [step |-> "call", on |-> i, server |-> s, alias |-> alias, tool |-> tool, init |-> init,
     sid |-> IF init THEN 0 ELSE sessions[i][alias], script |-> script]

BeginCall(w) ==
    \E i \in Instances, alias \in Aliases, team, admin, init \in BOOLEAN :
        /\ Request(w, i)
        /\ \E s \in Lookup(i, alias, team) :
              /\ Callable(i, s, admin)
              /\ Become(w, Call(i, s, alias, None, init, None))
        /\ Rest /\ UNCHANGED <<sessionVars, poolVars>>

\* A call that is over returns to the script that made it.
Over(t) == IF t.script = None THEN Idle ELSE t.script

\* The connection fails, or the server answers; a server need not ask for a session.
Answered(w) ==
    LET t == task[w] IN
    /\ Doing(w, "call")
    /\ Become(w, Over(t))
    /\ UNCHANGED <<sessionVars, poolVars>>

Opened(w) ==
    LET t == task[w] IN
    /\ Doing(w, "call") /\ t.init
    /\ Open(t.server)
    /\ Become(w, [t EXCEPT !.step = "keep", !.sid = opened + 1])
    /\ UNCHANGED <<sessions, reinit, refused, reopened, poolVars>>

Refused(w) ==
    LET t == task[w] IN
    /\ Doing(w, "call") /\ ~t.init /\ t.sid \notin alive[t.server]
    /\ Become(w, [t EXCEPT !.step = "expired"])
    /\ refused' = [refused EXCEPT ![t.on][t.alias] = @ \cup {t.sid}]
    /\ UNCHANGED <<sessions, opened, alive, reinit, reopened, poolVars>>

\* The session of an answer is stored whatever is there by now.
Keep(w) ==
    LET t == task[w] IN
    /\ Doing(w, "keep")
    /\ sessions' = [sessions EXCEPT ![t.on][t.alias] = t.sid]
    /\ Become(w, Over(t))
    /\ UNCHANGED <<opened, alive, reinit, refused, reopened, poolVars>>

\* Mutant of Replaced: the lock is enough.
ReplacedNever(i, alias, sid) == FALSE
\* Another caller has replaced the session while this one waited for the lock.
Replaced(i, alias, sid) == sessions[i][alias] \notin {0, sid}

Lock(w) ==
    LET t == task[w]  i == t.on IN
    /\ Doing(w, "expired") /\ reinit[i] = None
    /\ IF Replaced(i, t.alias, t.sid)
       THEN Become(w, [t EXCEPT !.step = "retry"]) /\ UNCHANGED <<sessions, reinit>>
       ELSE /\ Become(w, [t EXCEPT !.step = "init"])
            /\ sessions' = [sessions EXCEPT ![i][t.alias] = 0]
            /\ reinit' = [reinit EXCEPT ![i] = w]
    /\ UNCHANGED <<opened, alive, refused, reopened, poolVars>>

InitializeFails(w) ==
    LET t == task[w] IN
    /\ Doing(w, "init")
    /\ Become(w, Over(t))
    /\ reinit' = [reinit EXCEPT ![t.on] = None]
    /\ UNCHANGED <<sessions, opened, alive, refused, reopened, poolVars>>

Initialize(w) ==
    LET t == task[w] IN
    /\ Doing(w, "init")
    /\ Open(t.server)
    /\ Become(w, [t EXCEPT !.step = "initialized", !.sid = opened + 1])
    /\ reopened' = [reopened EXCEPT ![t.on][t.alias] = @ + 1]
    /\ UNCHANGED <<sessions, reinit, refused, poolVars>>

\* The session is stored, the server is told, and the lock is released.
Initialized(w) ==
    LET t == task[w] IN
    /\ Doing(w, "initialized")
    /\ sessions' = [sessions EXCEPT ![t.on][t.alias] = t.sid]
    /\ reinit' = [reinit EXCEPT ![t.on] = None]
    /\ Become(w, [t EXCEPT !.step = "retry"])
    /\ UNCHANGED <<opened, alive, refused, reopened, poolVars>>

\* Whatever comes of the second call is the answer.
Retried(w) ==
    /\ Doing(w, "retry")
    /\ Become(w, Over(task[w]))
    /\ UNCHANGED <<sessionVars, poolVars>>

-----------------------------------------------------------------------------
(* Code Mode.                                                              *)

\* ListMCPServersByOrg and ListMCPServersByTeam.
OfOrg == {s \in Servers : Active(s) /\ rows[s].scope \in {"org", "global"}}
OfTeam == {s \in Servers : Active(s) /\ rows[s].scope \in {"team", "org", "global"}}

\* accessibleServers.
Accessible(team, admin) ==
    {s \in IF team THEN OfTeam ELSE OfOrg :
        rows[s].scope = "global" => (admin \/ MayUseNow("access", s))}

BlocklistOf(s) == {t \in Tools : <<s, t>> \in blocked}

\* blockedByServer keeps one blocklist of an alias: that of the last server that
\* has one, and the servers of one alias come in any order.
Blocklists(servers) ==
    LET of(a) == {BlocklistOf(s) : s \in {x \in servers : rows[x].alias = a}} \ {{}} IN
    {b \in [Aliases -> SUBSET Tools] :
        \A a \in Aliases : b[a] \in IF of(a) = {} THEN {{}} ELSE of(a)}

Wanted(team, admin, want) == {s \in Accessible(team, admin) : rows[s].alias \in want}

\* The tools of the servers that no blocklist of their alias holds.
Usable(servers, blocklist) ==
    {<<rows[s].alias, t>> : s \in servers, t \in Tools}
    \ UNION {{a} \X blocklist[a] : a \in Aliases}

Script(i, team, admin, usable) ==
    [step |-> "run", on |-> i, team |-> team, admin |-> admin, left |-> MaxToolCalls, tools |-> usable]

BeginExecute(w) ==
    \E i \in Instances, team, admin \in BOOLEAN, want \in (SUBSET Aliases) \ {{}} :
        LET servers == Wanted(team, admin, want) IN
        /\ Request(w, i)
        /\ \E blocklist \in Blocklists(servers) :
              Become(w, GetTools(i, servers, Script(i, team, admin, Usable(servers, blocklist))))
        /\ Rest /\ UNCHANGED <<sessionVars, poolVars>>

\* The tools of the aliases that have some, in a runtime of the pool.
Listing(w) == task[w].step = "get" /\ task[w].get = {} /\ task[w].script # None

\* Mutant of Runtimes: nothing is put into the pool in place of a runtime that is gone.
RuntimesNotRefilled == {<<"run", 1, 0>>, <<"fails", 1, 0>>, <<"fails", 1, 1>>}
\* Acquire takes a slot and makes a runtime.  If it cannot, it makes one for the
\* slot; if it cannot do that either, the slot is lost.
Runtimes == {<<"run", 1, 0>>, <<"fails", 0, 0>>, <<"fails", 1, 1>>}

Acquire(w) ==
    LET t == task[w]  i == t.on
        offered == {x \in t.script.tools : \E s \in t.got : rows[s].alias = x[1]} IN
    /\ Listing(w) /\ idle[i] > 0
    /\ \E r \in Runtimes :
          /\ Become(w, IF r[1] = "run" THEN [t.script EXCEPT !.tools = offered] ELSE Idle)
          /\ idle' = [idle EXCEPT ![i] = @ - r[2]]
          /\ lost' = [lost EXCEPT ![i] = @ + r[3]]
    /\ Rest /\ UNCHANGED <<events, sessionVars>>

\* The request ends while it waits for a runtime.
GiveUp(w) ==
    /\ Listing(w) /\ idle[task[w].on] = 0
    /\ Become(w, Idle)
    /\ Rest /\ UNCHANGED <<events, sessionVars, poolVars>>

\* CallMCPTool finds the server by its alias, as a call from outside does.
CallTool(w) ==
    LET t == task[w]  i == t.on IN
    /\ Doing(w, "run") /\ t.left > 0
    /\ \E x \in t.tools : \E s \in Lookup(i, x[1], t.team) :
          /\ Callable(i, s, t.admin)
          /\ Become(w, Call(i, s, x[1], x[2], FALSE, [t EXCEPT !.left = @ - 1]))
    /\ UNCHANGED <<sessionVars, poolVars>>

\* Release puts a new runtime into the pool, if there is room and one can be made.
Release(w) ==
    LET i == task[w].on IN
    /\ Doing(w, "run")
    /\ Become(w, Idle)
    /\ \/ idle' = [idle EXCEPT ![i] = IF @ < PoolSize THEN @ + 1 ELSE @] /\ UNCHANGED lost
       \/ lost' = [lost EXCEPT ![i] = @ + 1] /\ UNCHANGED idle
    /\ UNCHANGED sessionVars

-----------------------------------------------------------------------------

CallsInit ==
    /\ sessions = [i \in Instances |-> [a \in Aliases |-> 0]]
    /\ opened = 0
    /\ alive = [s \in Servers |-> {}]
    /\ reinit = [i \in Instances |-> None]
    /\ refused = [i \in Instances |-> [a \in Aliases |-> {}]]
    /\ reopened = [i \in Instances |-> [a \in Aliases |-> 0]]
    /\ idle = [i \in Instances |-> PoolSize]
    /\ lost = [i \in Instances |-> 0]

CallNext(w) ==
    \/ (Free(w) /\ (BeginCall(w) \/ BeginExecute(w)))
    \/ Answered(w) \/ Opened(w) \/ Refused(w) \/ Keep(w) \/ Lock(w)
    \/ InitializeFails(w) \/ Initialize(w) \/ Initialized(w) \/ Retried(w)
    \/ Acquire(w) \/ GiveUp(w) \/ CallTool(w) \/ Release(w)
=============================================================================
