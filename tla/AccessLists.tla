---------------------------- MODULE AccessLists -----------------------------
(***************************************************************************)
(* Who may use which model and which global MCP server, and the aliases of *)
(* the models (internal/api/admin/model_access.go, mcp_access.go,          *)
(* model_aliases.go with internal/db/model_access.go, mcp_access.go,       *)
(* model_aliases.go).  A request is checked query by query, written in one *)
(* transaction, read back into the copy of its instance and announced.     *)
(***************************************************************************)
EXTENDS CachedTables

Targets(k) == IF k = "access" THEN Servers ELSE Models

\* An empty list restricts nothing, except that of an organisation for MCP servers.
Allows(k, scope, list, x) == (list = {} /\ ~(k = "access" /\ scope = "org")) \/ x \in list

\* Check of the two caches, for a key of the team.
MayUse(i, k, x) ==
    \A n \in 1..3 : Allows(k, Queries(k)[n], cached[i][k][n], x)

\* CheckModelAccess and CheckMCPAccess.
MayUseNow(k, x) ==
    \A scope \in {"org", "team", "key"} : Allows(k, scope, lists[k][scope], x)

\* validateModelNames and validateMCPServerIDs.
Known(k, x) == k = "access" => (Active(x) /\ rows[x].scope = "global")

\* requireSubsetOfOrg and requireSubsetOfKeyEffective: the lists a new list of
\* the scope has to lie in.
Bounds(scope) ==
    CASE scope = "org" -> <<>> [] scope = "team" -> <<"org">> [] OTHER -> <<"team", "org">>

BeginSet(w) ==
    \E i \in Instances, k \in Lists \ {"aliases"}, scope \in {"org", "team", "key"} :
        \E new \in SUBSET Targets(k) :
            /\ Request(w, i)
            /\ \A x \in new : Known(k, x)
            /\ Become(w, [step |-> "check", on |-> i, kind |-> k, scope |-> scope, new |-> new,
                          left |-> IF new = {} THEN <<>> ELSE Bounds(scope), fetch |-> None])
            /\ UNCHANGED tableVars

CheckBound(w) ==
    LET t == task[w]  scope == Head(t.left) IN
    /\ t.step = "check" /\ t.left # <<>>
    /\ Become(w, IF \A x \in t.new : Allows(t.kind, scope, lists[t.kind][scope], x)
                 THEN [t EXCEPT !.left = Tail(@)] ELSE Idle)
    /\ UNCHANGED <<tableVars, events>>

\* The row is written; then the handler's own instance reads the table.
Written(w, i, k, scope, new) ==
    /\ lists' = [lists EXCEPT ![k][scope] = new]
    /\ load' = [Outdated(k, scope) EXCEPT ![w] = NewLoad(i, k)]
    /\ missed' = MissedBy(Instances \ {i}, k)
    /\ UNCHANGED <<rows, cached, channel>>

Set(w) ==
    LET t == task[w] IN
    /\ t.step = "check" /\ t.left = <<>>
    /\ Written(w, t.on, t.kind, t.scope, t.new)
    /\ Become(w, [step |-> "reload", on |-> t.on, kind |-> t.kind, fetch |-> None])
    /\ UNCHANGED events

ChangeAlias(w, scope, target) ==
    \E i \in Instances :
        /\ Request(w, i)
        /\ Written(w, i, "aliases", scope, target)
        /\ Become(w, [step |-> "reload", on |-> i, kind |-> "aliases", fetch |-> None])

\* The alias is unique in its scope, and its target a model of the registry.
CreateAlias(w, scope) ==
    /\ lists["aliases"][scope] = {}
    /\ \E m \in Models : ChangeAlias(w, scope, {m})

DeleteAlias(w, scope) == lists["aliases"][scope] # {} /\ ChangeAlias(w, scope, {})

CreateOrgAlias(w) == CreateAlias(w, "org")
CreateTeamAlias(w) == CreateAlias(w, "team")
DeleteOrgAlias(w) == DeleteAlias(w, "org")
DeleteTeamAlias(w) == DeleteAlias(w, "team")

AccessNext(w) ==
    \/ /\ Free(w)
       /\ \/ BeginSet(w) \/ CreateOrgAlias(w) \/ CreateTeamAlias(w)
          \/ DeleteOrgAlias(w) \/ DeleteTeamAlias(w)
    \/ CheckBound(w) \/ Set(w)
=============================================================================
