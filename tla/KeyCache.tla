------------------------------ MODULE KeyCache ------------------------------
(***************************************************************************)
(* API keys and the cache that authenticates them: the handlers of         *)
(* internal/api/admin/keys.go and auth.go, the api_keys table, each        *)
(* instance's key cache (internal/cache, internal/auth), its reload every  *)
(* KeyTTL and the evictions that arrive over Redis.                        *)
(*                                                                         *)
(* A request is authenticated from the cache alone: a key that is not in   *)
(* it is refused, whatever the database holds.                             *)
(***************************************************************************)
EXTENDS Accounts

CONSTANTS
    MaxKeys,          \* bound: keys ever created
    InitialKeys,      \* the first rows
    MaxDay            \* bound: days; a session and a rotated key last for one

VARIABLES
    keys,             \* by id: None or the row
    cache,            \* by instance and id: None or the entry
    listed,           \* by instance: the rows that a reload has read, or None
    channel,          \* by instance: undelivered evictions
    now,              \* the day
    refused           \* history, by instance: the keys that were gone at its last
                      \* reload, when no handler of it was about to store them

keyVars == <<keys, cache, listed, channel, now, refused>>
vars    == <<tables, inviteVars, task, up, events, keyVars>>

Ids   == 1..MaxKeys
Days  == 0..MaxDay
Never == MaxDay + 2          \* later than every deadline

\* The rows: the key of a user or the session of one, or a key of the team or of
\* its service account.
Rows ==
    [type: {"user", "session"}, user: Users, onTeam: BOOLEAN, limit: {0, 1},
     expires: Nat, deleted: BOOLEAN]
    \cup [type: {"team", "sa"}, user: {None}, onTeam: BOOLEAN, limit: {0, 1},
          expires: Nat, deleted: BOOLEAN]

ASSUME KeyAssumption ==
    /\ MaxKeys \in Nat /\ MaxDay \in Nat /\ Len(InitialKeys) <= MaxKeys
    /\ InitialKeys \in Seq(Rows) /\ None \notin Rows
    /\ \A k \in 1..Len(InitialKeys) : InitialKeys[k].user \in {Founder, None}

Key(type, user, onTeam, limit, expires) ==
    [type |-> type, user |-> user, onTeam |-> onTeam, limit |-> limit,
     expires |-> expires, deleted |-> FALSE]

LiveKey(k) == keys[k] # None /\ ~keys[k].deleted
FreeKeys == {k \in Ids : keys[k] = None /\ \A j \in 1..(k - 1) : keys[j] # None}
Sessions(u) == {k \in Ids : keys[k] # None /\ keys[k].type = "session" /\ keys[k].user = u}

(* The statements and transactions on the table.                           *)
InsertRow(k, row) == keys' = [keys EXCEPT ![k] = row]
ChangeRow(k, row) == LiveKey(k) /\ keys' = [keys EXCEPT ![k] = row]
DeleteRow(k)      == LiveKey(k) /\ keys' = [keys EXCEPT ![k].deleted = TRUE]
\* RotateKeyTx: the new row and the deadline of the old one, or neither.
RotateRows(old, deadline, new, row) ==
    LiveKey(old) /\ keys' = [keys EXCEPT ![new] = row, ![old].expires = deadline]
DeleteSessions(gone) ==
    keys' = [k \in Ids |-> IF k \in gone THEN [keys[k] EXCEPT !.deleted = TRUE] ELSE keys[k]]
\* ChangePasswordAndRevokeOtherSessions, RemovePasswordAndRevokeOtherSessions.
SetPassword(u, to, except) ==
    /\ ChangeUser(u, [users[u] EXCEPT !.password = to])
    /\ DeleteSessions(Sessions(u) \ {except})

-----------------------------------------------------------------------------
(* Entries: by the reload, and by the handlers that make a key.            *)

\* A user without a membership, deleted or not, loads as a member; the row of a
\* service account's key names no team.
ListedRole(k) ==
    CASE keys[k].type = "team" -> "team_admin"
      [] keys[k].type = "sa"   -> "org_admin"
      [] OTHER -> LET u == users[keys[k].user] IN
                  IF u.live /\ u.admin THEN "system_admin"
                  ELSE IF u.role # None THEN u.role ELSE "member"

EntryOf(row, role, orgLimit, teamLimit) ==
    [role |-> role, user |-> row.user, limit |-> row.limit, orgLimit |-> orgLimit,
     teamLimit |-> teamLimit, expires |-> row.expires]

\* LoadAllActiveKeys
Active(k) == LiveKey(k) /\ org.live /\ keys[k].expires > now

ListedEntry(k) ==
    EntryOf(keys[k], ListedRole(k), org.limit,
            IF keys[k].onTeam /\ team.live THEN team.limit ELSE 0)

Listing == [k \in Ids |-> IF Active(k) THEN ListedEntry(k) ELSE None]

\* A handler's entry knows no limits of the organisation or the team.
NewEntry(row, role) == EntryOf(row, role, 0, 0)

\* The role a new key gets; None when its user is not a member.  A rotation looks
\* the service account up again and may not find it.
NewRole(t) ==
    CASE t.row.type = "team" -> "team_admin"
      [] t.row.type = "sa"   -> IF account.scoped /\ (t.old = None \/ LiveAccount)
                                THEN "team_admin" ELSE "org_admin"
      [] OTHER -> OrgRole(t.row.user)

SetEntry(i, k, e) == cache' = [cache EXCEPT ![i][k] = e]

-----------------------------------------------------------------------------
(* CreateAPIKey and Login.                                                 *)

Begin(w, i, t) ==
    /\ Request(w, i)
    /\ Become(w, t)
    /\ UNCHANGED <<tables, inviteVars, up, keyVars>>

\* A step of a handler that is no invite's.
Step(w, step) ==
    /\ task[w].step = step
    /\ UNCHANGED <<tables, inviteVars, up, events, listed, now, refused>>

BeginCreateKey(w) ==
    \E i \in Instances, onTeam \in BOOLEAN :
        LET Creates(type, user, team_) ==
                Begin(w, i, [step |-> "insert", on |-> i,
                             row |-> Key(type, user, team_, 0, Never), role |-> None])
        IN
        \/ \E u \in Users : /\ OrgRole(u) # None /\ (onTeam => team.live)
                            /\ Creates("user", u, onTeam)
        \/ onTeam /\ team.live /\ Creates("team", None, TRUE)
        \/ ~onTeam /\ LiveAccount /\ Creates("sa", None, FALSE)

\* The new row; then the role is read, unless the login has it already.
InsertKey(w) ==
    LET t == task[w] IN
    /\ Step(w, "insert")
    /\ \E k \in FreeKeys :
          /\ InsertRow(k, t.row)
          /\ Become(w, [step |-> IF t.role = None THEN "role" ELSE "set", on |-> t.on,
                        key |-> k, row |-> t.row, role |-> t.role, old |-> None])
    /\ UNCHANGED <<cache, channel>>

\* Mutant of ReadRole: a role that is not found is stored as none.
ReadRoleUnchecked(w) ==
    LET t == task[w] IN
    /\ Step(w, "role")
    /\ Become(w, [t EXCEPT !.step = "set", !.role = NewRole(t)])
    /\ UNCHANGED <<keys, cache, channel>>

\* The request fails for a user who is not a member any more; the row stays.
ReadRole(w) ==
    LET t == task[w] IN
    /\ Step(w, "role")
    /\ Become(w, IF NewRole(t) = None THEN Idle
                 ELSE [t EXCEPT !.step = "set", !.role = NewRole(t)])
    /\ UNCHANGED <<keys, cache, channel>>

SetNew(w) ==
    LET t == task[w] IN
    /\ Step(w, "set")
    /\ SetEntry(t.on, t.key, NewEntry(t.row, t.role))
    /\ Become(w, IF t.old = None THEN Idle
                 ELSE [step |-> "get", on |-> t.on, key |-> t.old, then |-> "publish",
                       change |-> [expires |-> t.oldExpires]])
    /\ UNCHANGED <<keys, channel>>

\* The password is right, or the first administrator has none.
BeginLogin(w) ==
    \E i \in Instances, u \in Users :
        /\ SessionRole(u) # None
        /\ users[u].password \/ (users[u].admin /\ ~users[u].sso)
        /\ Begin(w, i, [step |-> "revoke", on |-> i, user |-> u, role |-> SessionRole(u)])

\* A key needs an organisation: without one the new row is refused.
NewSession(t) ==
    IF t.role = None THEN Idle
    ELSE [step |-> "insert", on |-> t.on, role |-> t.role,
          row |-> Key("session", t.user, FALSE, 0, now + 1)]

\* RevokeUserSessions deletes the rows and leaves the cache.
RevokeSessions(w) ==
    LET t == task[w] IN
    /\ Step(w, "revoke")
    /\ DeleteSessions(Sessions(t.user))
    /\ Become(w, NewSession(t))
    /\ UNCHANGED <<cache, channel>>

-----------------------------------------------------------------------------
(* UpdateAPIKey, RotateAPIKey and DeleteAPIKey.                            *)

BeginOnKey(w, step) ==
    \E i \in Instances, k \in Ids :
        /\ LiveKey(k)
        /\ step = "rotate" => keys[k].type # "session"
        /\ Begin(w, i, [step |-> step, on |-> i, key |-> k, row |-> keys[k]])

BeginUpdateKey(w) == BeginOnKey(w, "update")
BeginRotateKey(w) == BeginOnKey(w, "rotate")
BeginDeleteKey(w) == BeginOnKey(w, "delete")

\* The limit or the deadline is changed.
UpdateKey(w) ==
    LET t == task[w] IN
    /\ Step(w, "update")
    /\ IF ~LiveKey(t.key) THEN Become(w, Idle) /\ UNCHANGED keys
       ELSE \E row \in {[keys[t.key] EXCEPT !.limit = 1 - @],
                        [keys[t.key] EXCEPT !.expires = now + 1]} :
              /\ ChangeRow(t.key, row)
              /\ Become(w, [step |-> "get", on |-> t.on, key |-> t.key, then |-> "idle",
                            change |-> [limit |-> row.limit, expires |-> row.expires]])
    /\ UNCHANGED <<cache, channel>>

Lesser(a, b) == IF a < b THEN a ELSE b

\* RotateKeyTx gives the new key what was read of the old one before.
RotateKey(w) ==
    LET t == task[w]  grace == Lesser(t.row.expires, now + 1) IN
    /\ Step(w, "rotate")
    /\ IF ~LiveKey(t.key) THEN Become(w, Idle) /\ UNCHANGED keys
       ELSE \E k \in FreeKeys :
              /\ RotateRows(t.key, grace, k, t.row)
              /\ Become(w, [step |-> "role", on |-> t.on, key |-> k, row |-> t.row,
                            role |-> None, old |-> t.key, oldExpires |-> grace])
    /\ UNCHANGED <<cache, channel>>

\* The cached entry is read, changed and stored, each on its own.
GetEntry(w) ==
    LET t == task[w]  e == cache[t.on][t.key] IN
    /\ Step(w, "get")
    /\ Become(w, IF e # None
                 THEN [step |-> "store", on |-> t.on, key |-> t.key, then |-> t.then,
                       entry |-> [f \in DOMAIN e |-> IF f \in DOMAIN t.change
                                                     THEN t.change[f] ELSE e[f]]]
                 ELSE IF t.then = "idle" THEN Idle
                 ELSE [step |-> "publish", on |-> t.on, key |-> t.key])
    /\ UNCHANGED <<keys, cache, channel>>

StoreEntry(w) ==
    LET t == task[w] IN
    /\ Step(w, "store")
    /\ SetEntry(t.on, t.key, t.entry)
    /\ Become(w, IF t.then = "idle" THEN Idle
                 ELSE [step |-> "publish", on |-> t.on, key |-> t.key])
    /\ UNCHANGED <<keys, channel>>

DeleteKey(w) ==
    LET t == task[w] IN
    /\ Step(w, "delete")
    /\ \/ DeleteRow(t.key) /\ Become(w, [t EXCEPT !.step = "evict"])
       \/ ~LiveKey(t.key) /\ Become(w, Idle) /\ UNCHANGED keys
    /\ UNCHANGED <<cache, channel>>

Evict(w) ==
    LET t == task[w] IN
    /\ Step(w, "evict")
    /\ SetEntry(t.on, t.key, None)
    /\ Become(w, [t EXCEPT !.step = "publish"])
    /\ UNCHANGED <<keys, channel>>

\* The payload of UpdateOrg and UpdateTeam is no key's hash.
Publish(w) ==
    /\ Step(w, "publish")
    /\ channel' = [i \in Instances |-> IF i \in up THEN Append(channel[i], task[w].key)
                                       ELSE channel[i]]
    /\ Become(w, Idle)
    /\ UNCHANGED <<keys, cache>>

-----------------------------------------------------------------------------
(* ChangeOwnPassword and RemoveOwnPassword, by a user's key or session.    *)

\* The account is looked at and the new password hashed.
ChangePassword(w, to) ==
    \E i \in Instances, k \in Ids :
        /\ cache[i][k] # None /\ now <= cache[i][k].expires
        /\ LET u == cache[i][k].user IN
           /\ u # None /\ LiveUser(u) /\ ~users[u].sso /\ (to \/ users[u].password)
           /\ Begin(w, i, [step |-> "password", on |-> i, user |-> u, key |-> k, to |-> to])

ChangeOwnPassword(w) == ChangePassword(w, TRUE)
RemoveOwnPassword(w) == ChangePassword(w, FALSE)

\* One transaction with the sessions but the caller's own.
WritePassword(w) ==
    LET t == task[w] IN
    /\ t.step = "password"
    /\ \/ /\ SetPassword(t.user, t.to, t.key)
          /\ Become(w, [step |-> "evictOthers", on |-> t.on, user |-> t.user, key |-> t.key])
       \/ ~LiveUser(t.user) /\ Become(w, Idle) /\ UNCHANGED <<users, keys>>
    /\ OnlyUsers /\ UNCHANGED <<up, events, cache, listed, channel, now, refused>>

\* All entries of the user go, the sessions' and the keys'; no other instance is
\* told.
EvictOthers(w) ==
    LET t == task[w] IN
    /\ Step(w, "evictOthers")
    /\ cache' = [cache EXCEPT ![t.on] = [k \in Ids |->
           IF k # t.key /\ @[k] # None /\ @[k].user = t.user THEN None ELSE @[k]]]
    /\ Become(w, Idle)
    /\ UNCHANGED <<keys, channel>>

-----------------------------------------------------------------------------
(* A call of the database or of Redis fails: the handler returns, except   *)
(* that a login does without the revocation, a rotation without the scope  *)
(* of the service account, and a user without a membership is taken back.  *)

Fails(w) ==
    LET t == task[w] IN
    /\ t.step \notin {"idle", "set", "get", "store", "evict", "evictOthers"} /\ Event
    /\ (t.step = "role" => t.row.type = "user" \/ (t.row.type = "sa" /\ t.old # None))
    /\ Become(w, CASE t.step = "revoke" -> NewSession(t)
                   [] t.step = "join" -> [t EXCEPT !.step = "undo"]
                   [] t.step = "role" /\ t.row.type = "sa" -> [t EXCEPT !.step = "set", !.role = "org_admin"]
                   [] OTHER -> Idle)
    /\ UNCHANGED <<tables, inviteVars, up, keyVars>>

-----------------------------------------------------------------------------
(* The cache of an instance.                                               *)

CacheStep == UNCHANGED <<tables, inviteVars, task, keys>>

\* The middleware drops an entry whose deadline has passed.
Authenticate(i) ==
    \E k \in Ids :
        /\ cache[i][k] # None /\ now > cache[i][k].expires
        /\ SetEntry(i, k, None)
        /\ CacheStep /\ UNCHANGED <<up, events, listed, channel, now, refused>>

\* LoadKeysIntoCache, every KeyTTL and at the start: the query, then the swap.
List(i) ==
    /\ listed[i] = None /\ Event
    /\ listed' = [listed EXCEPT ![i] = Listing]
    /\ CacheStep /\ UNCHANGED <<up, cache, channel, now, refused>>

\* Mutant of LoadAll: the entries are added to those that are there.
LoadAllAdds(i, entries) ==
    [k \in Ids |-> IF entries[k] # None THEN entries[k] ELSE cache[i][k]]
LoadAll(i, entries) == entries

\* A key whose row, session or organisation is gone, or whose deadline is over.
Gone(k) == keys[k] # None /\ ~Active(k)
AboutToStore(i, k) ==
    \E w \in Callers : /\ task[w].step \in {"role", "set", "store"}
                       /\ task[w].on = i /\ task[w].key = k

Swap(i) ==
    /\ listed[i] # None
    /\ cache' = [cache EXCEPT ![i] = LoadAll(i, listed[i])]
    /\ listed' = [listed EXCEPT ![i] = None]
    /\ refused' = [refused EXCEPT ![i] =
           {k \in Ids : listed[i][k] = None /\ Gone(k) /\ ~AboutToStore(i, k)}]
    /\ up' = up \cup {i}
    /\ CacheStep /\ UNCHANGED <<events, channel, now>>

ReloadFails(i) ==
    /\ listed[i] # None /\ Event
    /\ listed' = [listed EXCEPT ![i] = None]
    /\ CacheStep /\ UNCHANGED <<up, cache, channel, now, refused>>

\* The subscriber evicts one key after the other.
Receive(i) ==
    /\ channel[i] # <<>>
    /\ channel' = [channel EXCEPT ![i] = Tail(@)]
    /\ IF Head(channel[i]) = None THEN UNCHANGED cache
       ELSE SetEntry(i, Head(channel[i]), None)
    /\ CacheStep /\ UNCHANGED <<up, events, listed, now, refused>>

Lose(i) ==
    /\ channel[i] # <<>> /\ Event
    /\ channel' = [channel EXCEPT ![i] = Tail(@)]
    /\ CacheStep /\ UNCHANGED <<up, cache, listed, now, refused>>

\* The process ends and its handlers with it; it starts with an empty cache.
Restart(i) ==
    /\ Event
    /\ task' = [w \in Callers |-> IF task[w] # Idle /\ task[w].on = i THEN Idle ELSE task[w]]
    /\ cache' = [cache EXCEPT ![i] = [k \in Ids |-> None]]
    /\ listed' = [listed EXCEPT ![i] = None]
    /\ channel' = [channel EXCEPT ![i] = <<>>]
    /\ up' = up \ {i}
    /\ UNCHANGED <<tables, inviteVars, keys, now, refused>>

Tomorrow ==
    /\ now < MaxDay /\ Event
    /\ now' = now + 1
    /\ UNCHANGED <<tables, inviteVars, task, up, keys, cache, listed, channel, refused>>

-----------------------------------------------------------------------------

Init ==
    /\ AccountsInit
    /\ keys = [k \in Ids |-> IF k <= Len(InitialKeys) THEN InitialKeys[k] ELSE None]
    /\ now = 0
    /\ cache = [i \in Instances |-> Listing]
    /\ listed = [i \in Instances |-> None]
    /\ channel = [i \in Instances |-> <<>>]
    /\ refused = [i \in Instances |-> {}]

Requests(w) ==
    /\ task[w] = Idle /\ events < MaxEvents
    /\ \/ Administer(w) /\ UNCHANGED keyVars
       \/ BeginCreateKey(w) \/ BeginLogin(w)
       \/ BeginUpdateKey(w) \/ BeginRotateKey(w) \/ BeginDeleteKey(w)
       \/ ChangeOwnPassword(w) \/ RemoveOwnPassword(w)

Continue(w) ==
    \/ (ContinueInvite(w) \/ ContinueSso(w)) /\ UNCHANGED keyVars
    \/ InsertKey(w) \/ ReadRole(w) \/ SetNew(w) \/ RevokeSessions(w)
    \/ UpdateKey(w) \/ RotateKey(w) \/ GetEntry(w) \/ StoreEntry(w)
    \/ DeleteKey(w) \/ Evict(w) \/ WritePassword(w) \/ EvictOthers(w) \/ Publish(w)

Next ==
    \/ \E w \in Callers : Requests(w) \/ Continue(w) \/ Fails(w)
    \/ \E i \in Instances : \/ Authenticate(i) \/ List(i) \/ Swap(i) \/ ReloadFails(i)
                            \/ Receive(i) \/ Lose(i) \/ Restart(i)
    \/ Tomorrow

Spec == Init /\ [][Next]_vars

-----------------------------------------------------------------------------

\* A key that was deleted, a session that was revoked, a key of a deleted
\* organisation and one past its deadline are refused from the first reload that
\* reads them so, and stay refused until another: whatever handlers change, read
\* and store back afterwards, and whichever evictions were lost.  Only a handler
\* that had the entry in its hands before the reload brings it back.
RefusedOnceReloaded ==
    \A i \in Instances, k \in Ids : k \in refused[i] => cache[i][k] = None

Entries ==
    [role: {"member", "org_admin", "team_admin", "system_admin"}, user: Users \cup {None},
     limit: {0, 1}, orgLimit: {0, 1}, teamLimit: {0, 1}, expires: Nat]

TypeOK ==
    /\ users \in [Users -> {None} \cup UserRows]
    /\ \A k \in Ids : keys[k] # None /\ keys[k].user # None => users[keys[k].user] # None
    /\ cache \in [Instances -> [Ids -> {None} \cup Entries]]
    /\ listed \in [Instances -> {None} \cup [Ids -> {None} \cup Entries]]
    /\ \A w \in Callers : task[w] # Idle => task[w].on \in up
=============================================================================
