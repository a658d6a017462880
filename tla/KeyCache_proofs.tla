--------------------------- MODULE KeyCache_proofs ---------------------------
(***************************************************************************)
(* For any number of callers, instances, users, invites and keys: an       *)
(* invite lets one request in (InvitesUsedOnce), the tables, the caches    *)
(* and the listings keep their types, no key names a user without a row    *)
(* and no handler outlives its instance (KeysTyped), and a key that a      *)
(* reload has found gone stays refused until the next (RefusalsStand).     *)
(* For any number of clients that log in, the guesses of a password are    *)
(* bounded (GuessesStayBounded, about LoginThrottle).                      *)
(***************************************************************************)
EXTENDS KeyCache, LoginThrottle, FiniteSetTheorems, TLAPS

-----------------------------------------------------------------------------
(* Invites.  What was claimed must be known to stay claimed: an invite     *)
(* that a request has claimed is redeemed, or its row was deleted          *)
(* afterwards, and no request makes it pending again.                      *)

ClaimedStaysClaimed ==
    /\ DOMAIN invites = Invites /\ DOMAIN claims = Invites
    /\ \A v \in Invites :
          \/ claims[v] = <<>>
          \/ claims[v] = <<"pending">> /\ invites[v] \in {"redeemed", "revoked"}

\* Only five steps of Accounts touch the invites.
TouchesInvites(w) == BeginInvite(w) \/ InsertInvite(w) \/ RevokeInvite(w) \/ Claim(w)

\* No invite has been claimed after Bootstrap.
LEMMA InvitesStart == Init => ClaimedStaysClaimed
  BY DEF Init, AccountsInit, ClaimedStaysClaimed

\* Every other action of the key cache and of the accounts leaves them alone.
LEMMA OthersLeaveInvites ==
  ASSUME Next PROVE UNCHANGED inviteVars \/ \E w \in Callers : TouchesInvites(w)
  <1>1. ASSUME NEW w \in Callers, Administer(w) PROVE UNCHANGED inviteVars \/ TouchesInvites(w)
    BY <1>1, Zenon DEF Administer, TouchesInvites, inviteVars, CreateUser, UpdateUser, DeleteUser,
       CreateOrgMembership, UpdateOrgMembership, DeleteOrgMembership, UpdateOrg, DeleteOrg,
       UpdateTeam, DeleteTeam, WriteLimit, CreateServiceAccount, DeleteServiceAccount, BeginRedeem,
       BeginSso, OnlyUsers
  <1>2. ASSUME NEW w \in Callers, Requests(w) PROVE UNCHANGED inviteVars \/ TouchesInvites(w)
    BY <1>1, <1>2, Zenon DEF Requests, inviteVars, Begin, BeginCreateKey, BeginLogin, BeginUpdateKey,
       BeginRotateKey, BeginDeleteKey, BeginOnKey, ChangeOwnPassword, RemoveOwnPassword, ChangePassword
  <1>3. ASSUME NEW w \in Callers, Continue(w) PROVE UNCHANGED inviteVars \/ TouchesInvites(w)
    BY <1>3, Zenon DEF Continue, ContinueInvite, ContinueSso, TouchesInvites, inviteVars, CreateInvited,
       JoinInvited, Provision, JoinSso, UndoProvision, ResolveSso, OnlyUsers, WritePassword, Step, InsertKey, ReadRole, SetNew, RevokeSessions, UpdateKey, RotateKey, GetEntry, StoreEntry,
       DeleteKey, Evict, EvictOthers, Publish
  <1>4. ASSUME NEW w \in Callers, Fails(w) PROVE UNCHANGED inviteVars
    BY <1>4, Zenon DEF Fails, inviteVars
  <1>5. ASSUME NEW i \in Instances,
               Authenticate(i) \/ List(i) \/ Swap(i) \/ ReloadFails(i) \/ Receive(i) \/ Lose(i) \/ Restart(i)
        PROVE  UNCHANGED inviteVars
    BY <1>5, Zenon DEF Authenticate, List, Swap, ReloadFails, Receive, Lose, Restart, CacheStep, inviteVars
  <1>6. Tomorrow => UNCHANGED inviteVars
    BY Zenon DEF Tomorrow, inviteVars
  <1> QED BY <1>2, <1>3, <1>4, <1>5, <1>6, Zenon DEF Next

\* No step makes a claimed invite pending, or claims one that is not.
LEMMA InvitesStep ==
  ASSUME ClaimedStaysClaimed, NEW w \in Callers, TouchesInvites(w)
  PROVE  ClaimedStaysClaimed'
  <1>1. CASE BeginInvite(w)
    BY <1>1, AccountsAssumption DEF BeginInvite, RemovePending, Pending, ClaimedStaysClaimed
  <1>2. CASE InsertInvite(w)
    BY <1>2, AccountsAssumption DEF InsertInvite, InsertInviteRow, ClaimedStaysClaimed
  <1>3. CASE RevokeInvite(w)
    BY <1>3 DEF RevokeInvite, RemoveInvite, ClaimedStaysClaimed
  <1>4. CASE Claim(w)
    <2> DEFINE v == task[w].invite
    <2>1. CASE Claimable(v)
      <3>1. /\ invites' = [invites EXCEPT ![v] = "redeemed"]
            /\ claims' = [claims EXCEPT ![v] = Append(@, "pending")]
            /\ invites[v] = "pending"
        BY <1>4, <2>1 DEF Claim, Claimable
      <3>2. v \in Invites => claims[v] = <<>>
        BY <3>1 DEF ClaimedStaysClaimed
      <3>3. Append(<<>>, "pending") = <<"pending">>
        OBVIOUS
      <3> QED BY <3>1, <3>2, <3>3 DEF ClaimedStaysClaimed
    <2>2. CASE ~Claimable(v)
      BY <1>4, <2>2 DEF Claim, inviteVars, ClaimedStaysClaimed
    <2> QED BY <2>1, <2>2
  <1> QED BY <1>1, <1>2, <1>3, <1>4 DEF TouchesInvites

\* An invite lets one request in, and only while it is pending, for any number
\* of callers, instances, users and invites (InviteOnce of the run Keys).
THEOREM InvitesUsedOnce == Spec => []InviteOnce
  <1>1. ASSUME ClaimedStaysClaimed, [Next]_vars PROVE ClaimedStaysClaimed'
    <2>1. CASE UNCHANGED inviteVars
      BY <1>1, <2>1 DEF inviteVars, ClaimedStaysClaimed
    <2>2. CASE UNCHANGED vars
      BY <2>1, <2>2 DEF vars
    <2> QED BY <1>1, <2>1, <2>2, OthersLeaveInvites, InvitesStep
  <1>2. ClaimedStaysClaimed => InviteOnce
    BY DEF ClaimedStaysClaimed, InviteOnce
  <1> QED BY InvitesStart, <1>1, <1>2, PTL DEF Spec

-----------------------------------------------------------------------------
(***************************************************************************)
(* Types that are finer than TypeOK: what a handler carries between its    *)
(* steps, by the step it is at, and that a user whose key or session it    *)
(* carries or stores has a row, which is never taken away.                 *)
(***************************************************************************)
Roles    == {"member", "org_admin", "team_admin", "system_admin"}
Limits   == [live: BOOLEAN, limit: {0, 1}]

\* The steps of each kind of request, and what they carry.
OnUser    == [step: {"invite", "provision", "join", "undo", "resolve"}, on: Instances, user: Users]
OnInvite  == [step: {"claim", "account", "membership"}, on: Instances, invite: Invites]
Revoking  == [step: {"revoke"}, on: Instances, user: Users, role: Roles \cup {None}]
Inserting == [step: {"insert"}, on: Instances, row: Rows, role: Roles \cup {None}]
Reading   == [step: {"role"}, on: Instances, key: Ids, row: Rows, role: {None}, old: {None}]
ReadingRotated ==
    [step: {"role"}, on: Instances, key: Ids, row: Rows, role: {None}, old: Ids, oldExpires: Nat]
Setting   == [step: {"set"}, on: Instances, key: Ids, row: Rows, role: Roles, old: {None}]
SettingRotated ==
    [step: {"set"}, on: Instances, key: Ids, row: Rows, role: Roles, old: Ids, oldExpires: Nat]
OnKey     == [step: {"update", "rotate", "delete", "evict", "publish"}, on: Instances,
              key: Ids, row: Rows]
Publishing == [step: {"publish"}, on: Instances, key: Ids \cup {None}]
Changes   == [expires: Nat] \cup [limit: {0, 1}, expires: Nat]
Getting   == [step: {"get"}, on: Instances, key: Ids, then: {"idle", "publish"}, change: Changes]
Storing   == [step: {"store"}, on: Instances, key: Ids, then: {"idle", "publish"}, entry: Entries]
ByUser    == [step: {"password"}, on: Instances, user: Users, key: Ids, to: BOOLEAN]
ForUser   == [step: {"evictOthers"}, on: Instances, user: Users, key: Ids]

Tasks == {Idle} \cup OnUser \cup OnInvite \cup Revoking \cup Inserting \cup Reading
         \cup ReadingRotated \cup Setting \cup SettingRotated \cup OnKey \cup Publishing
         \cup Getting \cup Storing \cup ByUser \cup ForUser

\* The user of a row has a row of its own among us.
Owned(row, us) == row.user # None => us[row.user] # None
CarriesRow(t)  == t.step \in {"insert", "role", "set", "update", "rotate", "delete", "evict"}
TaskOK(t, us, serving) ==
    /\ CarriesRow(t) => Owned(t.row, us)
    /\ t.step = "revoke" => us[t.user] # None
    /\ t # Idle => t.on \in serving

UsersOK  == users \in [Users -> {None} \cup UserRows]
LimitsOK == org \in Limits /\ team \in Limits /\ now \in Nat
KeysOK   == /\ keys \in [Ids -> {None} \cup Rows]
            /\ \A k \in Ids : keys[k] # None => Owned(keys[k], users)
TasksOK  == /\ task \in [Callers -> Tasks] /\ up \subseteq Instances
            /\ \A w \in Callers : TaskOK(task[w], users, up)
CacheOK  == /\ cache \in [Instances -> [Ids -> {None} \cup Entries]]
            /\ listed \in [Instances -> {None} \cup [Ids -> {None} \cup Entries]]

KeyTypes == UsersOK /\ LimitsOK /\ KeysOK /\ TasksOK /\ CacheOK

(***************************************************************************)
(* Why a refused key stays refused: its row is there for good, the cache   *)
(* does not have it, and no handler is about to store it.  A handler gets  *)
(* to that point only with a new row or with an entry it found cached.     *)
(***************************************************************************)
RefusedInv ==
    /\ refused \in [Instances -> SUBSET Ids]
    /\ \A i \in Instances : \A k \in refused[i] :
          keys[k] # None /\ cache[i][k] = None /\ ~AboutToStore(i, k)

\* The step a handler is at says what it carries.
LEMMA TaskFields ==
  ASSUME NEW t \in Tasks
  PROVE  /\ t # Idle => t.on \in Instances /\ t.step # "idle"
         /\ t.step \in {"invite", "provision", "join", "undo", "resolve"} => t \in OnUser
         /\ t.step \in {"claim", "account", "membership"} => t \in OnInvite
         /\ t.step = "revoke" => t \in Revoking
         /\ t.step = "insert" => t \in Inserting
         /\ t.step = "role" => t \in Reading \cup ReadingRotated
         /\ t.step = "set" => t \in Setting \cup SettingRotated
         /\ t.step \in {"update", "rotate", "delete", "evict"} => t \in OnKey
         /\ t.step = "publish" => t \in OnKey \cup Publishing
         /\ t.step = "get" => t \in Getting
         /\ t.step = "store" => t \in Storing
         /\ t.step = "password" => t \in ByUser
         /\ t.step = "evictOthers" => t \in ForUser
<1> USE DEF Idle, OnUser, OnInvite, Revoking, Inserting, Reading, ReadingRotated, Setting,
        SettingRotated, OnKey, Publishing, Getting, Storing, ByUser, ForUser
<1>1. CASE t \in {Idle} \cup OnUser \cup OnInvite \cup Revoking
  BY <1>1
<1>2. CASE t \in Inserting \cup Reading \cup ReadingRotated \cup Setting \cup SettingRotated
  BY <1>2
<1>3. CASE t \in OnKey \cup Publishing \cup Getting
  BY <1>3
<1>4. CASE t \in Storing \cup ByUser \cup ForUser
  BY <1>4
<1> QED BY ONLY t \in Tasks, <1>1, <1>2, <1>3, <1>4 DEF Tasks

\* No step takes the row of a user away.
UsersStay == UsersOK' /\ \A u \in Users : users[u] # None => users'[u] # None

\* Each statement on the users leaves rows of users, and takes none away.
LEMMA UserStatements ==
  ASSUME UsersOK, NEW u,
         \/ \E row \in UserRows : InsertUser(u, row) \/ ChangeUser(u, row)
         \/ \E role \in MemberRoles : InsertMembership(u, role) \/ ChangeMembership(u, role)
         \/ RetireUser(u) \/ RemoveMembership(u)
  PROVE  UsersStay
<1>1. None \notin UserRows
  BY AccountsAssumption
<1>2. \A v \in Users : users[v] # None => users[v] \in UserRows
  BY DEF UsersOK
<1>3. CASE u \notin Users
  BY <1>3 DEF UsersStay, UsersOK, InsertUser, ChangeUser, RetireUser, InsertMembership,
     ChangeMembership, RemoveMembership
<1>4. ASSUME u \in Users, NEW row \in UserRows, InsertUser(u, row) \/ ChangeUser(u, row)
      PROVE  UsersStay
  BY <1>1, <1>4 DEF UsersStay, UsersOK, InsertUser, ChangeUser
<1>5. ASSUME u \in Users, NEW role \in MemberRoles,
             InsertMembership(u, role) \/ ChangeMembership(u, role)
      PROVE  UsersStay
  <2>1. [users[u] EXCEPT !.role = role] \in UserRows
    BY <1>2, <1>5 DEF InsertMembership, ChangeMembership, IsMember, UserRows
  <2> QED BY <1>1, <1>5, <2>1 DEF UsersStay, UsersOK, InsertMembership, ChangeMembership
<1>6. ASSUME u \in Users, RetireUser(u) PROVE UsersStay
  <2>1. [users[u] EXCEPT !.live = FALSE] \in UserRows
    BY <1>2, <1>6 DEF RetireUser, LiveUser, UserRows
  <2> QED BY <1>1, <1>6, <2>1 DEF UsersStay, UsersOK, RetireUser
<1>7. ASSUME u \in Users, RemoveMembership(u) PROVE UsersStay
  <2>1. [users[u] EXCEPT !.role = None] \in UserRows
    BY <1>2, <1>7 DEF RemoveMembership, IsMember, UserRows
  <2> QED BY <1>1, <1>7, <2>1 DEF UsersStay, UsersOK, RemoveMembership
<1> QED BY <1>3, <1>4, <1>5, <1>6, <1>7

\* A step that leaves the users alone keeps them.
LEMMA UsersUnchanged ==
  ASSUME UsersOK, UNCHANGED users
  PROVE  UsersStay
BY DEF UsersOK, UsersStay

\* The rows the handlers write are rows of users.
LEMMA NewUserRows ==
  /\ \A admin \in BOOLEAN, role \in {None} \cup MemberRoles : NewUser(admin, role) \in UserRows
  /\ SsoUser \in UserRows
  /\ \A row \in UserRows, b \in BOOLEAN : /\ [row EXCEPT !.admin = ~row.admin] \in UserRows
                                           /\ [row EXCEPT !.password = b] \in UserRows
BY DEF NewUser, SsoUser, UserRows

\* The steps of the accounts, and a change of password, keep the users.
LEMMA AccountUsers ==
  ASSUME UsersOK, TasksOK, NEW w \in Callers,
         Administer(w) \/ ContinueInvite(w) \/ ContinueSso(w) \/ WritePassword(w)
  PROVE  UsersStay
<1>1. \A u \in Users : LiveUser(u) => users[u] \in UserRows
  BY DEF UsersOK, LiveUser
<1>2. ASSUME CreateUser(w) PROVE UsersStay
  <2>1. PICK u \in Users, admin \in BOOLEAN, role \in MemberRoles :
          InsertUser(u, NewUser(admin, role))
    BY <1>2 DEF CreateUser
  <2>2. NewUser(admin, role) \in UserRows
    BY NewUserRows
  <2> QED BY <2>1, <2>2, UserStatements
<1>3. ASSUME UpdateUser(w) PROVE UsersStay
  <2>1. PICK u \in Users :
          /\ LiveUser(u)
          /\ \/ ChangeUser(u, [users[u] EXCEPT !.admin = ~@])
             \/ ChangeUser(u, [users[u] EXCEPT !.password = TRUE])
    BY <1>3 DEF UpdateUser
  <2>2. /\ [users[u] EXCEPT !.admin = ~@] \in UserRows
        /\ [users[u] EXCEPT !.password = TRUE] \in UserRows
    BY <1>1, <2>1, NewUserRows
  <2> QED BY <2>1, <2>2, UserStatements
<1>4. ASSUME \/ DeleteUser(w) \/ CreateOrgMembership(w) \/ UpdateOrgMembership(w)
             \/ DeleteOrgMembership(w)
      PROVE  UsersStay
  BY <1>4, UserStatements DEF DeleteUser, CreateOrgMembership, UpdateOrgMembership,
     DeleteOrgMembership
<1>5. ASSUME \/ UpdateOrg(w) \/ DeleteOrg(w) \/ UpdateTeam(w) \/ DeleteTeam(w)
             \/ CreateServiceAccount(w) \/ DeleteServiceAccount(w) \/ BeginInvite(w)
             \/ RevokeInvite(w) \/ BeginRedeem(w) \/ BeginSso(w)
      PROVE  UNCHANGED users
  BY <1>5 DEF UpdateOrg, DeleteOrg, UpdateTeam, DeleteTeam, WriteLimit, CreateServiceAccount,
     DeleteServiceAccount, BeginInvite, RevokeInvite, BeginRedeem, BeginSso, tables
<1>6. ASSUME CreateInvited(w) \/ JoinInvited(w) PROVE UsersStay
  <2>1. NewUser(FALSE, None) \in UserRows /\ "member" \in MemberRoles
    BY NewUserRows DEF MemberRoles
  <2> QED BY <1>6, <2>1, UserStatements, UsersUnchanged DEF CreateInvited, JoinInvited
<1>7. ASSUME Provision(w) \/ JoinSso(w) \/ UndoProvision(w) PROVE UsersStay
  <2>1. SsoUser \in UserRows /\ "member" \in MemberRoles
    BY NewUserRows DEF MemberRoles
  <2> QED BY <1>7, <2>1, UserStatements, UsersUnchanged DEF Provision, JoinSso, UndoProvision
<1>8. ASSUME InsertInvite(w) \/ Claim(w) \/ ResolveSso(w) PROVE UNCHANGED users
  BY <1>8 DEF InsertInvite, Claim, ResolveSso, tables
<1>9. ASSUME WritePassword(w) PROVE UsersStay
  <2> DEFINE u == task[w].user
             row == [users[u] EXCEPT !.password = task[w].to]
  <2>1. ChangeUser(u, row) \/ UNCHANGED users
    BY <1>9 DEF WritePassword, SetPassword
  <2>2. ASSUME ChangeUser(u, row), u \in Users, task[w].to \in BOOLEAN PROVE UsersStay
    <3>1. row \in UserRows
      BY <1>1, <2>2, NewUserRows DEF ChangeUser
    <3> QED BY <2>2, <3>1, UserStatements
  <2>3. u \in Users /\ task[w].to \in BOOLEAN
    BY <1>9, TaskFields DEF WritePassword, TasksOK, ByUser
  <2> QED BY <2>1, <2>2, <2>3, UsersUnchanged
<1> QED
  BY <1>2, <1>3, <1>4, <1>5, <1>6, <1>7, <1>8, <1>9, UsersUnchanged
     DEF Administer, ContinueInvite, ContinueSso

-----------------------------------------------------------------------------
(* What the handlers carry.                                                *)

\* What a handler carries stays right while its instance serves: no row of a user
\* goes away.
LEMMA TaskStays ==
  ASSUME NEW t \in Tasks, UsersStay, TaskOK(t, users, up), t # Idle => t.on \in up'
  PROVE  TaskOK(t, users', up')
<1>1. CarriesRow(t) => t.row \in Rows /\ t # Idle
  BY TaskFields DEF CarriesRow, Inserting, Reading, ReadingRotated, Setting, SettingRotated, OnKey, Idle
<1>2. \A row \in Rows : row.user # None => row.user \in Users
  BY DEF Rows
<1>3. t.step = "revoke" => t.user \in Users
  BY TaskFields DEF Revoking
<1> QED BY <1>1, <1>2, <1>3 DEF TaskOK, Owned, UsersStay

\* At most one handler takes a step, and no instance stops.
MoveOf(w) == /\ \E t \in Tasks : Become(w, t) /\ TaskOK(t, users', up')
             /\ UNCHANGED up

\* One handler takes a step, and what the others carry stays right.
LEMMA TasksMove ==
  ASSUME TasksOK, UsersStay, NEW w \in Callers, MoveOf(w)
  PROVE  TasksOK'
<1>1. PICK t \in Tasks : Become(w, t) /\ TaskOK(t, users', up') /\ UNCHANGED up
  BY DEF MoveOf
<1>2. task' \in [Callers -> Tasks] /\ task'[w] = t
      /\ \A x \in Callers \ {w} : task'[x] = task[x]
  BY <1>1 DEF TasksOK, Become
<1>3. \A x \in Callers : TaskOK(task[x], users', up')
  <2> SUFFICES ASSUME NEW x \in Callers PROVE TaskOK(task[x], users', up')
    OBVIOUS
  <2>1. task[x] \in Tasks /\ TaskOK(task[x], users, up)
    BY DEF TasksOK
  <2>2. task[x] # Idle => task[x].on \in up'
    BY <1>1, <2>1 DEF TaskOK
  <2> QED BY <2>1, <2>2, TaskStays
<1>4. up' \subseteq Instances
  BY <1>1 DEF TasksOK
<1> QED BY <1>1, <1>2, <1>3, <1>4 DEF TasksOK

\* No handler takes a step, and no instance stops.
LEMMA TasksRest ==
  ASSUME TasksOK, UsersStay, UNCHANGED task, up \subseteq up', up' \subseteq Instances
  PROVE  TasksOK'
<1> SUFFICES ASSUME NEW x \in Callers PROVE TaskOK(task[x], users', up')
  BY DEF TasksOK
<1>1. task[x] \in Tasks /\ TaskOK(task[x], users, up)
  BY DEF TasksOK
<1>2. task[x] # Idle => task[x].on \in up'
  BY <1>1 DEF TaskOK
<1> QED BY <1>1, <1>2, TaskStays

\* A request ends, or a call of it fails.
LEMMA EndsOK ==
  ASSUME TasksOK, NEW w \in Callers, Become(w, Idle), UNCHANGED up
  PROVE  MoveOf(w)
<1>1. Idle \in Tasks
  BY DEF Tasks
<1>2. \A us : TaskOK(Idle, us, up')
  BY DEF TaskOK, Idle, CarriesRow
<1> QED BY <1>1, <1>2 DEF MoveOf

\* A role that is found belongs to a user with a row.
LEMMA Resolved ==
  ASSUME UsersOK, NEW u \in Users
  PROVE  /\ OrgRole(u) \in Roles \cup {None}
         /\ SessionRole(u) \in Roles \cup {None}
         /\ OrgRole(u) # None => users[u] # None
         /\ SessionRole(u) # None => users[u] # None
<1>1. users[u] # None => users[u].role \in {None} \cup MemberRoles
  BY DEF UsersOK, UserRows
<1> QED BY <1>1 DEF OrgRole, SessionRole, LiveUser, IsMember, Roles, MemberRoles

-----------------------------------------------------------------------------
(* The steps of the accounts.                                              *)

\* The steps of a handler that has a row or an entry in its hands that it will store.
Stores == {"role", "set", "store"}

\* The organisation and the team keep their types.
LEMMA AccountLimits ==
  ASSUME LimitsOK, NEW w \in Callers, UNCHANGED now,
         Administer(w) \/ ContinueInvite(w) \/ ContinueSso(w)
  PROVE  LimitsOK'
<1>1. CASE UpdateOrg(w) \/ UpdateTeam(w)
  BY <1>1 DEF UpdateOrg, UpdateTeam, ChangeOrg, ChangeTeam, LimitsOK, Limits
<1>2. CASE DeleteOrg(w) \/ DeleteTeam(w)
  BY <1>2 DEF DeleteOrg, DeleteTeam, RetireOrg, RetireTeam, LimitsOK, Limits
<1>3. ASSUME \/ CreateUser(w) \/ UpdateUser(w) \/ DeleteUser(w)
             \/ CreateOrgMembership(w) \/ UpdateOrgMembership(w) \/ DeleteOrgMembership(w)
             \/ CreateServiceAccount(w) \/ DeleteServiceAccount(w)
             \/ BeginInvite(w) \/ RevokeInvite(w) \/ BeginRedeem(w) \/ BeginSso(w)
             \/ ContinueInvite(w) \/ ContinueSso(w)
      PROVE  UNCHANGED <<org, team>>
  BY <1>3 DEF CreateUser, UpdateUser, DeleteUser, CreateOrgMembership, UpdateOrgMembership,
     DeleteOrgMembership, CreateServiceAccount, DeleteServiceAccount, BeginInvite, RevokeInvite,
     BeginRedeem, BeginSso, ContinueInvite, ContinueSso, InsertInvite, Claim, CreateInvited,
     JoinInvited, Provision, JoinSso, UndoProvision, ResolveSso, OnlyUsers, tables
<1> QED BY <1>1, <1>2, <1>3 DEF Administer, LimitsOK

\* A step of the accounts moves its handler to a task of a known kind, and never to
\* one that stores an entry.
LEMMA AccountTasks ==
  ASSUME UsersOK, TasksOK, NEW w \in Callers,
         Administer(w) \/ ContinueInvite(w) \/ ContinueSso(w)
  PROVE  (MoveOf(w) /\ task'[w].step \notin Stores) \/ UNCHANGED <<task, up>>
<1> DEFINE t == task[w]
<1>1. t \in Tasks /\ TaskOK(t, users, up)
  BY DEF TasksOK
<1>2. up \subseteq Instances
  BY DEF TasksOK
<1>3. ASSUME \/ CreateUser(w) \/ UpdateUser(w) \/ DeleteUser(w)
             \/ CreateOrgMembership(w) \/ UpdateOrgMembership(w) \/ DeleteOrgMembership(w)
             \/ DeleteOrg(w) \/ DeleteTeam(w) \/ CreateServiceAccount(w)
             \/ DeleteServiceAccount(w) \/ RevokeInvite(w)
      PROVE  UNCHANGED <<task, up>>
  BY <1>3 DEF CreateUser, UpdateUser, DeleteUser, CreateOrgMembership, UpdateOrgMembership,
     DeleteOrgMembership, DeleteOrg, DeleteTeam, CreateServiceAccount, DeleteServiceAccount,
     RevokeInvite, Statement
\* A handler that carries no row and makes no session.
<1>4. ASSUME NEW n \in OnUser \cup OnInvite \cup Publishing, n.on \in up,
             Become(w, n), UNCHANGED up
      PROVE  MoveOf(w) /\ task'[w].step \notin Stores
  <2>1. n \in Tasks
    BY <1>4 DEF Tasks
  <2>2. ~CarriesRow(n) /\ n.step # "revoke" /\ n.step \notin Stores
    BY <1>4 DEF OnUser, OnInvite, Publishing, CarriesRow, Stores
  <2>3. task'[w] = n
    BY <1>4 DEF TasksOK, Become
  <2> QED BY <1>4, <2>1, <2>2, <2>3 DEF MoveOf, TaskOK
\* A handler that ends.
<1>11. ASSUME Become(w, Idle), UNCHANGED up
       PROVE  MoveOf(w) /\ task'[w].step \notin Stores
  <2>1. task'[w] = Idle
    BY <1>11 DEF TasksOK, Become
  <2> QED BY <1>11, <2>1, EndsOK DEF Idle, Stores
<1>5. CASE UpdateOrg(w) \/ UpdateTeam(w)
  <2>1. PICK i \in up : Become(w, [step |-> "publish", on |-> i, key |-> None]) /\ UNCHANGED up
    BY <1>5 DEF UpdateOrg, UpdateTeam, WriteLimit, Request
  <2>2. [step |-> "publish", on |-> i, key |-> None] \in Publishing
    BY <1>2 DEF Publishing
  <2> QED BY <1>4, <2>1, <2>2
<1>6. CASE BeginInvite(w)
  <2>1. PICK i \in up, u \in Users :
          Become(w, [step |-> "invite", on |-> i, user |-> u]) /\ UNCHANGED up
    BY <1>6 DEF BeginInvite, Request
  <2>2. [step |-> "invite", on |-> i, user |-> u] \in OnUser
    BY <1>2 DEF OnUser
  <2> QED BY <1>4, <2>1, <2>2
<1>7. CASE BeginRedeem(w)
  <2>1. PICK i \in up, v \in Invites :
          Become(w, [step |-> "claim", on |-> i, invite |-> v]) /\ UNCHANGED up
    BY <1>7 DEF BeginRedeem, Request
  <2>2. [step |-> "claim", on |-> i, invite |-> v] \in OnInvite
    BY <1>2 DEF OnInvite
  <2> QED BY <1>4, <2>1, <2>2
<1>8. CASE BeginSso(w)
  <2>1. PICK i \in up, u \in Users, s \in {"resolve", "provision"} :
          Become(w, [step |-> s, on |-> i, user |-> u]) /\ UNCHANGED up
    BY <1>8 DEF BeginSso, Request
  <2>2. [step |-> s, on |-> i, user |-> u] \in OnUser
    BY <1>2 DEF OnUser
  <2> QED BY <1>4, <2>1, <2>2
<1>9. CASE ContinueInvite(w)
  <2>1. UNCHANGED up /\ t.step \in {"invite", "claim", "account", "membership"}
    BY <1>9 DEF ContinueInvite, InsertInvite, Claim, CreateInvited, JoinInvited
  <2>4. t \in OnUser \cup OnInvite /\ t # Idle
    BY <1>1, <2>1, TaskFields DEF Idle
  <2>5. t.on \in up
    BY <1>1, <2>4 DEF TaskOK
  <2>2. Become(w, Idle) \/ \E s \in {"account", "membership"} :
          t \in OnInvite /\ Become(w, [t EXCEPT !.step = s])
    BY <1>1, <1>9, TaskFields DEF ContinueInvite, InsertInvite, Claim, CreateInvited, JoinInvited
  <2>3. ASSUME NEW s \in {"account", "membership"}, t \in OnInvite
        PROVE  [t EXCEPT !.step = s] \in OnInvite /\ [t EXCEPT !.step = s].on = t.on
    BY <2>3 DEF OnInvite
  <2> HIDE DEF t
  <2> QED BY <1>4, <2>1, <2>2, <2>3, <2>4, <2>5, <1>11
<1>10. CASE ContinueSso(w)
  <2>1. t \in OnUser /\ UNCHANGED up /\ t.on \in up
    BY <1>1, <1>10, TaskFields DEF ContinueSso, Provision, JoinSso, UndoProvision, ResolveSso,
       TaskOK, Idle
  <2>2. \/ Become(w, Idle)
        \/ \E s \in {"join", "resolve", "undo"} : Become(w, [t EXCEPT !.step = s])
        \/ ResolveSso(w)
    BY <1>10 DEF ContinueSso, Provision, JoinSso, UndoProvision
  <2>3. ASSUME NEW s \in {"join", "resolve", "undo"}
        PROVE  [t EXCEPT !.step = s] \in OnUser /\ [t EXCEPT !.step = s].on = t.on
    BY <2>1 DEF OnUser
  <2>4. ASSUME ResolveSso(w), OrgRole(t.user) # None
        PROVE  MoveOf(w) /\ task'[w].step \notin Stores
    <3> DEFINE n == [step |-> "revoke", on |-> t.on, user |-> t.user, role |-> SessionRole(t.user)]
    <3>1. t.user \in Users
      BY <2>1 DEF OnUser
    <3>2. SessionRole(t.user) \in Roles \cup {None} /\ users[t.user] # None
      BY <2>4, <3>1, Resolved
    <3>3. n \in Tasks
      BY <1>2, <2>1, <3>1, <3>2 DEF Revoking, Tasks
    <3>4. Become(w, n) /\ UNCHANGED <<users, up>>
      BY <2>4 DEF ResolveSso, tables
    <3>5. ~CarriesRow(n) /\ n.on = t.on /\ n.user = t.user /\ n.step \notin Stores
      BY DEF CarriesRow, Stores
    <3>6. task'[w] = n
      BY <3>4 DEF TasksOK, Become
    <3> HIDE DEF n
    <3> QED BY <2>1, <3>2, <3>3, <3>4, <3>5, <3>6 DEF MoveOf, TaskOK
  <2>5. ASSUME ResolveSso(w), OrgRole(t.user) = None PROVE Become(w, Idle)
    BY <2>5 DEF ResolveSso
  <2> HIDE DEF t
  <2> QED BY <1>4, <2>1, <2>2, <2>3, <2>4, <2>5, <1>11
<1> QED
  BY <1>3, <1>5, <1>6, <1>7, <1>8, <1>9, <1>10 DEF Administer

-----------------------------------------------------------------------------
(* The rows and the entries.                                               *)

\* No step takes the row of a key away either.
KeysStay == KeysOK' /\ \A k \in Ids : keys[k] # None => keys'[k] # None

\* A step that leaves the keys alone keeps them.
LEMMA KeysUnchanged ==
  ASSUME KeysOK, UsersStay, UNCHANGED keys
  PROVE  KeysStay
<1>1. \A row \in Rows : row.user # None => row.user \in Users
  BY DEF Rows
<1> QED BY <1>1 DEF KeysOK, KeysStay, Owned, UsersStay

\* A step that writes only rows whose users have rows keeps the keys.
LEMMA RowsWritten ==
  ASSUME KeysOK, UsersStay, keys' \in [Ids -> {None} \cup Rows],
         \A k \in Ids : keys'[k] = keys[k] \/ (keys'[k] \in Rows /\ Owned(keys'[k], users))
  PROVE  KeysStay
<1>1. \A row \in Rows : row.user # None => row.user \in Users
  BY DEF Rows
<1>2. None \notin Rows
  BY KeyAssumption
<1> QED BY <1>1, <1>2 DEF KeysOK, KeysStay, Owned, UsersStay

\* The handlers edit one field of a row, and never its user.
LEMMA RowEdits ==
  ASSUME NEW row \in Rows, NEW n \in Nat
  PROVE  /\ [row EXCEPT !.limit = 1 - row.limit] \in Rows
         /\ [row EXCEPT !.expires = n] \in Rows
         /\ [row EXCEPT !.deleted = TRUE] \in Rows
         /\ [row EXCEPT !.limit = 1 - row.limit].user = row.user
         /\ [row EXCEPT !.expires = n].user = row.user
         /\ [row EXCEPT !.deleted = TRUE].user = row.user
<1>1. row.limit \in {0, 1} => 1 - row.limit \in {0, 1}
  OBVIOUS
<1>2. CASE row \in [type: {"user", "session"}, user: Users, onTeam: BOOLEAN, limit: {0, 1},
                    expires: Nat, deleted: BOOLEAN]
  BY <1>1, <1>2 DEF Rows
<1>3. CASE row \in [type: {"team", "sa"}, user: {None}, onTeam: BOOLEAN, limit: {0, 1},
                    expires: Nat, deleted: BOOLEAN]
  BY <1>1, <1>3 DEF Rows
<1> QED BY <1>2, <1>3 DEF Rows

\* The row of a key names no user without a row.
LEMMA RowKnown ==
  ASSUME KeysOK, NEW k \in Ids, keys[k] # None
  PROVE  keys[k] \in Rows /\ Owned(keys[k], users)
BY DEF KeysOK

\* So does the deletion of sessions.
LEMMA SessionsDeleted ==
  ASSUME KeysOK, UsersStay, NEW gone, gone \subseteq {k \in Ids : keys[k] # None},
         DeleteSessions(gone)
  PROVE  KeysStay
<1>1. \A k \in gone : /\ [keys[k] EXCEPT !.deleted = TRUE] \in Rows
                      /\ Owned([keys[k] EXCEPT !.deleted = TRUE], users)
  BY ZenonT(30), RowKnown, RowEdits DEF Owned
<1>2. keys' \in [Ids -> {None} \cup Rows]
  BY <1>1 DEF KeysOK, DeleteSessions
<1>3. \A k \in Ids : keys'[k] = keys[k] \/ (keys'[k] \in Rows /\ Owned(keys'[k], users))
  BY <1>1 DEF DeleteSessions
<1> QED BY <1>2, <1>3, RowsWritten

\* The entry of a row, by a reload or by the handler that made the key.
LEMMA EntryTypes ==
  ASSUME NEW row \in Rows, NEW role \in Roles, NEW orgLimit \in {0, 1}, NEW teamLimit \in {0, 1}
  PROVE  EntryOf(row, role, orgLimit, teamLimit) \in Entries
BY DEF EntryOf, Entries, Rows, Roles

\* The query of a reload lists entries.
LEMMA ListingTypes ==
  ASSUME UsersOK, LimitsOK, KeysOK
  PROVE  Listing \in [Ids -> {None} \cup Entries]
<1> SUFFICES ASSUME NEW k \in Ids, Active(k) PROVE ListedEntry(k) \in Entries
  BY DEF Listing
<1>1. keys[k] \in Rows /\ Owned(keys[k], users)
  BY RowKnown DEF Active, LiveKey
<1>2. ListedRole(k) \in Roles
  <2>1. CASE keys[k].type \in {"team", "sa"}
    BY <2>1 DEF ListedRole, Roles
  <2>2. CASE keys[k].type \notin {"team", "sa"}
    <3>1. keys[k].user \in Users /\ keys[k].user # None
      BY <1>1, <2>2, AccountsAssumption DEF Rows
    <3>2. users[keys[k].user] \in UserRows
      BY <1>1, <3>1 DEF Owned, UsersOK
    <3>3. users[keys[k].user].role \in {None} \cup MemberRoles
      BY <3>2 DEF UserRows
    <3> QED BY <2>2, <3>3 DEF ListedRole, Roles, MemberRoles
  <2> QED BY <2>1, <2>2
<1>3. org.limit \in {0, 1} /\ team.limit \in {0, 1}
  BY DEF LimitsOK, Limits
<1> QED BY <1>1, <1>2, <1>3, EntryTypes DEF ListedEntry

\* An entry is stored or dropped.
LEMMA EntrySet ==
  ASSUME CacheOK, NEW i \in Instances, NEW k \in Ids, NEW e \in {None} \cup Entries,
         SetEntry(i, k, e), UNCHANGED listed
  PROVE  CacheOK'
BY DEF CacheOK, SetEntry

\* Neither the cache nor the listing is touched.
LEMMA CacheUnchanged ==
  ASSUME CacheOK, UNCHANGED <<cache, listed>>
  PROVE  CacheOK'
BY DEF CacheOK

-----------------------------------------------------------------------------
(* The steps of the key handlers, each with all it changes.                *)

Handled(w) == KeysStay /\ MoveOf(w) /\ CacheOK'

\* A request begins with a task of a known kind.
LEMMA Begun ==
  ASSUME UsersOK, KeysOK, TasksOK, CacheOK, NEW w \in Callers, NEW i \in Instances,
         NEW t \in Tasks, t.on = i, CarriesRow(t) => Owned(t.row, users),
         t.step = "revoke" => users[t.user] # None, Begin(w, i, t)
  PROVE  Handled(w)
<1>1. UsersStay /\ KeysStay
  BY UsersUnchanged, KeysUnchanged DEF Begin, tables, keyVars
<1>2. CacheOK'
  BY CacheUnchanged DEF Begin, keyVars
<1>3. MoveOf(w)
  BY DEF Begin, Request, MoveOf, TaskOK, tables
<1> QED BY <1>1, <1>2, <1>3 DEF Handled

\* The creation of a key begins.
LEMMA BeginCreates ==
  ASSUME UsersOK, KeysOK, TasksOK, CacheOK, NEW w \in Callers, BeginCreateKey(w)
  PROVE  Handled(w)
<1> DEFINE T(i, row) == [step |-> "insert", on |-> i, row |-> row, role |-> None]
<1>1. PICK i \in Instances, onTeam \in BOOLEAN :
        \/ \E u \in Users : OrgRole(u) # None /\ Begin(w, i, T(i, Key("user", u, onTeam, 0, Never)))
        \/ Begin(w, i, T(i, Key("team", None, TRUE, 0, Never)))
        \/ Begin(w, i, T(i, Key("sa", None, FALSE, 0, Never)))
  BY DEF BeginCreateKey
<1>2. PICK row : /\ Begin(w, i, T(i, row))
                 /\ row \in Rows /\ Owned(row, users)
  <2>1. Never \in Nat
    BY KeyAssumption DEF Never
  <2>2. /\ Key("team", None, TRUE, 0, Never) \in Rows /\ Key("sa", None, FALSE, 0, Never) \in Rows
        /\ \A u \in Users : Key("user", u, onTeam, 0, Never) \in Rows
    BY <2>1 DEF Key, Rows
  <2>3. /\ Owned(Key("team", None, TRUE, 0, Never), users)
        /\ Owned(Key("sa", None, FALSE, 0, Never), users)
        /\ \A u \in Users : OrgRole(u) # None => Owned(Key("user", u, onTeam, 0, Never), users)
    BY Resolved DEF Key, Owned
  <2> HIDE DEF T
  <2> QED BY <1>1, <2>2, <2>3
<1>3. T(i, row) \in Tasks
  BY <1>2 DEF Tasks, Inserting
<1>4. T(i, row).on = i /\ T(i, row).row = row /\ T(i, row).step # "revoke"
  OBVIOUS
<1> HIDE DEF T
<1> QED BY <1>2, <1>3, <1>4, Begun

\* A login, a request on a key or a change of password begins.
LEMMA BeginOthers ==
  ASSUME UsersOK, KeysOK, TasksOK, CacheOK, NEW w \in Callers,
         \/ BeginLogin(w) \/ BeginUpdateKey(w) \/ BeginRotateKey(w) \/ BeginDeleteKey(w)
         \/ ChangeOwnPassword(w) \/ RemoveOwnPassword(w)
  PROVE  Handled(w)
<1>1. CASE BeginLogin(w)
  <2> DEFINE T(i, u) == [step |-> "revoke", on |-> i, user |-> u, role |-> SessionRole(u)]
  <2>1. PICK i \in Instances, u \in Users : SessionRole(u) # None /\ Begin(w, i, T(i, u))
    BY <1>1 DEF BeginLogin
  <2>2. SessionRole(u) \in Roles /\ users[u] # None
    BY <2>1, Resolved
  <2>3. T(i, u) \in Tasks
    BY <2>2 DEF Tasks, Revoking
  <2>4. T(i, u).on = i /\ T(i, u).user = u /\ ~CarriesRow(T(i, u))
    BY DEF CarriesRow
  <2> HIDE DEF T
  <2> QED BY <2>1, <2>2, <2>3, <2>4, Begun
<1>2. CASE BeginUpdateKey(w) \/ BeginRotateKey(w) \/ BeginDeleteKey(w)
  <2> DEFINE T(s, i, k) == [step |-> s, on |-> i, key |-> k, row |-> keys[k]]
  <2>1. PICK s \in {"update", "rotate", "delete"}, i \in Instances, k \in Ids :
          LiveKey(k) /\ Begin(w, i, T(s, i, k))
    BY <1>2 DEF BeginUpdateKey, BeginRotateKey, BeginDeleteKey, BeginOnKey
  <2>2. keys[k] \in Rows /\ Owned(keys[k], users)
    BY <2>1, RowKnown DEF LiveKey
  <2>3. T(s, i, k) \in Tasks
    BY <2>2 DEF Tasks, OnKey
  <2>4. T(s, i, k).on = i /\ T(s, i, k).row = keys[k] /\ T(s, i, k).step # "revoke"
    OBVIOUS
  <2> HIDE DEF T
  <2> QED BY <2>1, <2>2, <2>3, <2>4, Begun
<1>3. CASE ChangeOwnPassword(w) \/ RemoveOwnPassword(w)
  <2> DEFINE T(i, u, k, to) == [step |-> "password", on |-> i, user |-> u, key |-> k, to |-> to]
  <2>1. PICK to \in BOOLEAN, i \in Instances, k \in Ids :
          /\ cache[i][k] # None /\ cache[i][k].user # None
          /\ Begin(w, i, T(i, cache[i][k].user, k, to))
    BY <1>3 DEF ChangeOwnPassword, RemoveOwnPassword, ChangePassword
  <2>2. cache[i][k].user \in Users
    BY <2>1 DEF CacheOK, Entries
  <2>3. T(i, cache[i][k].user, k, to) \in Tasks
    BY <2>2 DEF Tasks, ByUser
  <2>4. LET t == T(i, cache[i][k].user, k, to) IN
        t.on = i /\ t.step # "revoke" /\ ~CarriesRow(t)
    BY DEF CarriesRow
  <2> HIDE DEF T
  <2> QED BY <2>1, <2>3, <2>4, Begun
<1> QED BY <1>1, <1>2, <1>3

\* A step of a handler moves it to a task t.
LEMMA Stepped ==
  ASSUME UsersOK, KeysOK, TasksOK, CacheOK, NEW w \in Callers, NEW t \in Tasks, NEW step,
         Step(w, step), Become(w, t), KeysStay, CacheOK', task[w] # Idle,
         t # Idle => t.on = task[w].on, CarriesRow(t) => Owned(t.row, users),
         t.step = "revoke" => users[t.user] # None
  PROVE  Handled(w)
<1>1. UNCHANGED <<users, up>>
  BY DEF Step, tables
<1>2. task[w].on \in up
  BY DEF TasksOK, TaskOK
<1> QED BY <1>1, <1>2 DEF Handled, MoveOf, TaskOK

\* A step that ends its request.
LEMMA SteppedToIdle ==
  ASSUME UsersOK, KeysOK, TasksOK, CacheOK, NEW w \in Callers, NEW step,
         Step(w, step), Become(w, Idle), KeysStay, CacheOK'
  PROVE  Handled(w)
BY EndsOK DEF Handled, Step

\* A new row is inserted.
LEMMA InsertKeyHandled ==
  ASSUME UsersOK, KeysOK, TasksOK, CacheOK, NEW w \in Callers, InsertKey(w)
  PROVE  Handled(w)
<1> DEFINE t == task[w]
           n(k) == [step |-> IF t.role = None THEN "role" ELSE "set", on |-> t.on,
                    key |-> k, row |-> t.row, role |-> t.role, old |-> None]
<1>1. t \in Inserting /\ t # Idle
  BY TaskFields DEF InsertKey, Step, TasksOK, Idle
<1>2. Owned(t.row, users) /\ t.row \in Rows
  BY <1>1 DEF Inserting, TasksOK, TaskOK, CarriesRow
<1>3. PICK k \in FreeKeys : InsertRow(k, t.row) /\ Become(w, n(k))
  BY DEF InsertKey
<1>4. k \in Ids
  BY DEF FreeKeys
<1>5. n(k) \in Tasks
  BY <1>1, <1>4 DEF Inserting, Tasks, Reading, Setting
<1>6. UsersStay
  BY UsersUnchanged DEF InsertKey, Step, tables
<1>7. KeysStay
  BY <1>2, <1>3, <1>4, <1>6, RowsWritten DEF InsertRow, KeysOK
<1>8. CacheOK'
  BY CacheUnchanged DEF InsertKey, Step
<1>9. n(k).on = t.on /\ n(k).row = t.row /\ n(k).step # "revoke"
  OBVIOUS
<1>10. Step(w, "insert")
  BY DEF InsertKey
<1> HIDE DEF n
<1> QED BY <1>1, <1>2, <1>3, <1>5, <1>7, <1>8, <1>9, <1>10, Stepped

\* The role of a new key is a role, or is not found.
LEMMA NewRoles ==
  ASSUME UsersOK, NEW t, t.row \in Rows
  PROVE  NewRole(t) \in Roles \cup {None}
<1>1. t.row.type \notin {"team", "sa"} => t.row.user \in Users
  BY DEF Rows
<1> QED BY <1>1, Resolved DEF NewRole, Roles

\* The steps that only carry something on.
LEMMA CarryingHandled ==
  ASSUME UsersOK, KeysOK, TasksOK, CacheOK, NEW w \in Callers,
         ReadRole(w) \/ GetEntry(w) \/ Publish(w)
  PROVE  Handled(w)
<1> DEFINE t == task[w]
<1>1. t \in Tasks /\ TaskOK(t, users, up)
  BY DEF TasksOK
<1>2. PICK step : Step(w, step) /\ t # Idle
  <2>1. \E step \in {"role", "get", "publish"} : Step(w, step)
    BY DEF ReadRole, GetEntry, Publish
  <2> QED BY <2>1 DEF Step, Idle
<1>3. KeysStay
  BY UsersUnchanged, KeysUnchanged DEF ReadRole, GetEntry, Publish, Step, tables
<1>4. CacheOK'
  BY CacheUnchanged DEF ReadRole, GetEntry, Publish, Step
<1>5. CASE ReadRole(w)
  <2> DEFINE n == [t EXCEPT !.step = "set", !.role = NewRole(t)]
  <2>1. t \in Reading \cup ReadingRotated
    BY <1>1, <1>5, TaskFields DEF ReadRole, Step
  <2>2. t.row \in Rows /\ Owned(t.row, users)
    BY <1>1, <2>1 DEF Reading, ReadingRotated, TaskOK, CarriesRow
  <2>3. CASE NewRole(t) = None
    BY <1>2, <1>3, <1>4, <1>5, <2>3, SteppedToIdle DEF ReadRole
  <2>4. CASE NewRole(t) # None
    <3>1. NewRole(t) \in Roles
      BY <2>2, <2>4, NewRoles
    <3>2. n \in Setting \cup SettingRotated
      BY <2>1, <3>1 DEF Reading, ReadingRotated, Setting, SettingRotated
    <3>3. n.on = t.on /\ n.row = t.row /\ n.step # "revoke"
      BY <2>1 DEF Reading, ReadingRotated
    <3>4. Become(w, n)
      BY <1>5, <2>4 DEF ReadRole
    <3>5. n \in Tasks
      BY <3>2 DEF Tasks
    <3> HIDE DEF n
    <3> QED BY <1>2, <1>3, <1>4, <2>2, <3>3, <3>4, <3>5, Stepped
  <2> QED BY <2>3, <2>4
<1>6. CASE GetEntry(w)
  <2> DEFINE e == cache[t.on][t.key]
             f == [x \in DOMAIN e |-> IF x \in DOMAIN t.change THEN t.change[x] ELSE e[x]]
             n == [step |-> "store", on |-> t.on, key |-> t.key, then |-> t.then, entry |-> f]
             p == [step |-> "publish", on |-> t.on, key |-> t.key]
  <2>1. t \in Getting
    BY <1>1, <1>6, TaskFields DEF GetEntry, Step
  <2>2. \/ e # None /\ Become(w, n)
        \/ Become(w, Idle)
        \/ Become(w, p)
    BY <1>6 DEF GetEntry
  <2>3. CASE e # None /\ Become(w, n)
    <3>1. e \in Entries
      BY <2>1, <2>3 DEF CacheOK, Getting
    <3>2. /\ "expires" \in DOMAIN t.change /\ t.change.expires \in Nat
          /\ "limit" \in DOMAIN t.change => t.change.limit \in {0, 1}
          /\ DOMAIN t.change \subseteq {"limit", "expires"}
      BY <2>1 DEF Getting, Changes
    <3>3. f \in Entries
      BY <3>1, <3>2 DEF Entries
    <3>4. n \in Tasks
      BY <2>1, <3>3 DEF Getting, Storing, Tasks
    <3>5. n.on = t.on /\ n.step # "revoke" /\ ~CarriesRow(n)
      BY DEF CarriesRow
    <3> HIDE DEF n
    <3> QED BY <1>2, <1>3, <1>4, <2>3, <3>4, <3>5, Stepped
  <2>4. CASE Become(w, p)
    <3>1. p \in Tasks
      BY <2>1 DEF Getting, Publishing, Tasks
    <3>2. p.on = t.on /\ p.step # "revoke" /\ ~CarriesRow(p)
      BY DEF CarriesRow
    <3> HIDE DEF p
    <3> QED BY <1>2, <1>3, <1>4, <2>4, <3>1, <3>2, Stepped
  <2> QED BY <1>2, <1>3, <1>4, <2>2, <2>3, <2>4, SteppedToIdle
<1>7. CASE Publish(w)
  BY <1>2, <1>3, <1>4, <1>7, SteppedToIdle DEF Publish
<1> QED BY <1>5, <1>6, <1>7

\* The steps that store an entry or drop it.
LEMMA StoringHandled ==
  ASSUME UsersOK, KeysOK, TasksOK, CacheOK, NEW w \in Callers,
         SetNew(w) \/ StoreEntry(w) \/ Evict(w) \/ EvictOthers(w)
  PROVE  Handled(w)
<1> DEFINE t == task[w]
<1>1. t \in Tasks /\ TaskOK(t, users, up)
  BY DEF TasksOK
<1>2. PICK step : Step(w, step) /\ t # Idle
  <2>1. \E step \in {"set", "store", "evict", "evictOthers"} : Step(w, step)
    BY DEF SetNew, StoreEntry, Evict, EvictOthers
  <2> QED BY <2>1 DEF Step, Idle
<1>3. KeysStay /\ UNCHANGED listed
  BY UsersUnchanged, KeysUnchanged DEF SetNew, StoreEntry, Evict, EvictOthers, Step, tables
\* A handler that carries no row and makes no session.
<1>4. ASSUME NEW n \in Getting \cup Publishing, n.on = t.on, Become(w, n), CacheOK'
      PROVE  Handled(w)
  <2>1. n \in Tasks
    BY <1>4 DEF Tasks
  <2>2. ~CarriesRow(n) /\ n.step # "revoke"
    BY <1>4 DEF Getting, Publishing, CarriesRow
  <2> QED BY <1>2, <1>3, <1>4, <2>1, <2>2, Stepped
<1>5. CASE SetNew(w)
  <2> DEFINE n == [step |-> "get", on |-> t.on, key |-> t.old, then |-> "publish",
                   change |-> [expires |-> t.oldExpires]]
  <2>1. t \in Setting \cup SettingRotated
    BY <1>1, <1>5, TaskFields DEF SetNew, Step
  <2>2. NewEntry(t.row, t.role) \in Entries
    BY <2>1, EntryTypes DEF NewEntry, Setting, SettingRotated
  <2>3. t.on \in Instances /\ t.key \in Ids
    BY <2>1 DEF Setting, SettingRotated
  <2>4. CacheOK'
    BY <1>3, <1>5, <2>2, <2>3, EntrySet DEF SetNew
  <2>5. ASSUME t.old # None PROVE n \in Getting
    <3>1. t \in SettingRotated
      BY <2>1, <2>5 DEF Setting
    <3> QED BY <3>1 DEF SettingRotated, Getting, Changes
  <2>6. Become(w, IF t.old = None THEN Idle ELSE n) /\ n.on = t.on
    BY <1>5 DEF SetNew
  <2> HIDE DEF n
  <2> QED BY <1>2, <1>3, <1>4, <2>4, <2>5, <2>6, SteppedToIdle
<1>6. CASE StoreEntry(w)
  <2> DEFINE p == [step |-> "publish", on |-> t.on, key |-> t.key]
  <2>1. t \in Storing
    BY <1>1, <1>6, TaskFields DEF StoreEntry, Step
  <2>2. t.on \in Instances /\ t.key \in Ids /\ t.entry \in Entries
    BY <2>1 DEF Storing
  <2>3. CacheOK'
    BY <1>3, <1>6, <2>2, EntrySet DEF StoreEntry
  <2>4. p \in Publishing /\ p.on = t.on
    BY <2>2 DEF Publishing
  <2>5. Become(w, Idle) \/ Become(w, p)
    BY <1>6 DEF StoreEntry
  <2> HIDE DEF p
  <2> QED BY <1>2, <1>3, <1>4, <2>3, <2>4, <2>5, SteppedToIdle
<1>7. CASE Evict(w)
  <2> DEFINE n == [t EXCEPT !.step = "publish"]
  <2>1. t \in OnKey /\ t.step = "evict"
    BY <1>1, <1>7, TaskFields DEF Evict, Step
  <2>2. t.on \in Instances /\ t.key \in Ids
    BY <2>1 DEF OnKey
  <2>3. CacheOK'
    BY <1>3, <1>7, <2>2, EntrySet DEF Evict
  <2>4. n \in OnKey /\ n.on = t.on /\ n.step = "publish"
    BY <2>1 DEF OnKey
  <2>5. n \in Tasks /\ ~CarriesRow(n) /\ n.step # "revoke"
    BY <2>4 DEF Tasks, CarriesRow
  <2>6. Become(w, n)
    BY <1>7 DEF Evict
  <2> HIDE DEF n
  <2> QED BY <1>2, <1>3, <2>3, <2>4, <2>5, <2>6, Stepped
<1>8. CASE EvictOthers(w)
  <2>1. t \in ForUser
    BY <1>1, <1>8, TaskFields DEF EvictOthers, Step
  <2>2. CacheOK'
    BY <1>3, <1>8, <2>1 DEF EvictOthers, CacheOK, ForUser
  <2>3. Become(w, Idle)
    BY <1>8 DEF EvictOthers
  <2> QED BY <1>2, <1>3, <2>2, <2>3, SteppedToIdle
<1> QED BY <1>5, <1>6, <1>7, <1>8

\* Those that change the rows.
LEMMA ChangingHandled ==
  ASSUME UsersOK, LimitsOK, KeysOK, TasksOK, CacheOK, NEW w \in Callers,
         UpdateKey(w) \/ DeleteKey(w) \/ RevokeSessions(w)
  PROVE  Handled(w)
<1> DEFINE t == task[w]
<1>1. t \in Tasks /\ TaskOK(t, users, up)
  BY DEF TasksOK
<1>2. PICK step : Step(w, step) /\ t # Idle
  <2>1. \E step \in {"update", "delete", "revoke"} : Step(w, step)
    BY DEF UpdateKey, DeleteKey, RevokeSessions
  <2> QED BY <2>1 DEF Step, Idle
<1>3. UsersStay
  BY <1>2, UsersUnchanged DEF Step, tables
<1>4. CacheOK'
  BY <1>2, CacheUnchanged DEF UpdateKey, DeleteKey, RevokeSessions, Step
<1>5. now + 1 \in Nat
  BY DEF LimitsOK
<1>6. CASE UpdateKey(w)
  <2> DEFINE n(row) == [step |-> "get", on |-> t.on, key |-> t.key, then |-> "idle",
                        change |-> [limit |-> row.limit, expires |-> row.expires]]
  <2>1. t.key \in Ids /\ t.on \in Instances
    BY <1>1, <1>6, TaskFields DEF UpdateKey, Step, OnKey
  <2>2. CASE ~LiveKey(t.key)
    <3>1. Become(w, Idle) /\ UNCHANGED keys
      BY <1>6, <2>2 DEF UpdateKey
    <3> QED BY <1>2, <1>3, <1>4, <3>1, KeysUnchanged, SteppedToIdle
  <2>3. CASE LiveKey(t.key)
    <3>1. keys[t.key] \in Rows /\ Owned(keys[t.key], users)
      BY <2>1, <2>3, RowKnown DEF LiveKey
    <3>2. PICK row \in {[keys[t.key] EXCEPT !.limit = 1 - keys[t.key].limit],
                        [keys[t.key] EXCEPT !.expires = now + 1]} :
            ChangeRow(t.key, row) /\ Become(w, n(row))
      BY <1>6, <2>3 DEF UpdateKey
    <3>3. row \in Rows /\ Owned(row, users)
      BY <1>5, <3>1, RowEdits DEF Owned
    <3>4. KeysStay
      BY <1>3, <2>1, <3>2, <3>3, RowsWritten DEF ChangeRow, KeysOK
    <3>5. n(row) \in Tasks
      <4>1. row.limit \in {0, 1} /\ row.expires \in Nat
        BY <3>3 DEF Rows
      <4> QED BY <2>1, <4>1 DEF Getting, Changes, Tasks
    <3>6. n(row).on = t.on /\ n(row).step # "revoke" /\ ~CarriesRow(n(row))
      BY DEF CarriesRow
    <3> HIDE DEF n
    <3> QED BY <1>2, <1>4, <3>2, <3>4, <3>5, <3>6, Stepped
  <2> QED BY <2>2, <2>3
<1>7. CASE DeleteKey(w)
  <2> DEFINE n == [t EXCEPT !.step = "evict"]
  <2>1. t \in OnKey /\ t.step = "delete"
    BY <1>1, <1>7, TaskFields DEF DeleteKey, Step
  <2>2. CASE DeleteRow(t.key) /\ Become(w, n)
    <3>1. t.key \in Ids
      BY <2>1 DEF OnKey
    <3>2. keys[t.key] \in Rows /\ Owned(keys[t.key], users)
      BY <2>2, <3>1, RowKnown DEF DeleteRow, LiveKey
    <3>3. LET row == [keys[t.key] EXCEPT !.deleted = TRUE] IN row \in Rows /\ Owned(row, users)
      BY <3>2, RowEdits DEF Owned
    <3>4. keys' = [keys EXCEPT ![t.key] = [keys[t.key] EXCEPT !.deleted = TRUE]]
      BY <2>2 DEF DeleteRow
    <3>5. KeysStay
      BY <1>3, <3>1, <3>3, <3>4, RowsWritten DEF KeysOK
    <3>6. n \in OnKey /\ n.on = t.on /\ n.row = t.row /\ n.step = "evict"
      BY <2>1 DEF OnKey
    <3>7. n \in Tasks /\ Owned(n.row, users) /\ n.step # "revoke"
      BY <1>1, <2>1, <3>6 DEF Tasks, TaskOK, CarriesRow
    <3> HIDE DEF n
    <3> QED BY <1>2, <1>4, <2>2, <3>5, <3>6, <3>7, Stepped
  <2>3. CASE Become(w, Idle) /\ UNCHANGED keys
    BY <1>2, <1>3, <1>4, <2>3, KeysUnchanged, SteppedToIdle
  <2> QED BY <1>7, <2>2, <2>3 DEF DeleteKey
<1>8. CASE RevokeSessions(w)
  <2> DEFINE row == Key("session", t.user, FALSE, 0, now + 1)
             n == [step |-> "insert", on |-> t.on, role |-> t.role, row |-> row]
  <2>1. t \in Revoking
    BY <1>1, <1>8, TaskFields DEF RevokeSessions, Step
  <2>2. t.user \in Users /\ users[t.user] # None /\ t.role \in Roles \cup {None}
    BY <1>1, <2>1 DEF Revoking, TaskOK
  <2>3. row \in Rows /\ Owned(row, users)
    BY <1>5, <2>2 DEF Key, Rows, Owned
  <2>4. n \in Tasks
    BY <2>1, <2>2, <2>3 DEF Revoking, Inserting, Tasks
  <2>5. n.on = t.on /\ n.row = row /\ n.step # "revoke"
    OBVIOUS
  <2>6. KeysStay
    BY <1>3, <1>8, SessionsDeleted DEF RevokeSessions, Sessions
  <2>7. Become(w, n) \/ Become(w, Idle)
    BY <1>8 DEF RevokeSessions, NewSession
  <2> HIDE DEF n, row
  <2> QED BY <1>2, <1>4, <2>3, <2>4, <2>5, <2>6, <2>7, Stepped, SteppedToIdle
<1> QED BY <1>6, <1>7, <1>8

\* A rotation writes two rows.
LEMMA RotateKeyHandled ==
  ASSUME UsersOK, LimitsOK, KeysOK, TasksOK, CacheOK, NEW w \in Callers, RotateKey(w)
  PROVE  Handled(w)
<1> DEFINE t == task[w]
           grace == Lesser(t.row.expires, now + 1)
           n(k) == [step |-> "role", on |-> t.on, key |-> k, row |-> t.row,
                    role |-> None, old |-> t.key, oldExpires |-> grace]
<1>1. Step(w, "rotate") /\ t \in OnKey /\ t # Idle
  BY TaskFields DEF RotateKey, Step, TasksOK, Idle
<1>2. t.row \in Rows /\ Owned(t.row, users) /\ t.key \in Ids /\ t.on \in Instances
  BY <1>1 DEF OnKey, TasksOK, TaskOK, CarriesRow, Step
<1>3. grace \in Nat
  BY <1>2 DEF Lesser, Rows, LimitsOK
<1>4. UsersStay
  BY <1>1, UsersUnchanged DEF Step, tables
<1>5. CacheOK'
  BY CacheUnchanged DEF RotateKey, Step
<1>6. CASE ~LiveKey(t.key)
  <2>1. Become(w, Idle) /\ UNCHANGED keys
    BY <1>6 DEF RotateKey
  <2> QED BY <1>1, <1>4, <1>5, <2>1, KeysUnchanged, SteppedToIdle
<1>7. CASE LiveKey(t.key)
  <2>1. PICK k \in FreeKeys : RotateRows(t.key, grace, k, t.row) /\ Become(w, n(k))
    BY <1>7 DEF RotateKey
  <2>2. k \in Ids /\ keys[k] = None /\ k # t.key
    BY <1>7 DEF FreeKeys, LiveKey
  <2>3. keys[t.key] \in Rows /\ Owned(keys[t.key], users)
    BY <1>2, <1>7, RowKnown DEF LiveKey
  <2>4. LET row == [keys[t.key] EXCEPT !.expires = grace] IN row \in Rows /\ Owned(row, users)
    BY <1>3, <2>3, RowEdits DEF Owned
  <2>5. keys' = [keys EXCEPT ![k] = t.row, ![t.key] = [keys[t.key] EXCEPT !.expires = grace]]
    BY <1>2, <2>1, <2>2 DEF RotateRows, KeysOK
  <2>6. KeysStay
    BY <1>2, <1>4, <2>2, <2>4, <2>5, RowsWritten DEF KeysOK
  <2>7. n(k) \in Tasks
    BY <1>2, <1>3, <2>2 DEF ReadingRotated, Tasks
  <2>8. n(k).on = t.on /\ n(k).row = t.row /\ n(k).step # "revoke"
    OBVIOUS
  <2> HIDE DEF n, grace
  <2> QED BY <1>1, <1>2, <1>5, <2>1, <2>6, <2>7, <2>8, Stepped
<1> QED BY <1>6, <1>7

\* A change of password deletes sessions.
LEMMA WritePasswordHandled ==
  ASSUME UsersOK, KeysOK, TasksOK, CacheOK, NEW w \in Callers, WritePassword(w)
  PROVE  Handled(w)
<1> DEFINE t == task[w]
           n == [step |-> "evictOthers", on |-> t.on, user |-> t.user, key |-> t.key]
<1>1. t \in ByUser /\ t # Idle
  BY TaskFields DEF WritePassword, TasksOK, Idle
<1>2. t.on \in up /\ UNCHANGED up
  BY <1>1 DEF TasksOK, TaskOK, WritePassword
<1>3. UsersStay
  BY AccountUsers
<1>4. CacheOK'
  BY CacheUnchanged DEF WritePassword
<1>5. CASE SetPassword(t.user, t.to, t.key) /\ Become(w, n)
  <2>1. KeysStay
    BY <1>3, <1>5, SessionsDeleted DEF SetPassword, Sessions
  <2>2. n \in Tasks
    BY <1>1 DEF ByUser, ForUser, Tasks
  <2>3. n.on = t.on /\ n.step # "revoke" /\ ~CarriesRow(n)
    BY DEF CarriesRow
  <2> HIDE DEF n
  <2> QED BY <1>2, <1>4, <1>5, <2>1, <2>2, <2>3 DEF Handled, MoveOf, TaskOK
<1>6. CASE Become(w, Idle) /\ UNCHANGED keys
  BY <1>2, <1>3, <1>4, <1>6, KeysUnchanged, EndsOK DEF Handled
<1> QED BY <1>5, <1>6 DEF WritePassword

\* A call that fails ends the request or lets it go on.
LEMMA FailsHandled ==
  ASSUME UsersOK, LimitsOK, KeysOK, TasksOK, CacheOK, NEW w \in Callers, Fails(w)
  PROVE  Handled(w)
<1> DEFINE t == task[w]
           row == Key("session", t.user, FALSE, 0, now + 1)
           insert == [step |-> "insert", on |-> t.on, role |-> t.role, row |-> row]
<1>1. t \in Tasks /\ TaskOK(t, users, up) /\ t # Idle /\ t.on \in up
  BY DEF TasksOK, TaskOK, Fails, Idle
<1>2. UsersStay /\ KeysStay /\ CacheOK' /\ UNCHANGED <<up, users>>
  BY UsersUnchanged, KeysUnchanged, CacheUnchanged DEF Fails, tables, keyVars
<1>3. ASSUME NEW n \in Tasks, Become(w, n), n.on = t.on, n.step # "revoke",
             CarriesRow(n) => Owned(n.row, users)
      PROVE  Handled(w)
  BY <1>1, <1>2, <1>3 DEF Handled, MoveOf, TaskOK
<1>4. CASE t.step = "revoke" /\ Become(w, insert)
  <2>1. t \in Revoking
    BY <1>1, <1>4, TaskFields
  <2>2. t.user \in Users /\ users[t.user] # None /\ t.role \in Roles \cup {None} /\ t.on \in Instances
    BY <1>1, <1>4, <2>1 DEF Revoking, TaskOK
  <2>3. row \in Rows /\ Owned(row, users)
    BY <2>2 DEF LimitsOK, Key, Rows, Owned
  <2>4. insert \in Tasks
    BY <2>2, <2>3 DEF Inserting, Tasks
  <2>5. insert.on = t.on /\ insert.row = row /\ insert.step # "revoke"
    OBVIOUS
  <2> HIDE DEF insert, row
  <2> QED BY <1>3, <1>4, <2>3, <2>4, <2>5
<1>5. CASE t.step = "join" /\ Become(w, [t EXCEPT !.step = "undo"])
  <2> DEFINE n == [t EXCEPT !.step = "undo"]
  <2>1. t \in OnUser
    BY <1>1, <1>5, TaskFields
  <2>2. n \in OnUser /\ n.on = t.on /\ n.step = "undo"
    BY <2>1 DEF OnUser
  <2>3. n \in Tasks /\ ~CarriesRow(n)
    BY <2>2 DEF Tasks, CarriesRow
  <2> HIDE DEF n
  <2> QED BY <1>3, <1>5, <2>2, <2>3 DEF n
<1>6. CASE t.step = "role" /\ Become(w, [t EXCEPT !.step = "set", !.role = "org_admin"])
  <2> DEFINE n == [t EXCEPT !.step = "set", !.role = "org_admin"]
  <2>1. t \in Reading \cup ReadingRotated /\ Owned(t.row, users)
    BY <1>1, <1>6, TaskFields DEF TaskOK, CarriesRow
  <2>2. "org_admin" \in Roles
    BY DEF Roles
  <2>3. n \in Setting \cup SettingRotated /\ n.on = t.on /\ n.row = t.row /\ n.step = "set"
    BY <2>1, <2>2 DEF Reading, ReadingRotated, Setting, SettingRotated
  <2>4. n \in Tasks
    BY <2>3 DEF Tasks
  <2>5. Become(w, n)
    BY <1>6
  <2> HIDE DEF n
  <2> QED BY <1>3, <2>1, <2>3, <2>4, <2>5
<1>7. CASE Become(w, Idle)
  BY <1>2, <1>7, EndsOK DEF Handled
<1> QED BY <1>4, <1>5, <1>6, <1>7 DEF Fails, NewSession

-----------------------------------------------------------------------------
(* The steps of an instance, and the types of the whole.                   *)

\* The steps of an instance keep the types.
LEMMA InstanceTypes ==
  ASSUME KeyTypes, NEW i \in Instances,
         \/ Authenticate(i) \/ List(i) \/ Swap(i) \/ ReloadFails(i) \/ Receive(i) \/ Lose(i)
         \/ Restart(i)
  PROVE  KeyTypes' /\ KeysStay
<1> USE DEF KeyTypes
<1>1. UNCHANGED <<users, org, team, now, keys>>
  BY DEF Authenticate, List, Swap, ReloadFails, Receive, Lose, Restart, CacheStep, tables
<1>2. UsersStay /\ UsersOK' /\ LimitsOK'
  BY <1>1, UsersUnchanged DEF UsersStay, LimitsOK
<1>3. KeysStay /\ KeysOK'
  BY <1>1, <1>2, KeysUnchanged DEF KeysStay
<1>4. CASE Restart(i)
  <2>1. TaskOK(Idle, users, up') /\ Idle \in Tasks
    BY DEF TaskOK, Idle, CarriesRow, Tasks
  <2>2. /\ task' = [w \in Callers |-> IF task[w] # Idle /\ task[w].on = i THEN Idle ELSE task[w]]
        /\ up' = up \ {i}
    BY <1>4 DEF Restart
  <2>3. \A w \in Callers : task'[w] \in Tasks /\ TaskOK(task'[w], users, up')
    <3> SUFFICES ASSUME NEW w \in Callers PROVE task'[w] \in Tasks /\ TaskOK(task'[w], users, up')
      OBVIOUS
    <3>1. task[w] \in Tasks /\ TaskOK(task[w], users, up)
      BY DEF TasksOK
    <3>2. CASE task[w] # Idle /\ task[w].on = i
      BY <2>1, <2>2, <3>2
    <3>3. CASE ~(task[w] # Idle /\ task[w].on = i)
      BY <2>2, <3>1, <3>3 DEF TaskOK
    <3> QED BY <3>2, <3>3
  <2>4. TasksOK'
    BY <1>1, <2>2, <2>3 DEF TasksOK
  <2>5. CacheOK'
    BY <1>4 DEF Restart, CacheOK
  <2> QED BY <1>2, <1>3, <2>4, <2>5
<1>5. CASE ~Restart(i)
  <2>1. UNCHANGED task /\ up \subseteq up' /\ up' \subseteq Instances
    BY <1>5 DEF Authenticate, List, Swap, ReloadFails, Receive, Lose, CacheStep, TasksOK
  <2>2. TasksOK'
    BY <1>2, <2>1, TasksRest
  <2>3. CacheOK'
    <3>1. CASE List(i)
      BY <3>1, ListingTypes DEF List, CacheOK
    <3>2. CASE Swap(i)
      BY <3>2 DEF Swap, LoadAll, CacheOK
    <3>3. CASE ReloadFails(i) \/ Lose(i)
      BY <3>3 DEF ReloadFails, Lose, CacheOK
    <3>4. CASE Authenticate(i) \/ Receive(i)
      BY <3>4 DEF Authenticate, Receive, SetEntry, CacheOK
    <3> QED BY <1>5, <3>1, <3>2, <3>3, <3>4
  <2> QED BY <1>2, <1>3, <2>2, <2>3
<1> QED BY <1>4, <1>5

\* The types hold at first.
LEMMA TypesStart == Init => KeyTypes
<1> SUFFICES ASSUME Init PROVE KeyTypes
  OBVIOUS
<1>1. UsersOK /\ users[Founder] # None
  <2>1. NewUser(TRUE, "org_admin") \in UserRows
    BY NewUserRows DEF MemberRoles
  <2> QED BY <2>1, AccountsAssumption DEF Init, AccountsInit, UsersOK
<1>2. LimitsOK
  BY DEF Init, AccountsInit, LimitsOK, Limits
<1>3. KeysOK
  BY <1>1, KeyAssumption, AccountsAssumption DEF Init, KeysOK, Owned, Ids
<1>4. TasksOK
  <2>1. Idle \in Tasks /\ TaskOK(Idle, users, up)
    BY DEF Tasks, TaskOK, Idle, CarriesRow
  <2> QED BY <2>1 DEF Init, AccountsInit, TasksOK
<1>5. CacheOK
  BY <1>1, <1>2, <1>3, ListingTypes DEF Init, CacheOK
<1> QED BY <1>1, <1>2, <1>3, <1>4, <1>5 DEF KeyTypes

\* A step of a caller is one of a key handler or one of the accounts.
LEMMA HandlerSteps ==
  ASSUME KeyTypes, NEW w \in Callers, Requests(w) \/ Continue(w) \/ Fails(w)
  PROVE  \/ Handled(w) /\ UsersStay /\ UNCHANGED <<org, team, now>>
         \/ /\ Administer(w) \/ ContinueInvite(w) \/ ContinueSso(w)
            /\ UNCHANGED keyVars
<1> USE DEF KeyTypes
<1>1. ASSUME \/ BeginCreateKey(w) \/ BeginLogin(w) \/ BeginUpdateKey(w) \/ BeginRotateKey(w)
             \/ BeginDeleteKey(w) \/ ChangeOwnPassword(w) \/ RemoveOwnPassword(w) \/ Fails(w)
      PROVE  Handled(w) /\ UNCHANGED <<users, org, team, now>>
  <2>1. \/ \E i \in Instances : \E t : Begin(w, i, t)
        \/ Fails(w)
    BY <1>1 DEF BeginCreateKey, BeginLogin, BeginUpdateKey, BeginRotateKey, BeginDeleteKey,
       BeginOnKey, ChangeOwnPassword, RemoveOwnPassword, ChangePassword
  <2>2. UNCHANGED <<users, org, team, now>>
    BY <2>1 DEF Begin, Fails, tables, keyVars
  <2> QED BY <1>1, <2>2, BeginCreates, BeginOthers, FailsHandled
<1>2. ASSUME \/ InsertKey(w) \/ ReadRole(w) \/ SetNew(w) \/ RevokeSessions(w) \/ UpdateKey(w)
             \/ RotateKey(w) \/ GetEntry(w) \/ StoreEntry(w) \/ DeleteKey(w) \/ Evict(w)
             \/ EvictOthers(w) \/ Publish(w)
      PROVE  Handled(w) /\ UNCHANGED <<users, org, team, now>>
  <2>1. \E step : Step(w, step)
    BY <1>2 DEF InsertKey, ReadRole, SetNew, RevokeSessions, UpdateKey, RotateKey, GetEntry,
       StoreEntry, DeleteKey, Evict, EvictOthers, Publish
  <2>2. UNCHANGED <<users, org, team, now>>
    BY <2>1 DEF Step, tables
  <2> QED BY <1>2, <2>2, InsertKeyHandled, CarryingHandled, StoringHandled, ChangingHandled,
          RotateKeyHandled
<1>3. ASSUME WritePassword(w) PROVE Handled(w) /\ UsersStay /\ UNCHANGED <<org, team, now>>
  BY <1>3, WritePasswordHandled, AccountUsers DEF WritePassword, OnlyUsers
<1> QED BY <1>1, <1>2, <1>3, UsersUnchanged DEF Requests, Continue

\* Every step keeps the types, and the rows.
LEMMA TypesStep ==
  ASSUME KeyTypes, [Next]_vars
  PROVE  KeyTypes' /\ KeysStay
<1>1. ASSUME NEW w \in Callers, Requests(w) \/ Continue(w) \/ Fails(w)
      PROVE  KeyTypes' /\ KeysStay
  <2>1. CASE Handled(w) /\ UsersStay /\ UNCHANGED <<org, team, now>>
    <3>1. UsersStay /\ LimitsOK'
      BY <2>1 DEF KeyTypes, LimitsOK
    <3> QED BY <2>1, <3>1, TasksMove DEF Handled, KeyTypes, KeysStay, UsersStay
  <2>2. CASE (Administer(w) \/ ContinueInvite(w) \/ ContinueSso(w)) /\ UNCHANGED keyVars
    <3>1. UsersStay /\ LimitsOK'
      BY <2>2, AccountUsers, AccountLimits DEF KeyTypes, keyVars
    <3>2. KeysStay /\ CacheOK'
      BY <2>2, <3>1, KeysUnchanged, CacheUnchanged DEF KeyTypes, keyVars
    <3>3. TasksOK'
      <4>1. CASE MoveOf(w)
        BY <3>1, <4>1, TasksMove DEF KeyTypes
      <4>2. CASE UNCHANGED <<task, up>>
        BY <3>1, <4>2, TasksRest DEF KeyTypes, TasksOK
      <4> QED BY <2>2, <4>1, <4>2, AccountTasks DEF KeyTypes
    <3> QED BY <3>1, <3>2, <3>3 DEF KeyTypes, KeysStay, UsersStay
  <2> QED BY <1>1, <2>1, <2>2, HandlerSteps
<1>2. CASE Tomorrow \/ UNCHANGED vars
  <2>1. UNCHANGED <<users, org, team, task, up, keys, cache, listed>> /\ now' \in Nat
    BY <1>2 DEF Tomorrow, vars, tables, keyVars, KeyTypes, LimitsOK
  <2>2. UsersStay
    BY <2>1, UsersUnchanged DEF KeyTypes
  <2>3. KeysStay /\ TasksOK' /\ CacheOK' /\ LimitsOK'
    BY <2>1, <2>2, KeysUnchanged, TasksRest, CacheUnchanged DEF KeyTypes, TasksOK, LimitsOK
  <2> QED BY <2>2, <2>3 DEF KeyTypes, KeysStay, UsersStay
<1> QED BY <1>1, <1>2, InstanceTypes DEF Next

\* KeyTypes is what TypeOK says and more.
LEMMA TypesAreTyped == KeyTypes => TypeOK
BY DEF KeyTypes, UsersOK, KeysOK, TasksOK, CacheOK, TaskOK, Owned, TypeOK

\* The tables, the caches and the listings hold what they should, no key names a
\* user without a row, and every handler runs on an instance that serves
\* (TypeOK of the run Keys).
THEOREM KeysTyped == Spec => []TypeOK
<1>1. KeyTypes /\ [Next]_vars => KeyTypes'
  BY TypesStep
<1> QED BY TypesStart, TypesAreTyped, <1>1, PTL DEF Spec

-----------------------------------------------------------------------------
(* Refused keys.                                                           *)

\* The same, of the handlers of keys.
LEMMA BeginsStoreNothing ==
  ASSUME KeyTypes, NEW w \in Callers,
         \/ BeginCreateKey(w) \/ BeginLogin(w) \/ BeginUpdateKey(w) \/ BeginRotateKey(w)
         \/ BeginDeleteKey(w) \/ ChangeOwnPassword(w) \/ RemoveOwnPassword(w)
  PROVE  task'[w].step \notin Stores
<1> DEFINE begun == {"insert", "revoke", "update", "rotate", "delete", "password"}
<1>1. ASSUME NEW i, NEW t, Begin(w, i, t) PROVE task'[w] = t
  BY <1>1 DEF Begin, Become, KeyTypes, TasksOK
<1>2. CASE BeginCreateKey(w)
  <2> DEFINE T(i, row) == [step |-> "insert", on |-> i, row |-> row, role |-> None]
  <2>1. PICK i, row : Begin(w, i, T(i, row))
    BY <1>2 DEF BeginCreateKey
  <2> QED BY <1>1, <2>1 DEF Stores
<1>3. CASE BeginLogin(w)
  BY <1>1, <1>3 DEF BeginLogin, Stores
<1>4. ASSUME NEW s \in begun, BeginOnKey(w, s) PROVE task'[w].step = s
  BY <1>1, <1>4 DEF BeginOnKey
<1>5. CASE BeginUpdateKey(w) \/ BeginRotateKey(w) \/ BeginDeleteKey(w)
  BY <1>4, <1>5 DEF BeginUpdateKey, BeginRotateKey, BeginDeleteKey, Stores
<1>6. CASE ChangeOwnPassword(w) \/ RemoveOwnPassword(w)
  <2>1. PICK to : ChangePassword(w, to)
    BY <1>6 DEF ChangeOwnPassword, RemoveOwnPassword
  <2> QED BY <1>1, <2>1 DEF ChangePassword, Stores
<1> QED BY <1>2, <1>3, <1>5, <1>6

\* It made the key, or found it in the cache of its instance.
FoundOrMade(w, i, k) ==
    \/ task[w].step \in Stores /\ task[w].on = i /\ task[w].key = k
    \/ keys[k] = None
    \/ cache[i][k] # None

\* A handler comes to store a key only as the one that made it or that found it.
LEMMA ComesToStore ==
  ASSUME KeyTypes, NEW w \in Callers, Requests(w) \/ Continue(w) \/ Fails(w),
         task'[w].step \in Stores
  PROVE  FoundOrMade(w, task'[w].on, task'[w].key)
<1> USE DEF KeyTypes
<1> DEFINE t == task[w]
<1>1. ASSUME NEW n, Become(w, n) PROVE task'[w] = n
  BY <1>1 DEF Become, TasksOK
<1>2. ~Become(w, Idle)
  BY <1>1 DEF Idle, Stores
<1>3. CASE InsertKey(w)
  <2> DEFINE n(k) == [step |-> IF t.role = None THEN "role" ELSE "set", on |-> t.on,
                      key |-> k, row |-> t.row, role |-> t.role, old |-> None]
  <2>1. PICK k \in FreeKeys : Become(w, n(k))
    BY <1>3 DEF InsertKey
  <2>2. task'[w].key = k
    BY <1>1, <2>1
  <2> QED BY <2>2 DEF FreeKeys, FoundOrMade
<1>4. CASE RotateKey(w)
  <2> DEFINE n(k) == [step |-> "role", on |-> t.on, key |-> k, row |-> t.row, role |-> None,
                      old |-> t.key, oldExpires |-> Lesser(t.row.expires, now + 1)]
  <2>1. PICK k \in FreeKeys : Become(w, n(k))
    BY <1>2, <1>4 DEF RotateKey
  <2>2. task'[w].key = k
    BY <1>1, <2>1
  <2> QED BY <2>2 DEF FreeKeys, FoundOrMade
<1>5. CASE ReadRole(w) \/ (Fails(w) /\ t.step = "role")
  <2>1. PICK role : t.step = "role" /\ Become(w, [t EXCEPT !.step = "set", !.role = role])
    BY <1>2, <1>5 DEF ReadRole, Step, Fails
  <2>2. t \in Reading \cup ReadingRotated
    BY <2>1, TaskFields DEF TasksOK
  <2>3. [t EXCEPT !.step = "set", !.role = role].on = t.on
        /\ [t EXCEPT !.step = "set", !.role = role].key = t.key
    BY <2>2 DEF Reading, ReadingRotated
  <2> QED BY <1>1, <2>1, <2>3 DEF FoundOrMade, Stores
<1>6. CASE GetEntry(w)
  <2> DEFINE e == cache[t.on][t.key]
             n == IF e # None
                  THEN [step |-> "store", on |-> t.on, key |-> t.key, then |-> t.then,
                        entry |-> [f \in DOMAIN e |-> IF f \in DOMAIN t.change
                                                      THEN t.change[f] ELSE e[f]]]
                  ELSE IF t.then = "idle" THEN Idle
                  ELSE [step |-> "publish", on |-> t.on, key |-> t.key]
  <2>1. Become(w, n)
    BY <1>6 DEF GetEntry
  <2>2. \/ e # None /\ n.on = t.on /\ n.key = t.key
        \/ n.step = "publish" \/ n = Idle
    <3> HIDE DEF e
    <3> QED OBVIOUS
  <2> HIDE DEF n
  <2> QED BY <1>1, <1>2, <2>1, <2>2 DEF FoundOrMade, Stores
<1>7. CASE SetNew(w) \/ RevokeSessions(w) \/ UpdateKey(w) \/ StoreEntry(w) \/ WritePassword(w)
           \/ EvictOthers(w) \/ Publish(w)
  <2>1. PICK n : Become(w, n) /\ (n.step \in {"get", "insert", "publish", "evictOthers"} \/ n = Idle)
    BY <1>7 DEF SetNew, RevokeSessions, NewSession, UpdateKey, StoreEntry, WritePassword, EvictOthers, Publish
  <2> QED BY <1>1, <1>2, <2>1 DEF Stores
<1>8. CASE DeleteKey(w) \/ Evict(w)
  <2>1. PICK step \in {"evict", "publish"} : Become(w, [t EXCEPT !.step = step]) /\ t \in OnKey
    BY <1>2, <1>8, TaskFields DEF DeleteKey, Evict, Step, TasksOK
  <2>2. [t EXCEPT !.step = step].step = step
    BY <2>1 DEF OnKey
  <2> QED BY <1>1, <2>1, <2>2 DEF Stores
<1>9. CASE Fails(w) /\ t.step # "role"
  <2>1. \/ \E n : Become(w, n) /\ (n.step = "insert" \/ n = Idle)
        \/ t \in OnUser /\ Become(w, [t EXCEPT !.step = "undo"])
    BY <1>2, <1>9, TaskFields DEF Fails, NewSession, TasksOK
  <2>2. t \in OnUser => [t EXCEPT !.step = "undo"].step = "undo"
    BY DEF OnUser
  <2> QED BY <1>1, <1>2, <2>1, <2>2 DEF Stores
<1>10. CASE Administer(w) \/ ContinueInvite(w) \/ ContinueSso(w)
  <2>1. UNCHANGED task
    BY <1>10, AccountTasks
  <2> QED BY <2>1 DEF FoundOrMade
<1> QED
  BY <1>3, <1>4, <1>5, <1>6, <1>7, <1>8, <1>9, <1>10, BeginsStoreNothing DEF Requests, Continue

\* Nothing but a reload and the handlers that are about to do so store an entry.
LEMMA CacheGrows ==
  ASSUME KeyTypes, [Next]_vars, NEW i \in Instances, NEW k \in Ids, ~Swap(i),
         cache[i][k] = None, ~AboutToStore(i, k)
  PROVE  cache'[i][k] = None
<1> USE DEF KeyTypes
<1>1. ASSUME NEW w \in Callers, SetNew(w) \/ StoreEntry(w) PROVE cache'[i][k] = None
  <2> DEFINE t == task[w]
  <2>1. t.on # i \/ t.key # k
    BY <1>1 DEF AboutToStore, SetNew, StoreEntry, Step
  <2>2. PICK e : SetEntry(t.on, t.key, e)
    BY <1>1 DEF SetNew, StoreEntry
  <2> QED BY <2>1, <2>2 DEF SetEntry, CacheOK
<1>2. ASSUME NEW w \in Callers, Evict(w) PROVE cache'[i][k] = None
  BY <1>2 DEF Evict, SetEntry, CacheOK
<1>3. ASSUME NEW w \in Callers, EvictOthers(w) PROVE cache'[i][k] = None
  BY <1>3 DEF EvictOthers, CacheOK
<1>4. ASSUME NEW w \in Callers, Requests(w) \/ Continue(w) \/ Fails(w),
             ~(SetNew(w) \/ StoreEntry(w) \/ Evict(w) \/ EvictOthers(w))
      PROVE  UNCHANGED cache
  BY <1>4 DEF Requests, Begin, BeginCreateKey, BeginLogin, BeginUpdateKey, BeginRotateKey,
     BeginDeleteKey, BeginOnKey, ChangeOwnPassword, RemoveOwnPassword, ChangePassword, Continue,
     InsertKey, ReadRole, RevokeSessions, UpdateKey, RotateKey, GetEntry, DeleteKey, WritePassword,
     Publish, Fails, keyVars
<1>5. ASSUME NEW j \in Instances, Authenticate(j) \/ Receive(j) PROVE cache'[i][k] = None
  BY <1>5 DEF Authenticate, Receive, SetEntry, CacheOK
<1>6. ASSUME NEW j \in Instances, Swap(j) \/ Restart(j) PROVE cache'[i][k] = None
  BY <1>6 DEF Swap, Restart, CacheOK
<1>7. ASSUME NEW j \in Instances, List(j) \/ ReloadFails(j) \/ Lose(j) PROVE UNCHANGED cache
  BY <1>7 DEF List, ReloadFails, Lose
<1>8. CASE Tomorrow \/ UNCHANGED vars
  BY <1>8 DEF Tomorrow, vars, keyVars
<1> QED BY <1>1, <1>2, <1>3, <1>4, <1>5, <1>6, <1>7, <1>8 DEF Next

\* No key is refused at first.
LEMMA RefusedStart == Init => RefusedInv
BY DEF Init, RefusedInv

\* A handler is not about to store a key that is there and not cached.
LEMMA NotToStore ==
  ASSUME KeyTypes, [Next]_vars, NEW i \in Instances, NEW k \in Ids,
         keys[k] # None, cache[i][k] = None, ~AboutToStore(i, k)
  PROVE  ~AboutToStore(i, k)'
<1> SUFFICES ASSUME NEW x \in Callers, task'[x].step \in Stores, task'[x].on = i, task'[x].key = k
             PROVE  FALSE
  BY DEF AboutToStore, Stores
<1> DEFINE Same == task'[x] = task[x]
<1>1. ~Same
  BY DEF AboutToStore, Stores
<1>2. ASSUME NEW w \in Callers, Requests(w) \/ Continue(w) \/ Fails(w) PROVE FALSE
  <2>1. UNCHANGED task \/ \E t : Become(w, t)
    BY <1>2, HandlerSteps, AccountTasks DEF KeyTypes, Handled, MoveOf
  <2>2. x = w
    BY <1>1, <2>1 DEF Become, KeyTypes, TasksOK
  <2>3. FoundOrMade(w, i, k)
    BY <1>2, <2>2, ComesToStore
  <2> QED BY <2>3 DEF FoundOrMade, AboutToStore, Stores
<1>3. ASSUME NEW j \in Instances, Restart(j) PROVE FALSE
  BY <1>1, <1>3 DEF Restart, Idle, Stores
<1>4. ASSUME NEW j \in Instances,
             \/ Authenticate(j) \/ List(j) \/ Swap(j) \/ ReloadFails(j) \/ Receive(j) \/ Lose(j)
      PROVE  FALSE
  BY <1>1, <1>4 DEF Authenticate, List, Swap, ReloadFails, Receive, Lose, CacheStep
<1>5. CASE Tomorrow \/ UNCHANGED vars
  BY <1>1, <1>5 DEF Tomorrow, vars
<1> QED BY <1>2, <1>3, <1>4, <1>5 DEF Next

\* Every step keeps what is refused out of the cache.
LEMMA RefusedStep ==
  ASSUME KeyTypes, RefusedInv, [Next]_vars
  PROVE  RefusedInv'
<1>1. KeysStay
  BY TypesStep
<1>2. UNCHANGED refused \/ \E j \in Instances : Swap(j)
  <2>1. ASSUME NEW w \in Callers, Requests(w) \/ Continue(w) \/ Fails(w) PROVE UNCHANGED refused
    BY <2>1 DEF Requests, Begin, BeginCreateKey, BeginLogin, BeginUpdateKey, BeginRotateKey,
       BeginDeleteKey, BeginOnKey, ChangeOwnPassword, RemoveOwnPassword, ChangePassword, Continue,
       InsertKey, ReadRole, SetNew, RevokeSessions, UpdateKey, RotateKey, GetEntry, StoreEntry,
       DeleteKey, Evict, WritePassword, EvictOthers, Publish, Step, Fails, keyVars
  <2>2. ASSUME NEW j \in Instances,
               Authenticate(j) \/ List(j) \/ ReloadFails(j) \/ Receive(j) \/ Lose(j) \/ Restart(j)
        PROVE  UNCHANGED refused
    BY <2>2 DEF Authenticate, List, ReloadFails, Receive, Lose, Restart
  <2>3. Tomorrow \/ UNCHANGED vars => UNCHANGED refused
    BY DEF Tomorrow, vars, keyVars
  <2> QED BY <2>1, <2>2, <2>3 DEF Next
<1>3. refused' \in [Instances -> SUBSET Ids]
  BY <1>2 DEF RefusedInv, Swap
<1>4. ASSUME NEW i \in Instances, NEW k \in refused'[i]
      PROVE  keys'[k] # None /\ cache'[i][k] = None /\ ~AboutToStore(i, k)'
  <2>1. k \in Ids
    BY <1>3
  <2>2. CASE Swap(i)
    <3>1. listed[i][k] = None /\ Gone(k) /\ ~AboutToStore(i, k)
      BY <2>2 DEF Swap, RefusedInv
    <3>2. cache'[i][k] = None
      BY <2>2, <3>1 DEF Swap, LoadAll, KeyTypes, CacheOK
    <3>3. UNCHANGED <<task, keys>>
      BY <2>2 DEF Swap, CacheStep
    <3> QED BY <3>1, <3>2, <3>3 DEF Gone, AboutToStore
  <2>3. CASE ~Swap(i)
    <3>1. k \in refused[i]
      BY <1>2, <2>3 DEF Swap, RefusedInv
    <3>2. keys[k] # None /\ cache[i][k] = None /\ ~AboutToStore(i, k)
      BY <3>1 DEF RefusedInv
    <3> QED BY <1>1, <2>1, <2>3, <3>2, CacheGrows, NotToStore DEF KeysStay
  <2> QED BY <2>2, <2>3
<1> QED BY <1>3, <1>4 DEF RefusedInv

\* A key found gone by a reload is not in the cache until the next, whatever the
\* handlers store back and whichever evictions are lost (RefusedOnceReloaded of the
\* run Keys).
THEOREM RefusalsStand == Spec => []RefusedOnceReloaded
<1>1. KeyTypes /\ RefusedInv /\ [Next]_vars => KeyTypes' /\ RefusedInv'
  BY TypesStep, RefusedStep
<1>2. KeyTypes /\ RefusedInv => RefusedOnceReloaded
  BY DEF RefusedInv, RefusedOnceReloaded
<1> QED BY TypesStart, RefusedStart, <1>1, <1>2, PTL DEF Spec

-----------------------------------------------------------------------------
(* Logins.  The guesses of an account are bounded because an account that  *)
(* is not locked has had fewer failures than the threshold, and every      *)
(* wrong password is counted as a failure or about to be; those that are   *)
(* being compared were let in by then, one for each client at most.  An    *)
(* eviction begins the count anew, and so this holds even when upset.      *)

Attempts == [pc : {"ip", "account", "compare", "wrong", "session"}, now : Nat,
             account : Accounts, right : BOOLEAN]
Failures == [failures : Nat, until : Nat, last : Nat]
Windows  == [window : Nat, count : Nat]
Addresses == {Ip[w] : w \in Clients}

ClientsOK ==
    /\ minute \in 1..MaxMinute /\ upset \in BOOLEAN
    /\ login \in [Clients -> {NoLogin} \cup Attempts]
AccountsOK ==
    /\ accounts \in [Accounts -> Failures \cup {NoEntry}]
    /\ guesses \in [Accounts -> Nat]
AddressesOK ==
    /\ ips \in [Addresses -> Windows \cup {NoEntry}]
    /\ passed \in [Addresses -> [1..MaxMinute -> Nat]]
LoginTypes == ClientsOK /\ AccountsOK /\ AddressesOK

Who(pc, a) == {w \in Clients : Does(w, pc) /\ The(w) = a}

GuessesCounted(a) ==
    /\ Entry(a).until = 0 =>
          /\ Entry(a).failures < Threshold
          /\ guesses[a] <= Entry(a).failures + Cardinality(Who("wrong", a))
    /\ guesses[a] + Cardinality(Who("compare", a)) <= Threshold - 1 + Cardinality(Clients)

\* Unless upset, what an address has got through in this minute is in its count.
PassesCounted ==
    /\ \A w \in Clients : Does(w, "ip") => login[w].now = minute
    /\ \A i \in Addresses :
          /\ ips[i] # NoEntry => ips[i].window <= minute
          /\ passed[i][minute] <= IF ips[i] # NoEntry /\ ips[i].window = minute THEN ips[i].count ELSE 0
          /\ \A m \in 1..MaxMinute : /\ passed[i][m] <= PerMinute
                                     /\ m > minute => passed[i][m] = 0

LoginInv ==
    /\ LoginTypes
    /\ \A a \in Accounts : GuessesCounted(a)
    /\ upset \/ PassesCounted
-----------------------------------------------------------------------------
\* A client that moves on takes its account and the minute it has read along.
LEMMA Going ==
  ASSUME ClientsOK, NEW w \in Clients, ~Does(w, "idle"),
         NEW pc \in {"account", "compare", "wrong", "session"}, Goto(w, pc)
  PROVE  \E t \in Attempts : /\ login' = [login EXCEPT ![w] = t]
                             /\ t.pc = pc /\ t.account = The(w) /\ t.now = login[w].now
<1>1. login[w] \in Attempts /\ login' = [login EXCEPT ![w] = [login[w] EXCEPT !.pc = pc]]
  BY DEF ClientsOK, Does, NoLogin, Goto
<1>2. [login[w] EXCEPT !.pc = pc] \in Attempts
  BY <1>1 DEF Attempts
<1>3. [login[w] EXCEPT !.pc = pc].pc = pc /\ [login[w] EXCEPT !.pc = pc].account = The(w)
      /\ [login[w] EXCEPT !.pc = pc].now = login[w].now
  BY <1>1 DEF Attempts, The
<1> QED BY <1>1, <1>2, <1>3

\* What each step of a client makes of its own state.
Moves(w, t) == login' = [login EXCEPT ![w] = t]
Stays(w, t, pc) == t.pc = pc /\ t.account = The(w) /\ t.now = login[w].now

LEMMA ClientMoves ==
  ASSUME ClientsOK, NEW w \in Clients
  PROVE  /\ Attempt(w) => \E t \in Attempts : Moves(w, t) /\ t.pc = "ip" /\ t.now = minute
         /\ CountAttempt(w) => \/ Moves(w, NoLogin)
                               \/ \E t \in Attempts : Moves(w, t) /\ Stays(w, t, "account")
         /\ CheckAccount(w) => \/ Moves(w, NoLogin)
                               \/ \E t \in Attempts : Moves(w, t) /\ Stays(w, t, "compare")
         /\ Compare(w) => \E t \in Attempts : Moves(w, t) /\
                              Stays(w, t, IF login[w].right THEN "session" ELSE "wrong")
         /\ RecordFailure(w) \/ RecordSuccess(w) \/ NoSession(w) => Moves(w, NoLogin)
<1>1. ASSUME Attempt(w) PROVE \E t \in Attempts : Moves(w, t) /\ t.pc = "ip" /\ t.now = minute
  <2>1. PICK a \in Accounts, right \in BOOLEAN :
           login' = [login EXCEPT ![w] = [pc |-> "ip", now |-> minute, account |-> a, right |-> right]]
    BY <1>1 DEF Attempt
  <2>2. [pc |-> "ip", now |-> minute, account |-> a, right |-> right] \in Attempts
    BY DEF ClientsOK, Attempts
  <2> QED BY <2>1, <2>2 DEF Moves
<1>2. ASSUME CountAttempt(w)
      PROVE  \/ Moves(w, NoLogin)
             \/ \E t \in Attempts : Moves(w, t) /\ Stays(w, t, "account")
  <2>1. Leave(w) \/ (Goto(w, "account") /\ ~Does(w, "idle"))
    BY <1>2 DEF CountAttempt, Does
  <2> QED BY <2>1, Going DEF Leave, Moves, Stays
<1>3. ASSUME CheckAccount(w)
      PROVE  \/ Moves(w, NoLogin)
             \/ \E t \in Attempts : Moves(w, t) /\ Stays(w, t, "compare")
  <2>1. Leave(w) \/ (Goto(w, "compare") /\ ~Does(w, "idle"))
    BY <1>3 DEF CheckAccount, Does
  <2> QED BY <2>1, Going DEF Leave, Moves, Stays
<1>4. ASSUME Compare(w)
      PROVE  \E t \in Attempts : Moves(w, t) /\ Stays(w, t, IF login[w].right THEN "session" ELSE "wrong")
  <2>1. Goto(w, IF login[w].right THEN "session" ELSE "wrong") /\ ~Does(w, "idle")
    BY <1>4 DEF Compare, Does
  <2> QED BY <2>1, Going DEF Moves, Stays
<1>5. RecordFailure(w) \/ RecordSuccess(w) \/ NoSession(w) => Moves(w, NoLogin)
  BY DEF RecordFailure, RecordSuccess, NoSession, Leave, Moves
<1> QED BY <1>1, <1>2, <1>3, <1>4, <1>5

\* The entry of an account is a record of failures, in the map or a new one.
LEMMA EntryOK ==
  ASSUME AccountsOK, NEW a \in Accounts
  PROVE  /\ Entry(a) \in Failures
         /\ Entry(a) = [failures |-> Entry(a).failures, until |-> Entry(a).until, last |-> Entry(a).last]
         /\ Entry(a).failures \in Nat /\ Entry(a).until \in Nat /\ Entry(a).last \in Nat
<1>1. Entry(a) \in Failures
  BY DEF AccountsOK, Entry, NewAccount, Failures
<1> QED BY <1>1 DEF Failures

LEMMA EntryWritten ==
  ASSUME ThrottleAssumption, AccountsOK, NEW a \in Accounts, NEW f \in Failures,
         accounts' = [accounts EXCEPT ![a] = f]
  PROVE  Entry(a)' = f
<1>1. accounts'[a] = f /\ f # NoEntry
  BY DEF AccountsOK, ThrottleAssumption, Failures
<1> QED BY <1>1 DEF Entry

\* A table of numbers stays one when a number is counted up.
LEMMA CountUp ==
  ASSUME NEW S, NEW f \in [S -> Nat], NEW x
  PROVE  [f EXCEPT ![x] = @ + 1] \in [S -> Nat]
<1>1. CASE x \in S
  <2>1. f[x] + 1 \in Nat
    BY <1>1
  <2> QED BY <2>1
<1>2. CASE x \notin S
  <2>1. [f EXCEPT ![x] = @ + 1] = f
    BY <1>2
  <2> QED BY <2>1
<1> QED BY <1>1, <1>2

\* The types of what a client's steps write.
LEMMA ClientTypes ==
  ASSUME ThrottleAssumption, LoginTypes, NEW w \in Clients,
         \/ Attempt(w) \/ CountAttempt(w) \/ CheckAccount(w) \/ Compare(w)
         \/ RecordFailure(w) \/ RecordSuccess(w) \/ NoSession(w)
  PROVE  LoginTypes'
<1> USE DEF LoginTypes
<1>1. minute' = minute /\ upset' = upset
  BY DEF Attempt, CountAttempt, CheckAccount, Compare, RecordFailure, RecordSuccess, NoSession
<1>2. \E t \in {NoLogin} \cup Attempts : Moves(w, t)
  BY ClientMoves
<1>3. ClientsOK'
  BY <1>1, <1>2 DEF ClientsOK, Moves
<1>4. Does(w, "idle") \/ (The(w) \in Accounts /\ login[w].now \in Nat)
  BY DEF ClientsOK, Attempts, The, Does, NoLogin
<1>5. AccountsOK'
  <2>1. CASE Attempt(w) \/ CountAttempt(w) \/ NoSession(w)
    BY <2>1 DEF AccountsOK, Attempt, CountAttempt, NoSession
  <2>2. CASE CheckAccount(w)
    <3>1. The(w) \in Accounts /\ Entry(The(w)) \in Failures
      BY <2>2, <1>4, EntryOK DEF CheckAccount, Does
    <3>2. [Entry(The(w)) EXCEPT !.until = 0, !.failures = 0] \in Failures
      BY <3>1 DEF Failures
    <3> QED BY <2>2, <3>1, <3>2 DEF CheckAccount, AccountsOK
  <2>3. CASE Compare(w)
    BY <2>3, <1>4 DEF Compare, Does, AccountsOK
  <2>4. CASE RecordFailure(w)
    <3>1. The(w) \in Accounts /\ Entry(The(w)).failures \in Nat /\ Entry(The(w)).until \in Nat
      BY <2>4, <1>4, EntryOK DEF RecordFailure, Does
    <3> DEFINE e == [failures |-> Entry(The(w)).failures + 1, last |-> minute,
                     until |-> IF Entry(The(w)).failures + 1 >= Threshold
                               THEN minute + Lockout ELSE Entry(The(w)).until]
    <3>2. e \in Failures
      BY <3>1 DEF Failures, ClientsOK, ThrottleAssumption
    <3>3. accounts' = [accounts EXCEPT ![The(w)] = e] /\ guesses' = guesses
      BY <2>4 DEF RecordFailure
    <3> HIDE DEF e
    <3> QED BY <3>1, <3>2, <3>3 DEF AccountsOK
  <2>5. CASE RecordSuccess(w)
    <3>1. The(w) \in Accounts /\ Entry(The(w)) \in Failures
      BY <2>5, <1>4, EntryOK DEF RecordSuccess, Does
    <3>2. [Entry(The(w)) EXCEPT !.failures = 0, !.until = 0] \in Failures
      BY <3>1 DEF Failures
    <3> QED BY <2>5, <3>1, <3>2 DEF RecordSuccess, AccountsOK
  <2> QED BY <2>1, <2>2, <2>3, <2>4, <2>5
<1>6. AddressesOK'
  <2>1. CASE CountAttempt(w)
    <3> DEFINE e == ips[Ip[w]]
               n == IF e = NoEntry \/ e.window # login[w].now THEN 1 ELSE e.count + 1
    <3>1. Ip[w] \in Addresses /\ login[w].now \in Nat
      BY <2>1, <1>4 DEF CountAttempt, Does, Addresses
    <3>2. n \in Nat
      BY <3>1 DEF AddressesOK, Windows
    <3>3. ips' = [ips EXCEPT ![Ip[w]] = [window |-> login[w].now, count |-> n]]
      BY <2>1 DEF CountAttempt
    <3> HIDE DEF n
    <3>4. [window |-> login[w].now, count |-> n] \in Windows
      BY <3>1, <3>2 DEF Windows
    <3>5. ips' \in [Addresses -> Windows \cup {NoEntry}]
      BY <3>1, <3>3, <3>4 DEF AddressesOK
    <3>6. passed' = passed \/ passed' = [passed EXCEPT ![Ip[w]][login[w].now] = @ + 1]
      BY <2>1 DEF CountAttempt
    <3>7. passed[Ip[w]] \in [1..MaxMinute -> Nat]
      BY <3>1 DEF AddressesOK
    <3>8. [passed[Ip[w]] EXCEPT ![login[w].now] = @ + 1] \in [1..MaxMinute -> Nat]
      BY <3>7, CountUp
    <3>9. passed' \in [Addresses -> [1..MaxMinute -> Nat]]
      BY <3>1, <3>6, <3>8 DEF AddressesOK
    <3> QED BY <3>5, <3>9 DEF AddressesOK
  <2>2. CASE ~CountAttempt(w)
    BY <2>2 DEF AddressesOK, Attempt, CheckAccount, Compare, RecordFailure, RecordSuccess, NoSession
  <2> QED BY <2>1, <2>2
<1> QED BY <1>3, <1>5, <1>6

LEMMA LoginTypesStep ==
  ASSUME ThrottleAssumption, LoginTypes, [ThrottleNext]_throttleVars
  PROVE  LoginTypes'
<1> USE DEF LoginTypes
<1>1. ASSUME NEW w \in Clients,
             \/ Attempt(w) \/ CountAttempt(w) \/ CheckAccount(w) \/ Compare(w)
             \/ RecordFailure(w) \/ RecordSuccess(w) \/ NoSession(w)
      PROVE  LoginTypes'
  BY <1>1, ClientTypes
<1>2. CASE FindStale
  BY <1>2 DEF FindStale, ClientsOK, AccountsOK, AddressesOK
<1>3. CASE EvictLogin
  <2>1. ClientsOK'
    <3>1. UNCHANGED <<minute, login>> /\ upset' \in BOOLEAN
      BY <1>3 DEF EvictLogin, EvictIp, EvictAccount, ClientsOK
    <3> QED BY <3>1 DEF ClientsOK
  <2>2. CASE EvictIp
    BY <1>3, <2>1, <2>2 DEF EvictLogin, EvictIp, AccountsOK, AddressesOK
  <2>3. CASE EvictAccount
    BY <1>3, <2>1, <2>3 DEF EvictLogin, EvictAccount, AccountsOK, AddressesOK
  <2> QED BY <1>3, <2>2, <2>3 DEF EvictLogin
<1>4. CASE NextMinute
  BY <1>4 DEF NextMinute, ClientsOK, AccountsOK, AddressesOK, ThrottleAssumption
<1>5. CASE UNCHANGED throttleVars
  BY <1>5 DEF throttleVars, ClientsOK, AccountsOK, AddressesOK
<1> QED BY <1>1, <1>2, <1>3, <1>4, <1>5 DEF ThrottleNext

-----------------------------------------------------------------------------
(* The wrong passwords of an account.                                      *)

\* There are no more clients with an account than there are clients, and those
\* that compare are others than those that have failed.
LEMMA WhoCounted ==
  ASSUME ThrottleAssumption, NEW a
  PROVE  /\ IsFiniteSet(Who("wrong", a)) /\ IsFiniteSet(Who("compare", a))
         /\ Cardinality(Who("wrong", a)) \in Nat /\ Cardinality(Who("compare", a)) \in Nat
         /\ Cardinality(Clients) \in Nat
         /\ Cardinality(Who("wrong", a)) + Cardinality(Who("compare", a)) <= Cardinality(Clients)
         /\ \A w \in Clients \ (Who("wrong", a) \cup Who("compare", a)) :
               Cardinality(Who("wrong", a)) + Cardinality(Who("compare", a)) < Cardinality(Clients)
<1>1. Who("wrong", a) \subseteq Clients /\ Who("compare", a) \subseteq Clients
  BY DEF Who
<1>2. IsFiniteSet(Clients)
  BY DEF ThrottleAssumption
<1>3. IsFiniteSet(Who("wrong", a)) /\ IsFiniteSet(Who("compare", a))
  BY <1>1, <1>2, FS_Subset
<1>4. /\ Cardinality(Who("wrong", a)) \in Nat /\ Cardinality(Who("compare", a)) \in Nat
      /\ Cardinality(Clients) \in Nat
  BY <1>2, <1>3, FS_CardinalityType
<1>5. Who("wrong", a) \cap Who("compare", a) = {}
  BY DEF Who, Does
<1>6. Cardinality(Who("wrong", a) \cup Who("compare", a))
         = Cardinality(Who("wrong", a)) + Cardinality(Who("compare", a))
  <2>1. Cardinality(Who("wrong", a) \cup Who("compare", a))
           = Cardinality(Who("wrong", a)) + Cardinality(Who("compare", a))
             - Cardinality(Who("wrong", a) \cap Who("compare", a))
    BY <1>3, FS_Union
  <2>2. Cardinality(Who("wrong", a) \cap Who("compare", a)) = 0
    BY <1>5, FS_EmptySet
  <2> QED BY <1>4, <2>1, <2>2
<1>7. Cardinality(Who("wrong", a) \cup Who("compare", a)) <= Cardinality(Clients)
  BY <1>1, <1>2, FS_Subset
<1>8. ASSUME NEW w \in Clients \ (Who("wrong", a) \cup Who("compare", a))
      PROVE  Cardinality(Who("wrong", a) \cup Who("compare", a)) < Cardinality(Clients)
  <2>1. Who("wrong", a) \cup Who("compare", a) \subseteq Clients /\ Who("wrong", a) \cup Who("compare", a) # Clients
    BY <1>1, <1>8
  <2>2. /\ IsFiniteSet(Who("wrong", a) \cup Who("compare", a))
        /\ Cardinality(Who("wrong", a) \cup Who("compare", a)) <= Cardinality(Clients)
        /\ Cardinality(Clients) # Cardinality(Who("wrong", a) \cup Who("compare", a))
    BY <1>2, <2>1, FS_Subset
  <2>3. Cardinality(Who("wrong", a) \cup Who("compare", a)) \in Nat
    BY <2>2, FS_CardinalityType
  <2> QED BY <1>4, <2>2, <2>3
<1> QED BY <1>3, <1>4, <1>6, <1>7, <1>8

\* A client that moves joins the ones that are where it goes, and leaves the others.
LEMMA WhoMoves ==
  ASSUME ThrottleAssumption, ClientsOK, NEW w \in Clients,
         NEW t \in {NoLogin} \cup Attempts, Moves(w, t),
         NEW pc \in {"wrong", "compare"}, NEW a
  PROVE  LET here == t.pc = pc /\ t.account = a IN
         /\ (w \in Who(pc, a)) /\ ~here => Cardinality(Who(pc, a)') = Cardinality(Who(pc, a)) - 1
         /\ w \notin Who(pc, a) /\ here => Cardinality(Who(pc, a)') = Cardinality(Who(pc, a)) + 1
         /\ (w \in Who(pc, a) <=> here) => Cardinality(Who(pc, a)') = Cardinality(Who(pc, a))
<1> DEFINE here == t.pc = pc /\ t.account = a
<1>1. IsFiniteSet(Who(pc, a)) /\ Cardinality(Who(pc, a)) \in Nat
  BY WhoCounted
<1>2. \A x \in Clients : login'[x] = IF x = w THEN t ELSE login[x]
  BY DEF Moves, ClientsOK
<1>3. here => Who(pc, a)' = Who(pc, a) \cup {w}
  BY <1>2 DEF Who, Does, The
<1>4. ~here => Who(pc, a)' = Who(pc, a) \ {w}
  BY <1>2 DEF Who, Does, The
<1>5. CASE w \in Who(pc, a) /\ ~here
  BY <1>1, <1>4, <1>5, FS_RemoveElement
<1>6. CASE w \notin Who(pc, a) /\ here
  BY <1>1, <1>3, <1>6, FS_AddElement
<1>7. CASE w \in Who(pc, a) <=> here
  <2>1. Who(pc, a)' = Who(pc, a)
    BY <1>3, <1>4, <1>7
  <2> QED BY <2>1, <1>7
<1> QED BY <1>5, <1>6, <1>7

\* A step of a client that neither fails nor compares an account, before or after it.
LEMMA ElsewhereCounted ==
  ASSUME ThrottleAssumption, ClientsOK, NEW w \in Clients,
         NEW t \in {NoLogin} \cup Attempts, Moves(w, t), NEW a \in Accounts,
         GuessesCounted(a), UNCHANGED <<accounts[a], guesses[a]>>,
         \A pc \in {"wrong", "compare"} : /\ w \notin Who(pc, a)
                                          /\ ~(t.pc = pc /\ t.account = a)
  PROVE  GuessesCounted(a)'
<1>1. \A pc \in {"wrong", "compare"} : Cardinality(Who(pc, a)') = Cardinality(Who(pc, a))
  BY WhoMoves
<1>2. Entry(a)' = Entry(a) /\ guesses'[a] = guesses[a]
  BY DEF Entry, NewAccount
<1> QED BY <1>1, <1>2 DEF GuessesCounted

\* Whoever is let in, compares, fails or succeeds: the account's guesses are counted.
LEMMA GuessesClient ==
  ASSUME ThrottleAssumption, LoginTypes, NEW w \in Clients, NEW a \in Accounts, GuessesCounted(a),
         \/ Attempt(w) \/ CountAttempt(w) \/ CheckAccount(w) \/ Compare(w)
         \/ RecordFailure(w) \/ RecordSuccess(w) \/ NoSession(w)
  PROVE  GuessesCounted(a)'
<1> USE DEF LoginTypes
<1> DEFINE W == Cardinality(Who("wrong", a))
           C == Cardinality(Who("compare", a))
           N == Cardinality(Clients)
<1>1. W \in Nat /\ C \in Nat /\ N \in Nat /\ W + C <= N
  BY WhoCounted
<1>2. guesses[a] \in Nat /\ Entry(a) \in Failures /\ Entry(a).failures \in Nat
      /\ Entry(a).until \in Nat
  BY EntryOK DEF AccountsOK
<1>3. Threshold \in Nat \ {0} /\ Lockout \in Nat /\ minute \in Nat \ {0}
  BY DEF ThrottleAssumption, ClientsOK
<1>4. /\ Entry(a).until = 0 => Entry(a).failures < Threshold /\ guesses[a] <= Entry(a).failures + W
      /\ guesses[a] + C <= Threshold - 1 + N
  BY DEF GuessesCounted
<1>5. \A pc \in {"wrong", "compare"} : w \in Who(pc, a) <=> Does(w, pc) /\ The(w) = a
  BY DEF Who
<1>6. w \notin Who("wrong", a) /\ w \notin Who("compare", a) => W + C < N
  BY WhoCounted
<1>7. Does(w, "idle") \/ (The(w) \in Accounts /\ login[w].now \in Nat)
  BY DEF ClientsOK, Attempts, The, Does, NoLogin
\* What the step must leave behind, in numbers.
<1>8. ASSUME NEW e \in Failures, NEW g \in Nat, NEW Wn \in Nat, NEW Cn \in Nat,
             Entry(a)' = e, guesses'[a] = g,
             Cardinality(Who("wrong", a)') = Wn, Cardinality(Who("compare", a)') = Cn,
             e.until = 0 => e.failures < Threshold /\ g <= e.failures + Wn,
             g + Cn <= Threshold - 1 + N
      PROVE  GuessesCounted(a)'
  BY <1>8 DEF GuessesCounted
<1>9. CASE Attempt(w)
  <2>1. PICK t \in Attempts : Moves(w, t) /\ t.pc = "ip"
    BY <1>9, ClientMoves
  <2>2. w \notin Who("wrong", a) /\ w \notin Who("compare", a) /\ UNCHANGED <<accounts[a], guesses[a]>>
    BY <1>5, <1>9 DEF Attempt, Does
  <2> QED BY <2>1, <2>2, ElsewhereCounted
<1>10. CASE CountAttempt(w)
  <2>1. PICK t \in {NoLogin} \cup Attempts : Moves(w, t) /\ t.pc \in {"idle", "account"}
    BY <1>10, ClientMoves DEF Stays, NoLogin
  <2>2. w \notin Who("wrong", a) /\ w \notin Who("compare", a) /\ UNCHANGED <<accounts[a], guesses[a]>>
    BY <1>5, <1>10 DEF CountAttempt, Does
  <2> QED BY <2>1, <2>2, ElsewhereCounted
<1>11. CASE NoSession(w)
  <2>1. Moves(w, NoLogin)
    BY <1>11, ClientMoves
  <2>2. w \notin Who("wrong", a) /\ w \notin Who("compare", a) /\ UNCHANGED <<accounts[a], guesses[a]>>
    BY <1>5, <1>11 DEF NoSession, Does
  <2> QED BY <2>1, <2>2, ElsewhereCounted DEF NoLogin
<1>12. CASE CheckAccount(w)
  <2> DEFINE o == The(w)
             locked == Entry(o).until # 0 /\ login[w].now < Entry(o).until
             over == Entry(o).until # 0 /\ ~locked
             f == IF over THEN [Entry(o) EXCEPT !.until = 0, !.failures = 0] ELSE Entry(o)
  <2>1. o \in Accounts /\ Does(w, "account")
    BY <1>7, <1>12 DEF CheckAccount, Does
  <2>2. w \notin Who("wrong", a) /\ w \notin Who("compare", a)
    BY <1>5, <2>1 DEF Does
  <2>3. /\ accounts' = [accounts EXCEPT ![o] = f]
        /\ guesses' = [guesses EXCEPT ![o] = IF over THEN 0 ELSE @]
    BY <1>12 DEF CheckAccount
  <2>4. PICK t \in {NoLogin} \cup Attempts :
           Moves(w, t) /\ (t.pc = "idle" \/ (t.pc = "compare" /\ t.account = o /\ ~locked))
    <3>1. CASE Leave(w)
      <4>1. Moves(w, NoLogin) /\ NoLogin.pc = "idle"
        BY <3>1 DEF Leave, Moves, NoLogin
      <4> QED BY <4>1
    <3>2. CASE ~locked /\ Goto(w, "compare")
      BY <2>1, <3>2, Going DEF Moves, Does
    <3> QED BY <1>12, <3>1, <3>2 DEF CheckAccount
  <2>5. CASE a # o
    <3>1. UNCHANGED <<accounts[a], guesses[a]>>
      BY <2>1, <2>3, <2>5 DEF AccountsOK
    <3> QED BY <2>2, <2>4, <2>5, <3>1, ElsewhereCounted
  <2>6. CASE a = o
    <3>1. f \in Failures /\ (over => f.until = 0 /\ f.failures = 0) /\ (~over => f = Entry(a))
      BY <1>2, <2>6 DEF Failures
    <3>2. Entry(a)' = f
      BY <2>1, <2>3, <2>6, <3>1, EntryWritten
    <3>3. guesses'[a] = IF over THEN 0 ELSE guesses[a]
      BY <2>1, <2>3, <2>6 DEF AccountsOK
    <3>4. Cardinality(Who("wrong", a)') = W
      BY <2>2, <2>4, WhoMoves
    <3>5. Cardinality(Who("compare", a)') = IF t.pc = "compare" THEN C + 1 ELSE C
      BY <2>2, <2>4, <2>6, WhoMoves
    <3>6. t.pc = "compare" => over \/ Entry(a).until = 0
      BY <2>4, <2>6
    <3> HIDE DEF f, over, W, C, N
    <3>7. C + 1 <= Threshold - 1 + N /\ (Entry(a).until = 0 => guesses[a] + C + 1 <= Threshold - 1 + N)
      BY <1>1, <1>2, <1>3, <1>4, <1>6, <2>2
    <3> DEFINE g == IF over THEN 0 ELSE guesses[a]
               Cn == IF t.pc = "compare" THEN C + 1 ELSE C
    <3>8. g \in Nat /\ Cn \in Nat
      BY <1>1, <1>2
    <3>9. f.until = 0 => f.failures < Threshold /\ g <= f.failures + W
      BY <1>1, <1>2, <1>3, <1>4, <3>1
    <3>10. g + Cn <= Threshold - 1 + N
      BY <1>1, <1>2, <1>3, <1>4, <3>6, <3>7
    <3> HIDE DEF g, Cn
    <3> QED BY <1>1, <1>8, <3>1, <3>2, <3>3, <3>4, <3>5, <3>8, <3>9, <3>10 DEF g, Cn, W, N
  <2> QED BY <2>5, <2>6
<1>13. CASE Compare(w)
  <2> DEFINE o == The(w)
             to == IF login[w].right THEN "session" ELSE "wrong"
  <2>1. o \in Accounts /\ Does(w, "compare")
    BY <1>7, <1>13 DEF Compare, Does
  <2>2. /\ accounts' = accounts
        /\ guesses' = [guesses EXCEPT ![o] = IF login[w].right THEN @ ELSE @ + 1]
    BY <1>13 DEF Compare
  <2>3. PICK t \in Attempts : Moves(w, t) /\ t.pc = to /\ t.account = o
    BY <1>13, ClientMoves DEF Stays
  <2>4. CASE a # o
    <3>1. UNCHANGED <<accounts[a], guesses[a]>> /\ w \notin Who("wrong", a) /\ w \notin Who("compare", a)
      BY <1>5, <2>1, <2>2, <2>4 DEF AccountsOK
    <3> QED BY <2>3, <2>4, <3>1, ElsewhereCounted
  <2>5. CASE a = o
    <3>1. w \in Who("compare", a) /\ w \notin Who("wrong", a)
      BY <1>5, <2>1, <2>5 DEF Does
    <3>2. Cardinality(Who("compare", a)') = C - 1
      BY <2>3, <3>1, WhoMoves
    <3>3. Cardinality(Who("wrong", a)') = IF login[w].right THEN W ELSE W + 1
      BY <2>3, <2>5, <3>1, WhoMoves
    <3>4. Entry(a)' = Entry(a) /\ guesses'[a] = IF login[w].right THEN guesses[a] ELSE guesses[a] + 1
      BY <2>1, <2>2, <2>5 DEF Entry, NewAccount, AccountsOK
    <3>5. C # 0
      BY <3>1, WhoCounted, FS_EmptySet
    <3> HIDE DEF W, C, N
    <3>6. C - 1 \in Nat
      BY <1>1, <3>5
    <3> DEFINE g == IF login[w].right THEN guesses[a] ELSE guesses[a] + 1
               Wn == IF login[w].right THEN W ELSE W + 1
    <3>7. g \in Nat /\ Wn \in Nat
      BY <1>1, <1>2
    <3>8. Entry(a).until = 0 => Entry(a).failures < Threshold /\ g <= Entry(a).failures + Wn
      BY <1>1, <1>2, <1>4
    <3>9. g + (C - 1) <= Threshold - 1 + N
      BY <1>1, <1>2, <1>3, <1>4, <3>6
    <3> HIDE DEF g, Wn
    <3> QED BY <1>2, <1>8, <3>2, <3>3, <3>4, <3>6, <3>7, <3>8, <3>9 DEF g, Wn, N
  <2> QED BY <2>4, <2>5
<1>14. CASE RecordFailure(w)
  <2> DEFINE o == The(w)
             n == Entry(o).failures + 1
             f == [failures |-> n, last |-> minute,
                   until |-> IF n >= Threshold THEN minute + Lockout ELSE Entry(o).until]
  <2>1. o \in Accounts /\ Does(w, "wrong")
    BY <1>7, <1>14 DEF RecordFailure, Does
  <2>2. accounts' = [accounts EXCEPT ![o] = f] /\ guesses' = guesses
    BY <1>14 DEF RecordFailure
  <2>3. Moves(w, NoLogin) /\ NoLogin.pc = "idle"
    BY <1>14, ClientMoves DEF NoLogin
  <2>4. CASE a # o
    <3>1. UNCHANGED <<accounts[a], guesses[a]>> /\ w \notin Who("wrong", a) /\ w \notin Who("compare", a)
      BY <1>5, <2>1, <2>2, <2>4 DEF AccountsOK
    <3> QED BY <2>3, <3>1, ElsewhereCounted
  <2>5. CASE a = o
    <3>1. w \in Who("wrong", a) /\ w \notin Who("compare", a)
      BY <1>5, <2>1, <2>5 DEF Does
    <3>2. Cardinality(Who("wrong", a)') = W - 1 /\ Cardinality(Who("compare", a)') = C
      BY <2>3, <3>1, WhoMoves
    <3>3. W # 0
      BY <3>1, WhoCounted, FS_EmptySet
    <3>4. f \in Failures
      BY <1>2, <1>3, <2>5 DEF Failures
    <3>5. Entry(a)' = f
      BY <2>1, <2>2, <2>5, <3>4, EntryWritten
    <3>6. guesses'[a] = guesses[a]
      BY <2>2
    <3> HIDE DEF W, C, N
    <3>7. W - 1 \in Nat
      BY <1>1, <3>3
    <3>8. f.until = 0 => f.failures < Threshold /\ guesses[a] <= f.failures + (W - 1)
      BY <1>1, <1>2, <1>3, <1>4, <2>5
    <3> HIDE DEF f
    <3> QED BY <1>1, <1>2, <1>4, <1>8, <3>2, <3>4, <3>5, <3>6, <3>7, <3>8 DEF N
  <2> QED BY <2>4, <2>5
<1>15. CASE RecordSuccess(w)
  <2> DEFINE o == The(w)
             f == [Entry(o) EXCEPT !.failures = 0, !.until = 0]
  <2>1. o \in Accounts /\ Does(w, "session")
    BY <1>7, <1>15 DEF RecordSuccess, Does
  <2>2. accounts' = [accounts EXCEPT ![o] = f] /\ guesses' = [guesses EXCEPT ![o] = 0]
    BY <1>15 DEF RecordSuccess
  <2>3. Moves(w, NoLogin) /\ NoLogin.pc = "idle"
    BY <1>15, ClientMoves DEF NoLogin
  <2>4. w \notin Who("wrong", a) /\ w \notin Who("compare", a)
    BY <1>5, <2>1 DEF Does
  <2>5. CASE a # o
    <3>1. UNCHANGED <<accounts[a], guesses[a]>>
      BY <2>1, <2>2, <2>5 DEF AccountsOK
    <3> QED BY <2>3, <2>4, <3>1, ElsewhereCounted
  <2>6. CASE a = o
    <3>1. Cardinality(Who("wrong", a)') = W /\ Cardinality(Who("compare", a)') = C
      BY <2>3, <2>4, WhoMoves
    <3>2. f \in Failures /\ f.until = 0 /\ f.failures = 0
      BY <1>2, <2>6 DEF Failures
    <3>3. Entry(a)' = f /\ guesses'[a] = 0
      <4>1. Entry(a)' = f
        BY <2>1, <2>2, <2>6, <3>2, EntryWritten
      <4>2. guesses'[a] = 0
        BY <2>1, <2>2, <2>6 DEF AccountsOK
      <4> QED BY <4>1, <4>2
    <3> HIDE DEF W, C, N, f
    <3>4. 0 + C <= Threshold - 1 + N
      BY <1>1, <1>3
    <3> QED BY <1>1, <1>3, <1>8, <3>1, <3>2, <3>3, <3>4 DEF N
  <2> QED BY <2>5, <2>6
<1> QED BY <1>9, <1>10, <1>11, <1>12, <1>13, <1>14, <1>15

\* The steps that no client takes: an evicted account is as good as new.
LEMMA GuessesStep ==
  ASSUME ThrottleAssumption, LoginTypes, \A a \in Accounts : GuessesCounted(a),
         [ThrottleNext]_throttleVars
  PROVE  \A a \in Accounts : GuessesCounted(a)'
<1> SUFFICES ASSUME NEW a \in Accounts PROVE GuessesCounted(a)'
  OBVIOUS
<1>1. ASSUME NEW w \in Clients,
             \/ Attempt(w) \/ CountAttempt(w) \/ CheckAccount(w) \/ Compare(w)
             \/ RecordFailure(w) \/ RecordSuccess(w) \/ NoSession(w)
      PROVE  GuessesCounted(a)'
  BY <1>1, GuessesClient
<1>2. ASSUME UNCHANGED <<login, accounts, guesses>> PROVE GuessesCounted(a)'
  BY <1>2 DEF GuessesCounted, Who, Does, The, Entry, NewAccount
<1>3. CASE EvictLogin /\ EvictAccount
  <2>1. UNCHANGED login /\ evicting \in Accounts
        /\ accounts' = [accounts EXCEPT ![evicting] = NoEntry]
        /\ guesses' = [guesses EXCEPT ![evicting] = 0]
    BY <1>3 DEF EvictLogin, EvictAccount
  <2>2. Who("wrong", a)' = Who("wrong", a) /\ Who("compare", a)' = Who("compare", a)
    BY <2>1 DEF Who, Does, The
  <2>3. CASE a = evicting
    <3>1. Entry(a)' = NewAccount /\ guesses'[a] = 0
      BY <2>1, <2>3 DEF Entry, NewAccount, LoginTypes, AccountsOK
    <3>2. NewAccount.until = 0 /\ NewAccount.failures = 0
      BY DEF NewAccount
    <3>3. /\ Cardinality(Who("wrong", a)) \in Nat /\ Cardinality(Who("compare", a)) \in Nat
          /\ Cardinality(Clients) \in Nat
          /\ Cardinality(Who("compare", a)) <= Cardinality(Clients)
      BY WhoCounted
    <3>4. Threshold \in Nat \ {0}
      BY DEF ThrottleAssumption
    <3>5. 0 + Cardinality(Who("compare", a)) <= Threshold - 1 + Cardinality(Clients)
      BY <3>3, <3>4
    <3> QED BY <2>2, <3>1, <3>2, <3>3, <3>4, <3>5 DEF GuessesCounted
  <2>4. CASE a # evicting
    <3>1. Entry(a)' = Entry(a) /\ guesses'[a] = guesses[a]
      BY <2>1, <2>4 DEF Entry, NewAccount, LoginTypes, AccountsOK
    <3> QED BY <2>2, <3>1 DEF GuessesCounted
  <2> QED BY <2>3, <2>4
<1>4. CASE EvictLogin /\ EvictIp
  BY <1>2, <1>4 DEF EvictLogin, EvictIp
<1>5. CASE FindStale \/ NextMinute \/ UNCHANGED throttleVars
  BY <1>2, <1>5 DEF FindStale, NextMinute, throttleVars
<1> QED BY <1>1, <1>3, <1>4, <1>5 DEF ThrottleNext, EvictLogin
-----------------------------------------------------------------------------
(* The attempts of an address.                                             *)

\* An attempt that gets through is in the count of its minute.
LEMMA PassesClient ==
  ASSUME ThrottleAssumption, LoginTypes, PassesCounted, NEW w \in Clients,
         \/ Attempt(w) \/ CountAttempt(w) \/ CheckAccount(w) \/ Compare(w)
         \/ RecordFailure(w) \/ RecordSuccess(w) \/ NoSession(w)
  PROVE  PassesCounted'
<1> USE DEF LoginTypes
<1>1. UNCHANGED minute /\ minute \in 1..MaxMinute
  BY DEF Attempt, CountAttempt, CheckAccount, Compare, RecordFailure, RecordSuccess, NoSession, ClientsOK
<1>2. \A x \in Clients : Does(x, "ip")' => login'[x].now = minute
  <2>1. PICK t \in {NoLogin} \cup Attempts : Moves(w, t) /\ (t.pc = "ip" => t.now = minute)
    BY ClientMoves DEF Stays, NoLogin
  <2>2. \A x \in Clients : login'[x] = IF x = w THEN t ELSE login[x]
    BY <2>1 DEF Moves, ClientsOK
  <2> QED BY <2>1, <2>2 DEF Does, PassesCounted
<1>3. CASE UNCHANGED <<ips, passed>>
  BY <1>1, <1>2, <1>3 DEF PassesCounted
<1>4. CASE CountAttempt(w)
  <2> DEFINE i == Ip[w]
             e == ips[i]
             n == IF e = NoEntry \/ e.window # minute THEN 1 ELSE e.count + 1
             f == [window |-> minute, count |-> n]
  <2>1. i \in Addresses /\ login[w].now = minute
    BY <1>4 DEF CountAttempt, PassesCounted, Addresses
  <2>2. ips' = [ips EXCEPT ![i] = f]
    BY <1>4, <2>1 DEF CountAttempt
  <2>3. \/ n > PerMinute /\ passed' = passed
        \/ ~(n > PerMinute) /\ passed' = [passed EXCEPT ![i][minute] = @ + 1]
    BY <1>4, <2>1 DEF CountAttempt
  <2>4. n \in Nat /\ PerMinute \in Nat /\ minute \in Nat
    BY <1>1, <2>1 DEF AddressesOK, Windows, ThrottleAssumption
  <2>5. passed[i] \in [1..MaxMinute -> Nat] /\ passed[i][minute] \in Nat
    BY <1>1, <2>1 DEF AddressesOK
  <2>6. passed[i][minute] <= n - 1
    BY <2>1, <2>4, <2>5 DEF PassesCounted, AddressesOK, Windows
  <2>7. ips'[i] = f /\ f # NoEntry /\ f.window = minute /\ f.count = n
    <3> HIDE DEF n
    <3> QED BY <2>1, <2>2, <2>4 DEF AddressesOK, ThrottleAssumption
  <2>8. \A j \in Addresses : j # i => ips'[j] = ips[j] /\ passed'[j] = passed[j]
    BY <2>1, <2>2, <2>3 DEF AddressesOK
  <2>9. passed'[i] = IF n > PerMinute THEN passed[i] ELSE [passed[i] EXCEPT ![minute] = @ + 1]
    BY <2>1, <2>3 DEF AddressesOK
  <2> HIDE DEF n, f, i, e
  <2>10. ASSUME NEW m \in 1..MaxMinute
         PROVE  passed'[i][m] <= PerMinute /\ (m > minute => passed'[i][m] = 0)
    <3>1. passed[i][m] <= PerMinute /\ (m > minute => passed[i][m] = 0)
      BY <2>1, <2>10 DEF PassesCounted
    <3>2. CASE m # minute
      BY <2>5, <2>9, <3>1, <3>2
    <3>3. CASE m = minute
      BY <2>4, <2>5, <2>6, <2>9, <3>1, <3>3
    <3> QED BY <3>2, <3>3
  <2>11. passed'[i][minute] <= n
    BY <1>1, <2>4, <2>5, <2>6, <2>9
  <2>12. ASSUME NEW j \in Addresses
         PROVE  /\ ips'[j] # NoEntry => ips'[j].window <= minute
                /\ passed'[j][minute] <= IF ips'[j] # NoEntry /\ ips'[j].window = minute
                                         THEN ips'[j].count ELSE 0
                /\ \A m \in 1..MaxMinute : /\ passed'[j][m] <= PerMinute
                                           /\ m > minute => passed'[j][m] = 0
    <3>1. CASE j = i
      BY <2>4, <2>7, <2>10, <2>11, <3>1
    <3>2. CASE j # i
      BY <2>8, <2>12, <3>2 DEF PassesCounted
    <3> QED BY <3>1, <3>2
  <2> QED BY <1>1, <1>2, <2>12 DEF PassesCounted
<1> QED
  BY <1>3, <1>4 DEF Attempt, CheckAccount, Compare, RecordFailure, RecordSuccess, NoSession

\* The clock and the eviction keep the counts, unless they upset them.
LEMMA PassesStep ==
  ASSUME ThrottleAssumption, LoginTypes, PassesCounted, [ThrottleNext]_throttleVars, ~upset'
  PROVE  PassesCounted'
<1> USE DEF LoginTypes
<1>1. ASSUME NEW w \in Clients,
             \/ Attempt(w) \/ CountAttempt(w) \/ CheckAccount(w) \/ Compare(w)
             \/ RecordFailure(w) \/ RecordSuccess(w) \/ NoSession(w)
      PROVE  PassesCounted'
  BY <1>1, PassesClient
<1>2. ASSUME UNCHANGED <<minute, login, ips, passed>> PROVE PassesCounted'
  BY <1>2 DEF PassesCounted, Does
<1>3. CASE EvictLogin /\ EvictIp
  <2>1. /\ UNCHANGED <<minute, login, passed>> /\ evicting \in Addresses
        /\ ips' = [ips EXCEPT ![evicting] = NoEntry] /\ ips[evicting].window # minute
    BY <1>3 DEF EvictLogin, EvictIp, AddressesOK
  <2>2. ASSUME NEW i \in Addresses
        PROVE  /\ ips'[i] # NoEntry => ips'[i].window <= minute
               /\ passed[i][minute] <= IF ips'[i] # NoEntry /\ ips'[i].window = minute
                                       THEN ips'[i].count ELSE 0
    BY <2>1, <2>2 DEF AddressesOK, PassesCounted
  <2> QED BY <2>1, <2>2 DEF PassesCounted, Does
<1>4. CASE NextMinute
  <2>1. /\ UNCHANGED <<login, ips, passed>> /\ minute' = minute + 1 /\ minute' \in 1..MaxMinute
        /\ \A w \in Clients : ~Does(w, "ip")
    BY <1>4, LoginTypesStep DEF NextMinute, ThrottleNext, ClientsOK
  <2>2. minute \in Nat
    BY DEF ClientsOK
  <2>3. ASSUME NEW i \in Addresses
        PROVE  /\ ips[i] # NoEntry => ips[i].window <= minute'
               /\ passed[i][minute'] <= IF ips[i] # NoEntry /\ ips[i].window = minute'
                                        THEN ips[i].count ELSE 0
               /\ \A m \in 1..MaxMinute : passed[i][m] <= PerMinute /\ (m > minute' => passed[i][m] = 0)
    <3>1. ips[i] # NoEntry => ips[i].window \in Nat /\ ips[i].window <= minute
      BY <2>3 DEF AddressesOK, Windows, PassesCounted
    <3>2. \A m \in 1..MaxMinute : passed[i][m] <= PerMinute /\ (m > minute => passed[i][m] = 0)
      BY <2>3 DEF PassesCounted
    <3>3. minute' > minute /\ passed[i][minute'] = 0
      <4>1. minute' > minute
        BY <2>1, <2>2
      <4>2. minute' \in 1..MaxMinute
        BY <2>1
      <4>3. \A m \in 1..MaxMinute : m > minute => passed[i][m] = 0
        BY <3>2
      <4> QED BY <4>1, <4>2, <4>3, Zenon
    <3>4. (ips[i] # NoEntry => ips[i].window <= minute') /\ ~(ips[i] # NoEntry /\ ips[i].window = minute')
      BY <2>1, <2>2, <3>1
    <3>5. \A m \in 1..MaxMinute : m > minute' => m > minute
      BY <2>1, <2>2
    <3>6. \A m \in 1..MaxMinute : passed[i][m] <= PerMinute /\ (m > minute' => passed[i][m] = 0)
      BY <3>2, <3>5
    <3> QED BY <3>3, <3>4, <3>6
  <2> QED BY <2>1, <2>3 DEF PassesCounted, Does
<1>5. CASE EvictLogin /\ EvictAccount
  BY <1>2, <1>5 DEF EvictLogin, EvictAccount
<1>6. CASE FindStale \/ UNCHANGED throttleVars
  BY <1>2, <1>6 DEF FindStale, throttleVars
<1> QED BY <1>1, <1>3, <1>4, <1>5, <1>6 DEF ThrottleNext, EvictLogin
-----------------------------------------------------------------------------
LEMMA LoginsStart == ASSUME ThrottleAssumption, ThrottleInit PROVE LoginInv
<1>1. LoginTypes
  <2>1. ClientsOK
    <3>1. minute \in 1..MaxMinute
      BY DEF ThrottleAssumption, ThrottleInit
    <3>2. login \in [Clients -> {NoLogin} \cup Attempts]
      BY DEF ThrottleInit
    <3> QED BY <3>1, <3>2 DEF ThrottleInit, ClientsOK
  <2>2. AccountsOK
    BY DEF ThrottleInit, AccountsOK
  <2>3. ips \in [Addresses -> Windows \cup {NoEntry}]
    BY DEF ThrottleInit, Addresses
  <2>4. passed = [i \in Addresses |-> [m \in 1..MaxMinute |-> 0]]
    BY DEF ThrottleInit, Addresses
  <2>5. passed \in [Addresses -> [1..MaxMinute -> Nat]]
    BY <2>4
  <2> QED BY <2>1, <2>2, <2>3, <2>5 DEF LoginTypes, AddressesOK
<1>2. ASSUME NEW a \in Accounts PROVE GuessesCounted(a)
  <2>1. Entry(a).until = 0 /\ Entry(a).failures = 0 /\ guesses[a] = 0
    BY DEF ThrottleInit, Entry, NewAccount
  <2>2. /\ Cardinality(Who("wrong", a)) \in Nat /\ Cardinality(Who("compare", a)) \in Nat
        /\ Cardinality(Clients) \in Nat
        /\ Cardinality(Who("compare", a)) <= Cardinality(Clients)
    BY WhoCounted
  <2>3. Threshold \in Nat \ {0}
    BY DEF ThrottleAssumption
  <2> QED BY <2>1, <2>2, <2>3 DEF GuessesCounted
<1>3. PassesCounted
  BY DEF ThrottleInit, ThrottleAssumption, PassesCounted, Addresses, Does, NoLogin
<1> QED BY <1>1, <1>2, <1>3 DEF LoginInv

LEMMA LoginsStep ==
  ASSUME ThrottleAssumption, LoginInv, [ThrottleNext]_throttleVars
  PROVE  LoginInv'
<1>1. LoginTypes' /\ \A a \in Accounts : GuessesCounted(a)'
  BY LoginTypesStep, GuessesStep DEF LoginInv
<1>2. upset => upset'
  BY DEF ThrottleNext, Attempt, CountAttempt, CheckAccount, Compare, RecordFailure, RecordSuccess,
         NoSession, FindStale, EvictLogin, EvictIp, EvictAccount, NextMinute, throttleVars
<1>3. upset' \/ PassesCounted'
  BY <1>2, PassesStep DEF LoginInv
<1> QED BY <1>1, <1>3 DEF LoginInv

\* For any number of clients, addresses and accounts, whatever the threshold, the
\* limit and the lockout: the guesses of an account and the attempts of an address
\* are bounded (LoginsThrottled).
THEOREM GuessesStayBounded ==
  ASSUME ThrottleAssumption
  PROVE  ThrottleSpec => []LoginsThrottled
<1>1. ThrottleInit => LoginInv
  BY LoginsStart
<1>2. LoginInv /\ [ThrottleNext]_throttleVars => LoginInv'
  BY LoginsStep
<1>3. LoginInv => LoginsThrottled
  <2> SUFFICES ASSUME LoginInv, ~upset PROVE LoginsThrottled
    BY DEF LoginsThrottled
  <2>1. ASSUME NEW a \in Accounts PROVE guesses[a] <= Threshold - 1 + Cardinality(Clients)
    <3>1. guesses[a] \in Nat /\ Cardinality(Who("compare", a)) \in Nat /\ Cardinality(Clients) \in Nat
      BY WhoCounted DEF LoginInv, LoginTypes, AccountsOK
    <3>2. guesses[a] + Cardinality(Who("compare", a)) <= Threshold - 1 + Cardinality(Clients)
      BY DEF LoginInv, GuessesCounted
    <3> QED BY <3>1, <3>2 DEF ThrottleAssumption
  <2>2. \A i \in DOMAIN passed, m \in 1..MaxMinute : passed[i][m] <= PerMinute
    BY DEF LoginInv, LoginTypes, AddressesOK, PassesCounted
  <2> QED BY <2>1, <2>2 DEF LoginsThrottled
<1> QED BY <1>1, <1>2, <1>3, PTL DEF ThrottleSpec
=============================================================================
