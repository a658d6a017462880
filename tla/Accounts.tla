------------------------------ MODULE Accounts ------------------------------
(***************************************************************************)
(* The accounts behind the API keys (internal/api/admin/users.go, orgs.go, *)
(* teams.go, service_accounts.go, org_memberships.go, invites.go, oidc.go  *)
(* and their tables in internal/db): one organisation, one team of it, one *)
(* service account, and users that are created, invited, brought in by the *)
(* identity provider, changed and deleted.                                 *)
(*                                                                         *)
(* Most requests are one statement of the database.  An invite is replaced *)
(* in two and redeemed in four, a user of the identity provider made in    *)
(* three, and other requests come between them.                            *)
(***************************************************************************)
EXTENDS Naturals, Sequences

CONSTANTS
    Instances, Callers,
    At,               \* At[w]: the instances caller w sends its requests to
    None,
    Users,            \* the e-mail addresses; one account each
    Founder,          \* the account that Bootstrap creates
    InitialInvites,   \* the addresses of the first, pending invites
    MaxInvites,       \* bound: invites ever created
    MaxEvents         \* bound: requests, lost messages, failed calls, crashes
                      \* and days, all together

VARIABLES
    users,            \* None, or the row of the users table and its membership
    org, team,        \* [live, limit]; a limit stands for all four of them
    account,          \* the service account: None or [live, scoped]
    invites,          \* by id: None, "pending", "redeemed" or "revoked"
    invited,          \* by id: the address
    claims,           \* history, by id: what the invite was whenever a request claimed it
    task,             \* what each handler is doing
    up,               \* the instances that serve
    events            \* how many of these have happened

tables     == <<users, org, team, account>>
inviteVars == <<invites, invited, claims>>

Idle    == [step |-> "idle"]
Invites == 1..MaxInvites

MemberRoles == {"member", "org_admin"}
UserRows    == [live: BOOLEAN, admin: BOOLEAN, password: BOOLEAN, sso: BOOLEAN,
                role: {None} \cup MemberRoles]

ASSUME AccountsAssumption ==
    /\ Founder \in Users /\ MaxInvites \in Nat /\ MaxEvents \in Nat
    /\ Len(InitialInvites) <= MaxInvites
    /\ None \notin {"pending", "redeemed", "revoked"} \cup Users \cup UserRows
    /\ At \in [Callers -> SUBSET Instances]

Become(w, t) == task' = [task EXCEPT ![w] = t]
Event == events < MaxEvents /\ events' = events + 1

\* A request reaches an instance that serves.
Request(w, i) == task[w] = Idle /\ i \in up \cap At[w] /\ Event
\* One that is a single statement of the database.
Statement(w) == \E i \in Instances : Request(w, i) /\ UNCHANGED <<task, up>>

-----------------------------------------------------------------------------
(* The tables (internal/db): each of these is one statement, or one        *)
(* transaction.  Rows are deleted softly and not found any more.           *)

NewUser(admin, role) == [live |-> TRUE, admin |-> admin, password |-> TRUE, sso |-> FALSE, role |-> role]
LiveUser(u) == users[u] # None /\ users[u].live
\* The address of a deleted user is taken.
FreeAddress(u) == users[u] = None

InsertUser(u, row) == FreeAddress(u) /\ users' = [users EXCEPT ![u] = row]
ChangeUser(u, row) == LiveUser(u) /\ users' = [users EXCEPT ![u] = row]
\* Neither the memberships nor the keys are touched.
RetireUser(u)      == LiveUser(u) /\ users' = [users EXCEPT ![u].live = FALSE]

\* A user has at most one membership, which outlives the user.
IsMember(u) == users[u] # None /\ users[u].role # None
InsertMembership(u, role) == users[u] # None /\ ~IsMember(u) /\ users' = [users EXCEPT ![u].role = role]
ChangeMembership(u, role) == IsMember(u) /\ users' = [users EXCEPT ![u].role = role]
RemoveMembership(u)       == IsMember(u) /\ users' = [users EXCEPT ![u].role = None]

\* GetUserOrgRole, None if it is not found.
OrgRole(u) == IF ~LiveUser(u) THEN None ELSE IF users[u].admin THEN "system_admin" ELSE users[u].role
\* ResolveUserRole: one with an organisation, None for a user who cannot log in.
SessionRole(u) == IF LiveUser(u) /\ IsMember(u) THEN OrgRole(u) ELSE None

ChangeOrg(limit)  == org.live /\ org' = [org EXCEPT !.limit = limit]
RetireOrg         == org.live /\ org' = [org EXCEPT !.live = FALSE]
ChangeTeam(limit) == team.live /\ team' = [team EXCEPT !.limit = limit]
RetireTeam        == team.live /\ team' = [team EXCEPT !.live = FALSE]
InsertAccount(scoped) == account = None /\ account' = [live |-> TRUE, scoped |-> scoped]
LiveAccount           == account # None /\ account.live
RetireAccount         == LiveAccount /\ account' = [account EXCEPT !.live = FALSE]

Pending(u) == {v \in Invites : invites[v] = "pending" /\ invited[v] = u}
\* The partial unique index admits one pending invite for an address.
InsertInviteRow(u) ==
    /\ Pending(u) = {}
    /\ \E v \in Invites :
          /\ invites[v] = None /\ \A x \in 1..(v - 1) : invites[x] # None
          /\ invites' = [invites EXCEPT ![v] = "pending"]
          /\ invited' = [invited EXCEPT ![v] = u]
\* The row is deleted, redeemed or not.
RemoveInvite(v) ==
    /\ invites[v] \in {"pending", "redeemed"}
    /\ invites' = [invites EXCEPT ![v] = "revoked"]
RemovePending(u) ==
    invites' = [v \in Invites |-> IF v \in Pending(u) THEN "revoked" ELSE invites[v]]

-----------------------------------------------------------------------------
(* Users and memberships.                                                  *)

OnlyUsers == UNCHANGED <<org, team, account, inviteVars>>

CreateUser(w) ==
    \E u \in Users, admin \in BOOLEAN, role \in MemberRoles :
        Statement(w) /\ InsertUser(u, NewUser(admin, role)) /\ OnlyUsers

\* The flag and the password; nothing is done to the user's keys.
UpdateUser(w) ==
    \E u \in Users :
        /\ Statement(w) /\ LiveUser(u) /\ OnlyUsers
        /\ \/ ChangeUser(u, [users[u] EXCEPT !.admin = ~@])
           \/ ChangeUser(u, [users[u] EXCEPT !.password = TRUE])

DeleteUser(w) == \E u \in Users : Statement(w) /\ RetireUser(u) /\ OnlyUsers

CreateOrgMembership(w) ==
    \E u \in Users, role \in MemberRoles : Statement(w) /\ InsertMembership(u, role) /\ OnlyUsers

UpdateOrgMembership(w) ==
    \E u \in Users, role \in MemberRoles : Statement(w) /\ ChangeMembership(u, role) /\ OnlyUsers

DeleteOrgMembership(w) == \E u \in Users : Statement(w) /\ RemoveMembership(u) /\ OnlyUsers

-----------------------------------------------------------------------------
(* The organisation, the team and the service account.                     *)

DeleteOrg(w)  == Statement(w) /\ RetireOrg /\ UNCHANGED <<users, team, account, inviteVars>>
DeleteTeam(w) == Statement(w) /\ RetireTeam /\ UNCHANGED <<users, org, account, inviteVars>>

CreateServiceAccount(w) ==
    \E scoped \in BOOLEAN :
        /\ Statement(w) /\ (scoped => team.live) /\ InsertAccount(scoped)
        /\ UNCHANGED <<users, org, team, inviteVars>>

DeleteServiceAccount(w) ==
    Statement(w) /\ RetireAccount /\ UNCHANGED <<users, org, team, inviteVars>>

\* The new limit is written and the instances are told on the channel of the
\* keys, in the caller's next step.
WriteLimit(w, payload) ==
    \E i \in Instances :
        /\ Request(w, i) /\ UNCHANGED up
        /\ Become(w, [step |-> "publish", on |-> i, key |-> payload])
        /\ UNCHANGED <<users, account, inviteVars>>

UpdateOrg(w)  == WriteLimit(w, None) /\ ChangeOrg(1 - org.limit) /\ UNCHANGED team
UpdateTeam(w) == WriteLimit(w, None) /\ ChangeTeam(1 - team.limit) /\ UNCHANGED org

-----------------------------------------------------------------------------
(* Invites.                                                                *)

\* CreateInvite withdraws the pending invites of the address first.
BeginInvite(w) ==
    \E i \in Instances, u \in Users :
        /\ Request(w, i) /\ RemovePending(u)
        /\ Become(w, [step |-> "invite", on |-> i, user |-> u])
        /\ UNCHANGED <<tables, invited, claims, up>>

InsertInvite(w) ==
    LET u == task[w].user IN
    /\ task[w].step = "invite"
    /\ \/ InsertInviteRow(u)
       \/ Pending(u) # {} /\ UNCHANGED <<invites, invited>>
    /\ Become(w, Idle)
    /\ UNCHANGED <<tables, claims, up, events>>

RevokeInvite(w) ==
    \E v \in Invites : Statement(w) /\ RemoveInvite(v) /\ UNCHANGED <<tables, invited, claims>>

\* RedeemInvite finds the invite pending and hashes the password.
BeginRedeem(w) ==
    \E i \in Instances, v \in Invites :
        /\ Request(w, i) /\ invites[v] = "pending" /\ UNCHANGED up
        /\ Become(w, [step |-> "claim", on |-> i, invite |-> v])
        /\ UNCHANGED <<tables, inviteVars>>

\* Mutant of Claimable: what the handler read of the invite is believed.
ClaimableOnceRead(v) == TRUE
\* RedeemInviteToken updates the row only if it is there and not redeemed.
Claimable(v) == invites[v] = "pending"

Claim(w) ==
    LET v == task[w].invite IN
    /\ task[w].step = "claim"
    /\ IF Claimable(v)
       THEN /\ invites' = [invites EXCEPT ![v] = "redeemed"]
            /\ claims' = [claims EXCEPT ![v] = Append(@, invites[v])]
            /\ Become(w, [task[w] EXCEPT !.step = "account"])
       ELSE Become(w, Idle) /\ UNCHANGED <<invites, claims>>
    /\ UNCHANGED <<tables, invited, up, events>>

\* CreateUser, without a membership yet; a taken address ends the request.
CreateInvited(w) ==
    LET u == invited[task[w].invite] IN
    /\ task[w].step = "account"
    /\ \/ /\ InsertUser(u, NewUser(FALSE, None))
          /\ Become(w, [task[w] EXCEPT !.step = "membership"])
       \/ ~FreeAddress(u) /\ Become(w, Idle) /\ UNCHANGED users
    /\ OnlyUsers /\ UNCHANGED <<up, events>>

JoinInvited(w) ==
    LET u == invited[task[w].invite] IN
    /\ task[w].step = "membership"
    /\ InsertMembership(u, "member") \/ (IsMember(u) /\ UNCHANGED users)
    /\ Become(w, Idle)
    /\ OnlyUsers /\ UNCHANGED <<up, events>>

-----------------------------------------------------------------------------
(* OIDCCallback: a user that the provider knows logs in; one that is not   *)
(* known here is made first, with a membership, or taken back without one. *)

SsoUser == [NewUser(FALSE, None) EXCEPT !.password = FALSE, !.sso = TRUE]

\* The code of the provider is good, and the user looked up by its id; who is not
\* found joins the default organisation, if there is one.
BeginSso(w) ==
    \E i \in Instances, u \in Users :
        /\ Request(w, i) /\ UNCHANGED up
        /\ \/ /\ LiveUser(u) /\ users[u].sso
              /\ Become(w, [step |-> "resolve", on |-> i, user |-> u])
           \/ /\ ~(LiveUser(u) /\ users[u].sso) /\ org.live
              /\ Become(w, [step |-> "provision", on |-> i, user |-> u])
        /\ UNCHANGED <<tables, inviteVars>>

\* CreateUser; whoever has the address already, by password or deleted, stays out.
Provision(w) ==
    LET u == task[w].user IN
    /\ task[w].step = "provision"
    /\ \/ InsertUser(u, SsoUser) /\ Become(w, [task[w] EXCEPT !.step = "join"])
       \/ ~FreeAddress(u) /\ Become(w, Idle) /\ UNCHANGED users
    /\ OnlyUsers /\ UNCHANGED <<up, events>>

JoinSso(w) ==
    LET u == task[w].user IN
    /\ task[w].step = "join"
    /\ \/ InsertMembership(u, "member") /\ Become(w, [task[w] EXCEPT !.step = "resolve"])
       \/ IsMember(u) /\ Become(w, [task[w] EXCEPT !.step = "undo"]) /\ UNCHANGED users
    /\ OnlyUsers /\ UNCHANGED <<up, events>>

\* The membership has failed: the new user is deleted, and its address is taken.
UndoProvision(w) ==
    LET u == task[w].user IN
    /\ task[w].step = "undo"
    /\ RetireUser(u) \/ (~LiveUser(u) /\ UNCHANGED users)
    /\ Become(w, Idle)
    /\ OnlyUsers /\ UNCHANGED <<up, events>>

\* On as in Login, but that a system administrator without an organisation, whom
\* SessionRole does not know, is turned away after the revocation only.
ResolveSso(w) ==
    LET t == task[w] IN
    /\ t.step = "resolve"
    /\ Become(w, IF OrgRole(t.user) = None THEN Idle
                 ELSE [step |-> "revoke", on |-> t.on, user |-> t.user, role |-> SessionRole(t.user)])
    /\ UNCHANGED <<tables, inviteVars, up, events>>

-----------------------------------------------------------------------------

\* After Bootstrap: an administrator with a password, and its organisation.
AccountsInit ==
    /\ users = [u \in Users |-> IF u = Founder THEN NewUser(TRUE, "org_admin") ELSE None]
    /\ org = [live |-> TRUE, limit |-> 0] /\ team = [live |-> TRUE, limit |-> 0]
    /\ account = None
    /\ invites = [v \in Invites |-> IF v <= Len(InitialInvites) THEN "pending" ELSE None]
    /\ invited = [v \in Invites |-> IF v <= Len(InitialInvites) THEN InitialInvites[v] ELSE None]
    /\ claims = [v \in Invites |-> <<>>]
    /\ task = [w \in Callers |-> Idle]
    /\ up = Instances /\ events = 0

Administer(w) ==
    \/ CreateUser(w) \/ UpdateUser(w) \/ DeleteUser(w)
    \/ CreateOrgMembership(w) \/ UpdateOrgMembership(w) \/ DeleteOrgMembership(w)
    \/ UpdateOrg(w) \/ DeleteOrg(w) \/ UpdateTeam(w) \/ DeleteTeam(w)
    \/ CreateServiceAccount(w) \/ DeleteServiceAccount(w)
    \/ BeginInvite(w) \/ RevokeInvite(w) \/ BeginRedeem(w) \/ BeginSso(w)

ContinueInvite(w) == InsertInvite(w) \/ Claim(w) \/ CreateInvited(w) \/ JoinInvited(w)
ContinueSso(w)    == Provision(w) \/ JoinSso(w) \/ UndoProvision(w) \/ ResolveSso(w)

\* An invite lets one request in, and only while it is pending: not a second one
\* that found it unredeemed too, and none after it was withdrawn or replaced by a
\* newer one, however long the request took to hash its password.
InviteOnce == \A v \in Invites : claims[v] \in {<<>>, <<"pending">>}
=============================================================================
