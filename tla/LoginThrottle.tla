--------------------------- MODULE LoginThrottle ---------------------------
(***************************************************************************)
(* The login throttle (internal/auth/login_throttle.go) around a login     *)
(* with a password (internal/api/admin/auth.go): attempts are counted by   *)
(* IP address and minute, and an account is locked after a number of wrong *)
(* passwords in a row.                                                     *)
(*                                                                         *)
(* An entry's mutex covers one look at it; between the look and the record *)
(* of the outcome lie the comparison of the hash and the database.         *)
(***************************************************************************)
EXTENDS Naturals, FiniteSets

CONSTANTS
    Clients,
    Ip,               \* Ip[w]: the address client w logs in from
    Accounts,         \* e-mail addresses, of users or not
    NoEntry,
    PerMinute,        \* loginMaxAttemptsPerIPPerMinute
    Threshold,        \* loginLockoutThreshold
    Lockout,          \* loginLockoutDuration, in minutes
    IdleEviction,     \* loginAccountIdleEviction, in minutes
    MaxMinute,        \* bound: the last minute of a behaviour
    MaxAttempts,      \* bound: attempts of a behaviour
    MaxEvictions      \* bound: entries evicted in a behaviour

VARIABLES
    minute,
    ips,              \* ipCounters: NoEntry or [window, count]
    accounts,         \* NoEntry or [failures, until, last]; until 0 for no lock
    login,            \* what each client's handler is doing
    evicting,         \* the entry EvictStale has found stale: NoEntry, an IP or an account
    attempts, evictions,
    guesses,          \* history: wrong passwords compared since the count began anew
    passed,           \* history: attempts by IP and minute that were let through
    upset             \* history: an attempt outlived the minute it read, or a
                      \* count in use was evicted

(***************************************************************************)
(* An entry is a record, and its absence is none.  The threshold and the   *)
(* durations are constants of the code.                                    *)
(***************************************************************************)
ThrottleAssumption ==
    /\ IsFiniteSet(Clients)
    /\ PerMinute \in Nat /\ Threshold \in Nat \ {0} /\ Lockout \in Nat
    /\ MaxMinute \in Nat \ {0}
    /\ NoEntry \notin [window : Nat, count : Nat] \cup [failures : Nat, until : Nat, last : Nat]

throttleVars == <<minute, ips, accounts, login, evicting, attempts, evictions, guesses, passed, upset>>
counts == <<attempts, evictions>>

NoLogin == [pc |-> "idle"]
Does(w, pc) == login[w].pc = pc
Goto(w, pc) == login' = [login EXCEPT ![w].pc = pc]
Leave(w) == login' = [login EXCEPT ![w] = NoLogin]
The(w) == login[w].account

NewAccount == [failures |-> 0, until |-> 0, last |-> 0]
Entry(a) == IF accounts[a] = NoEntry THEN NewAccount ELSE accounts[a]
-----------------------------------------------------------------------------

\* Login: the password is right or wrong.
Attempt(w) ==
    /\ Does(w, "idle") /\ attempts < MaxAttempts
    /\ attempts' = attempts + 1
    /\ \E a \in Accounts, right \in BOOLEAN :
          login' = [login EXCEPT ![w] = [pc |-> "ip", now |-> minute, account |-> a, right |-> right]]
    /\ UNCHANGED <<minute, ips, accounts, evicting, evictions, guesses, passed, upset>>

\* Allow: an entry of another minute starts from zero; too many end the attempt.
CountAttempt(w) ==
    LET e == ips[Ip[w]]  now == login[w].now
        count == IF e = NoEntry \/ e.window # now THEN 1 ELSE e.count + 1
    IN
    /\ Does(w, "ip")
    /\ ips' = [ips EXCEPT ![Ip[w]] = [window |-> now, count |-> count]]
    /\ IF count > PerMinute THEN Leave(w) /\ UNCHANGED passed
       ELSE Goto(w, "account") /\ passed' = [passed EXCEPT ![Ip[w]][now] = @ + 1]
    /\ UNCHANGED <<minute, accounts, evicting, counts, guesses, upset>>

\* A lock that has run out clears the failures; one that has not ends the attempt.
CheckAccount(w) ==
    LET a == The(w)  e == Entry(a)
        locked == e.until # 0 /\ login[w].now < e.until
        over == e.until # 0 /\ ~locked
    IN
    /\ Does(w, "account")
    /\ accounts' = [accounts EXCEPT ![a] = IF over THEN [e EXCEPT !.until = 0, !.failures = 0] ELSE e]
    /\ guesses' = [guesses EXCEPT ![a] = IF over THEN 0 ELSE @]
    /\ IF locked THEN Leave(w) ELSE Goto(w, "compare")
    /\ UNCHANGED <<minute, ips, evicting, counts, passed, upset>>

\* The hash of the database, or the dummy one.
Compare(w) ==
    /\ Does(w, "compare")
    /\ Goto(w, IF login[w].right THEN "session" ELSE "wrong")
    /\ guesses' = [guesses EXCEPT ![The(w)] = IF login[w].right THEN @ ELSE @ + 1]
    /\ UNCHANGED <<minute, ips, accounts, evicting, counts, passed, upset>>

\* Mutants of RecordFailure: locked one failure later; not counted in a lock.
RecordFailureLate(w) ==
    LET a == The(w)  failures == Entry(a).failures + 1 IN
    /\ Does(w, "wrong")
    /\ accounts' = [accounts EXCEPT ![a] =
           [failures |-> failures, last |-> minute,
            until |-> IF failures > Threshold THEN minute + Lockout ELSE Entry(a).until]]
    /\ Leave(w)
    /\ UNCHANGED <<minute, ips, evicting, counts, guesses, passed, upset>>

\* Every failure from the threshold on locks the account anew.
RecordFailure(w) ==
    LET a == The(w)  failures == Entry(a).failures + 1 IN
    /\ Does(w, "wrong")
    /\ accounts' = [accounts EXCEPT ![a] =
           [failures |-> failures, last |-> minute,
            until |-> IF failures >= Threshold THEN minute + Lockout ELSE Entry(a).until]]
    /\ Leave(w)
    /\ UNCHANGED <<minute, ips, evicting, counts, guesses, passed, upset>>

\* The session exists: the count begins anew.
RecordSuccess(w) ==
    LET a == The(w) IN
    /\ Does(w, "session")
    /\ accounts' = [accounts EXCEPT ![a] = [Entry(a) EXCEPT !.failures = 0, !.until = 0]]
    /\ guesses' = [guesses EXCEPT ![a] = 0]
    /\ Leave(w)
    /\ UNCHANGED <<minute, ips, evicting, counts, passed, upset>>

\* The user has no role, or the database fails: nothing is recorded.
NoSession(w) ==
    /\ Does(w, "session") /\ Leave(w)
    /\ UNCHANGED <<minute, ips, accounts, evicting, counts, guesses, passed, upset>>
-----------------------------------------------------------------------------
(* EvictStale: an entry is looked at, and then whatever is there deleted.  *)

NotLocked(e) == e.until = 0 \/ minute > e.until
IdleFor(e) == e.last # 0 /\ minute - e.last > IdleEviction
StaleAccount(e) == NotLocked(e) /\ (e.failures = 0 \/ IdleFor(e))
StaleIp(e) == e.window < minute

FindStale ==
    /\ evicting = NoEntry /\ evictions < MaxEvictions
    /\ evicting' \in {i \in DOMAIN ips : ips[i] # NoEntry /\ StaleIp(ips[i])}
                \cup {a \in Accounts : accounts[a] # NoEntry /\ StaleAccount(accounts[a])}
    /\ UNCHANGED <<minute, ips, accounts, login, counts, guesses, passed, upset>>

EvictIp ==
    /\ evicting \in DOMAIN ips
    /\ upset' = (upset \/ ips[evicting].window = minute)
    /\ ips' = [ips EXCEPT ![evicting] = NoEntry]
    /\ UNCHANGED <<accounts, guesses>>

EvictAccount ==
    /\ evicting \in Accounts
    /\ upset' = (upset \/ ~StaleAccount(accounts[evicting]))
    /\ accounts' = [accounts EXCEPT ![evicting] = NoEntry]
    /\ guesses' = [guesses EXCEPT ![evicting] = 0]
    /\ UNCHANGED ips

EvictLogin ==
    /\ EvictIp \/ EvictAccount
    /\ evicting' = NoEntry /\ evictions' = evictions + 1
    /\ UNCHANGED <<minute, login, attempts, passed>>

NextMinute ==
    /\ minute < MaxMinute
    /\ minute' = minute + 1
    /\ upset' = (upset \/ \E w \in Clients : Does(w, "ip"))
    /\ UNCHANGED <<ips, accounts, login, evicting, counts, guesses, passed>>

ThrottleInit ==
    /\ minute = 1
    /\ ips = [i \in {Ip[w] : w \in Clients} |-> NoEntry]
    /\ accounts = [a \in Accounts |-> NoEntry]
    /\ login = [w \in Clients |-> NoLogin] /\ evicting = NoEntry
    /\ attempts = 0 /\ evictions = 0
    /\ guesses = [a \in Accounts |-> 0]
    /\ passed = [i \in {Ip[w] : w \in Clients} |-> [m \in 1..MaxMinute |-> 0]]
    /\ upset = FALSE

ThrottleNext ==
    \/ \E w \in Clients : \/ Attempt(w) \/ CountAttempt(w) \/ CheckAccount(w) \/ Compare(w)
                          \/ RecordFailure(w) \/ RecordSuccess(w) \/ NoSession(w)
    \/ FindStale \/ EvictLogin \/ NextMinute

ThrottleSpec == ThrottleInit /\ [][ThrottleNext]_throttleVars
-----------------------------------------------------------------------------

\* Allow looks before the password is compared and RecordFailure counts after it:
\* of one account at most Threshold - 1 wrong passwords are compared, and those
\* that were under way at once, before it is locked, and none until the lock is
\* over; an address gets PerMinute attempts through in a minute.  (An attempt that
\* runs over the minute it read, or the eviction of a count in use, undoes this.)
LoginsThrottled ==
    ~upset => /\ \A a \in Accounts : guesses[a] <= Threshold - 1 + Cardinality(Clients)
              /\ \A i \in DOMAIN passed, m \in 1..MaxMinute : passed[i][m] <= PerMinute
=============================================================================
