-------------------------------- MODULE Auth --------------------------------
(***************************************************************************)
(* Local users and their sessions (internal/auth, its API handlers, the    *)
(* host-side commands of internal/app).                                    *)
(*                                                                         *)
(* A request of a browser names a session.  Authenticate extends it and    *)
(* reads the user, a second query reads the role, and an administrator may *)
(* then change users; commands on the host change them without a session.  *)
(* A login reads the clock once, asks the limiter, reads the credential,   *)
(* compares the password, and then either counts a failure or creates a    *)
(* session: nothing holds a lock between these statements.                 *)
(*                                                                         *)
(* Transactions are READ COMMITTED.  FOR UPDATE waits for a user's row;    *)
(* inserting a session needs a key lock on that row, because of its        *)
(* foreign key, and waits for it too.  What a transaction does after it    *)
(* got its last lock cannot be told from its commit and is one step with   *)
(* it.  Passwords are compared by the credential they belong to; updated_at *)
(* is the number of the transaction that wrote it, since now() is the      *)
(* start of the transaction and not its commit.                            *)
(***************************************************************************)
EXTENDS Integers, Sequences, FiniteSets

CONSTANTS
    Handlers,      \* requests and commands that run at the same time
    Names,         \* usernames
    Scenarios,     \* [users, signedIn, wanted]: roles, sessions, what is asked for
    None,          \* no user, no request
    FailureLimit,  \* FailureLimit: wrong passwords that lock an account
    Lockout,       \* LockoutDuration
    Idle,          \* SessionIdle
    Absolute,      \* SessionAbsolute
    AttemptLimit,  \* limit of the LoginLimiter
    Window,        \* window of the LoginLimiter
    Retention,     \* how long a revoked session is kept
    Horizon,       \* bound of the clock
    MaxSessions,   \* bound on sessions
    MaxFaults      \* bound on requests that fail half-way

Roles == {"administrator", "operator"}

(* A row of users, with its role of user_roles. *)
UserRows == [role: Roles, enabled: BOOLEAN, stamp: Nat]

ASSUME AuthAssumption ==
    /\ {FailureLimit, Lockout, Idle, Absolute, AttemptLimit, Window, Horizon, MaxSessions}
          \subseteq Nat \ {0}
    /\ {Retention, MaxFaults} \subseteq Nat
    /\ IsFiniteSet(Handlers)
    /\ None \notin Names \cup Roles \cup UserRows
    /\ \A scenario \in Scenarios :
          /\ DOMAIN scenario.users \subseteq Names
          /\ \A n \in DOMAIN scenario.users : scenario.users[n] \in Roles
          /\ \A s \in DOMAIN scenario.signedIn : scenario.signedIn[s] \in DOMAIN scenario.users
          /\ \A r \in scenario.wanted :
                r # None /\ r.user \in Names /\ r.role \in Roles /\ r.enabled \in BOOLEAN

VARIABLES
    clock,         \* the wall clock, from 1
    begun,         \* number of transactions begun so far
    user,          \* users and user_roles: user[n] is None before n is created
    cred,          \* local_credentials
    sessions,      \* sessions, by number
    limiter,       \* entry of the limiter for the one source address used here
    todo,          \* requests not yet made
    job,           \* job[h]: the request h handles and how far it is
    faults,        \* requests that failed so far
    used,          \* used[s]: latest clock reading session s was accepted at (history)
    wrong,         \* wrong[n]: dates of the failures counted since the last clearing (history)
    bootstraps,    \* bootstraps that succeeded (history)
    demoted        \* a host command took an administrator's rights, or gave them to a
                   \* disabled user when no enabled one had them (history)

vars == <<clock, begun, user, cred, sessions, limiter, todo, job, faults,
          used, wrong, bootstraps, demoted>>

history == <<used, wrong, bootstraps, demoted>>

-----------------------------------------------------------------------------
ApiOps == {"use", "logout", "update", "reset", "create"}

Blank == [pc |-> "idle", req |-> None, at |-> 0, session |-> 0, seen |-> None, role |-> None, stamp |-> 0]

NoSession == [user |-> None, state |-> "none", expires |-> 0, absolute |-> 0,
              revokedAt |-> 0, under |-> None]

FreshCredential(password) == [password |-> password, failed |-> 0, locked |-> 0]

NewUser(role, stamp) == [role |-> role, enabled |-> TRUE, stamp |-> stamp]

(* What a session stands for: the role, enablement and password of its user. *)
Standing(row, password) == [role |-> row.role, enabled |-> row.enabled, password |-> password]

(* createSession: both expiries count from the clock reading of the login. *)
NewSession(n, at, standing) ==
    [user |-> n, state |-> "live", expires |-> at + Idle, absolute |-> at + Absolute,
     revokedAt |-> 0, under |-> standing]

Least(a, b) == IF a < b THEN a ELSE b

Init ==
    /\ clock = 1 /\ begun = 0 /\ faults = 0
    /\ \E scenario \in Scenarios :
          /\ todo = scenario.wanted
          /\ user = [n \in Names |-> IF n \in DOMAIN scenario.users
                                     THEN NewUser(scenario.users[n], 0) ELSE None]
          /\ sessions = [s \in 1 .. MaxSessions |->
                           IF s \in DOMAIN scenario.signedIn
                           THEN LET n == scenario.signedIn[s]
                                IN  NewSession(n, 1, Standing(NewUser(scenario.users[n], 0), "old"))
                           ELSE NoSession]
    /\ cred = [n \in Names |-> FreshCredential("old")]
    /\ limiter = [started |-> 0, count |-> 0]
    /\ job = [h \in Handlers |-> Blank]
    /\ used = [s \in 1 .. MaxSessions |-> 1]
    /\ wrong = [n \in Names |-> <<>>]
    /\ bootstraps = 0 /\ demoted = FALSE

-----------------------------------------------------------------------------
(* Locks, from where the requests stand. *)

At(h, pc) == job[h].pc = pc

Req(h) == job[h].req

(* The row of user n is locked FOR UPDATE by nobody but h. *)
RowFree(h, n) ==
    \A g \in Handlers \ {h} : job[g].pc \in {"count", "write"} => Req(g).user # n

(* The credential of n is not being cleared by a login other than h. *)
CredentialFree(h, n) == \A g \in Handlers \ {h} : At(g, "insert") => Req(g).user # n

(* Variant: updates of users do not exclude one another. *)
UpdatesOverlap(h) == TRUE

(* pg_advisory_xact_lock(managedUserLockID). *)
UpdateLockFree(h) ==
    \A g \in Handlers \ {h} :
        ~ (Req(g) # None /\ Req(g).op = "update" /\ job[g].pc \in {"select", "lock", "count", "write"})

(* pg_advisory_xact_lock(bootstrapLockID). *)
BootstrapLockFree(h) == \A g \in Handlers \ {h} : job[g].pc \notin {"check", "bootstrap"}

Goto(h, pc) == job' = [job EXCEPT ![h].pc = pc]

Finish(h) == job' = [job EXCEPT ![h] = Blank]

Revoked(session) == IF session.state = "live"
                    THEN [session EXCEPT !.state = "revoked", !.revokedAt = clock] ELSE session

(* UPDATE sessions SET revoked_at = now() WHERE user_id = n AND revoked_at IS NULL. *)
RevokeSessions(n) ==
    sessions' = [s \in DOMAIN sessions |->
                    IF sessions[s].user = n THEN Revoked(sessions[s]) ELSE sessions[s]]

Administrators == {n \in Names : user[n] # None /\ user[n].role = "administrator"}

EnabledAdministrators == {n \in Administrators : user[n].enabled}

FirstStep(op) ==
    CASE op = "login" -> "login"
      [] op \in ApiOps -> "present"
      [] op = "bootstrap" -> "bootstrap_lock"
      [] op = "create_local" -> "create"
      [] OTHER -> "begin"

(* A browser or a shell makes a request.  For the update of a user it was shown
   the user, with updated_at as the ETag. *)
Take(h, r) ==
    /\ At(h, "idle")
    /\ todo' = todo \ {r}
    /\ job' = [job EXCEPT ![h] = [Blank EXCEPT !.pc = FirstStep(r.op), !.req = r,
                                               !.seen = user[r.user]]]
    /\ UNCHANGED <<clock, begun, user, cred, sessions, limiter, faults, history>>

-----------------------------------------------------------------------------
(* Login *)

(* The entry of the limiter at instant at: a new one once its window is over. *)
Entry(at) ==
    IF limiter.started = 0 \/ at - limiter.started >= Window
    THEN [started |-> at, count |-> 0] ELSE limiter

(* Login reads the clock, and the limiter lets it pass.  Entries of other source
   addresses, and the removal of those whose window is over, change nothing here. *)
Allow(h) ==
    /\ At(h, "login")
    /\ Entry(clock).count < AttemptLimit
    /\ limiter' = [Entry(clock) EXCEPT !.count = @ + 1]
    /\ job' = [job EXCEPT ![h].pc = "credential", ![h].at = clock]
    /\ UNCHANGED <<clock, begun, user, cred, sessions, todo, faults, history>>

(* Too many attempts: ErrRateLimited. *)
RateLimited(h) ==
    /\ At(h, "login")
    /\ Entry(clock).count >= AttemptLimit
    /\ Finish(h)
    /\ UNCHANGED <<clock, begun, user, cred, sessions, limiter, todo, faults, history>>

(* Variant: a lock is not looked at. *)
NeverLocked(n, at) == FALSE

(* locked_until is after the clock reading of the login. *)
Locked(n, at) == cred[n].locked > at

(* The credential is read and the password compared.  A wrong password for an
   account that is not locked is counted; a right one for an account that is
   enabled and not locked gets a session; all else is only audited. *)
Verify(h) ==
    LET n == Req(h).user
        valid == Req(h).password = cred[n].password
        locked == Locked(n, job[h].at)
    IN  /\ At(h, "credential")
        /\ CASE user[n] = None -> Finish(h)
             [] user[n] # None /\ ~ valid /\ ~ locked -> Goto(h, "failure")
             [] user[n] # None /\ valid /\ ~ locked /\ user[n].enabled -> Goto(h, "clear")
             [] OTHER -> Finish(h)
        /\ UNCHANGED <<clock, begun, user, cred, sessions, limiter, todo, faults, history>>

(* recordFailure: one statement adds one and, from the limit on, locks the account
   for Lockout from the clock reading of this login. *)
RecordFailure(h) ==
    LET n == Req(h).user
    IN  /\ At(h, "failure")
        /\ CredentialFree(h, n)
        /\ cred' = [cred EXCEPT ![n].failed = @ + 1,
                                ![n].locked = IF cred[n].failed + 1 >= FailureLimit
                                              THEN job[h].at + Lockout ELSE @]
        /\ wrong' = [wrong EXCEPT ![n] = Append(@, job[h].at)]
        /\ Finish(h)
        /\ UNCHANGED <<clock, begun, user, sessions, limiter, todo, faults, used, bootstraps, demoted>>

(* createSession clears the failures, which locks the credential until it commits. *)
ClearFailures(h) ==
    /\ At(h, "clear")
    /\ CredentialFree(h, Req(h).user)
    /\ Goto(h, "insert")
    /\ UNCHANGED <<clock, begun, user, cred, sessions, limiter, todo, faults, history>>

Cleared(n) == [cred EXCEPT ![n].failed = 0, ![n].locked = 0]

NoneWrong(n) == [wrong EXCEPT ![n] = <<>>]

Unused == {s \in DOMAIN sessions : sessions[s].state = "none"}

(* The session is inserted, which waits for the user's row, and the login commits. *)
CreateSession(h) ==
    LET n == Req(h).user
    IN  /\ At(h, "insert")
        /\ RowFree(h, n)
        /\ cred' = Cleared(n)
        /\ wrong' = NoneWrong(n)
        /\ \E s \in Unused :
              /\ \A t \in Unused : s <= t
              /\ sessions' = [sessions EXCEPT ![s] = NewSession(n, job[h].at, Standing(user[n], cred[n].password))]
              /\ used' = [used EXCEPT ![s] = job[h].at]
        /\ Finish(h)
        /\ UNCHANGED <<clock, begun, user, limiter, todo, faults, bootstraps, demoted>>

-----------------------------------------------------------------------------
(* Requests with a session *)

(* The request arrives with a cookie of its user, and Authenticate reads the clock. *)
Present(h, s) ==
    /\ At(h, "present")
    /\ sessions[s].user = Req(h).as
    /\ job' = [job EXCEPT ![h].pc = "touch", ![h].session = s, ![h].at = clock]
    /\ UNCHANGED <<clock, begun, user, cred, sessions, limiter, todo, faults, history>>

(* Variant: the idle expiry is not compared. *)
AcceptableWithoutIdle(session, at) ==
    /\ session.state = "live" /\ user[session.user].enabled
    /\ session.absolute > at

(* The WHERE of the UPDATE that Authenticate makes. *)
Acceptable(session, at) ==
    /\ session.state = "live" /\ user[session.user].enabled
    /\ session.expires > at /\ session.absolute > at

(* Authenticate extends the session, never beyond its absolute expiry, from a clock
   reading that may be older than that of a request which overtook this one. *)
Touch(h) ==
    LET s == job[h].session
        at == job[h].at
    IN  /\ At(h, "touch")
        /\ Acceptable(sessions[s], at)
        /\ sessions' = [sessions EXCEPT ![s].expires = Least(at + Idle, sessions[s].absolute)]
        /\ used' = [used EXCEPT ![s] = IF at > @ THEN at ELSE @]
        /\ Goto(h, "roles")
        /\ UNCHANGED <<clock, begun, user, cred, limiter, todo, faults, wrong, bootstraps, demoted>>

(* No such session any more: the browser is told to sign in. *)
Unauthenticated(h) ==
    /\ At(h, "touch")
    /\ ~ Acceptable(sessions[job[h].session], job[h].at)
    /\ Finish(h)
    /\ UNCHANGED <<clock, begun, user, cred, sessions, limiter, todo, faults, history>>

(* A second query reads the role.  Without users:manage a change of users is denied
   and audited; a read is answered. *)
ReadRoles(h) ==
    LET op == Req(h).op
        manages == user[sessions[job[h].session].user].role = "administrator"
    IN  /\ At(h, "roles")
        /\ CASE op = "logout" -> Goto(h, "logout")
             [] op = "create" /\ manages -> Goto(h, "create")
             [] op \in {"update", "reset"} /\ manages -> Goto(h, "begin")
             [] OTHER -> Finish(h)
        /\ UNCHANGED <<clock, begun, user, cred, sessions, limiter, todo, faults, history>>

(* Logout revokes the session, unless that happened in the meantime. *)
Logout(h) ==
    /\ At(h, "logout")
    /\ sessions' = [sessions EXCEPT ![job[h].session] = Revoked(@)]
    /\ Finish(h)
    /\ UNCHANGED <<clock, begun, user, cred, limiter, todo, faults, history>>

(* DeleteExpiredSessions, every 15 minutes. *)
DeleteExpiredSessions ==
    LET gone == {s \in DOMAIN sessions :
                    /\ sessions[s].state \in {"live", "revoked"}
                    /\ \/ sessions[s].expires < clock \/ sessions[s].absolute < clock
                       \/ (sessions[s].state = "revoked" /\ sessions[s].revokedAt + Retention < clock)}
    IN  /\ gone # {}
        /\ sessions' = [s \in DOMAIN sessions |->
                           IF s \in gone THEN [sessions[s] EXCEPT !.state = "deleted"] ELSE sessions[s]]
        /\ UNCHANGED <<clock, begun, user, cred, limiter, todo, job, faults, history>>

-----------------------------------------------------------------------------
(* Changes of users, by administrators and from the host *)

(* CreateManagedUser, CreateLocalUser: a name that exists is taken. *)
CreateUser(h) ==
    LET n == Req(h).user
    IN  /\ At(h, "create")
        /\ IF user[n] = None
           THEN /\ begun' = begun + 1
                /\ user' = [user EXCEPT ![n] = NewUser(Req(h).role, begun + 1)]
                /\ cred' = [cred EXCEPT ![n] = FreshCredential(Req(h).password)]
           ELSE UNCHANGED <<begun, user, cred>>
        /\ Finish(h)
        /\ UNCHANGED <<clock, sessions, limiter, todo, faults, history>>

(* The transaction begins: now() is this instant. *)
Begin(h) ==
    /\ At(h, "begin")
    /\ begun' = begun + 1
    /\ job' = [job EXCEPT ![h].pc = IF Req(h).op = "update" THEN "update_lock" ELSE "lock",
                          ![h].stamp = begun + 1]
    /\ UNCHANGED <<clock, user, cred, sessions, limiter, todo, faults, history>>

(* UpdateManagedUser waits for its advisory lock. *)
LockUpdates(h) ==
    /\ At(h, "update_lock")
    /\ UpdateLockFree(h)
    /\ Goto(h, "select")
    /\ UNCHANGED <<clock, begun, user, cred, sessions, limiter, todo, faults, history>>

(* Its SELECT ... FOR UPDATE begins.  The role is in another table: it is read as of
   now, also if the statement then waits for the row. *)
ReadRole(h) ==
    /\ At(h, "select")
    /\ job' = [job EXCEPT ![h].pc = "lock",
                          ![h].role = IF user[Req(h).user] = None THEN None ELSE user[Req(h).user].role]
    /\ UNCHANGED <<clock, begun, user, cred, sessions, limiter, todo, faults, history>>

(* Variant: any ETag is current. *)
AnyETag(h) == TRUE

(* updated_at is still what the administrator was shown. *)
ETagCurrent(h) == user[Req(h).user].stamp = job[h].seen.stamp

TakesRights(r) == ~ r.enabled \/ r.role # "administrator"

SelfLockout(h) == Req(h).user = sessions[job[h].session].user /\ TakesRights(Req(h))

(* The row is locked.  An update compares the ETag, refuses to lock out its own
   administrator, and counts the others if it takes an administrator's rights. *)
LockUser(h) ==
    LET r == Req(h)
        n == r.user
    IN  /\ At(h, "lock")
        /\ RowFree(h, n)
        /\ CASE user[n] = None -> Finish(h)
             [] user[n] # None /\ r.op # "update" -> Goto(h, "write")
             [] user[n] # None /\ r.op = "update" ->
                   IF job[h].seen = None \/ ~ ETagCurrent(h) \/ SelfLockout(h) THEN Finish(h)
                   ELSE Goto(h, IF job[h].role = "administrator" /\ user[n].enabled /\ TakesRights(r)
                                THEN "count" ELSE "write")
        /\ UNCHANGED <<clock, begun, user, cred, sessions, limiter, todo, faults, history>>

(* Without another enabled administrator the update is refused. *)
CountAdministrators(h) ==
    /\ At(h, "count")
    /\ IF EnabledAdministrators \subseteq {Req(h).user} THEN Finish(h) ELSE Goto(h, "write")
    /\ UNCHANGED <<clock, begun, user, cred, sessions, limiter, todo, faults, history>>

(* Variant: sessions are revoked for a new role only. *)
RevokesForRole(before, r) == before.role # r.role

(* UpdateManagedUser revokes the sessions if the role or the enablement changes. *)
Revokes(before, r) == before.role # r.role \/ before.enabled # r.enabled

(* UpdateManagedUser writes and commits.  The role is replaced only if it differs
   from the one that was read. *)
UpdateManagedUser(h) ==
    LET r == Req(h)
        n == r.user
        before == [user[n] EXCEPT !.role = job[h].role]
    IN  /\ At(h, "write") /\ r.op = "update"
        /\ user' = [user EXCEPT ![n] = [role |-> IF before.role = r.role THEN @.role ELSE r.role,
                                        enabled |-> r.enabled, stamp |-> job[h].stamp]]
        /\ IF Revokes(before, r) THEN RevokeSessions(n) ELSE UNCHANGED sessions
        /\ Finish(h)
        /\ UNCHANGED <<clock, begun, cred, limiter, todo, faults, history>>

(* ResetManagedUserPassword, ResetLocalPassword: the credential is replaced, which
   waits for a login that is clearing it, and all sessions are revoked. *)
ResetPassword(h) ==
    LET n == Req(h).user
    IN  /\ At(h, "write") /\ Req(h).op \in {"reset", "reset_local"}
        /\ CredentialFree(h, n)
        /\ cred' = [cred EXCEPT ![n] = FreshCredential(Req(h).password)]
        /\ wrong' = NoneWrong(n)
        /\ RevokeSessions(n)
        /\ Finish(h)
        /\ UNCHANGED <<clock, begun, user, limiter, todo, faults, used, bootstraps, demoted>>

(* AssignRole replaces the role and leaves updated_at alone. *)
AssignRole(h) ==
    LET n == Req(h).user
    IN  /\ At(h, "write") /\ Req(h).op = "assign"
        /\ user' = [user EXCEPT ![n].role = Req(h).role]
        /\ demoted' = \/ demoted
                      \/ user[n].role = "administrator" /\ Req(h).role # "administrator"
                      \/ Req(h).role = "administrator" /\ ~ user[n].enabled /\ EnabledAdministrators = {}
        /\ RevokeSessions(n)
        /\ Finish(h)
        /\ UNCHANGED <<clock, begun, cred, limiter, todo, faults, used, wrong, bootstraps>>

(* SetLocalUserEnabled. *)
SetLocalUserEnabled(h) ==
    LET n == Req(h).user
    IN  /\ At(h, "write") /\ Req(h).op = "enable"
        /\ user' = [user EXCEPT ![n].enabled = Req(h).enabled, ![n].stamp = job[h].stamp]
        /\ demoted' = (demoted \/ (user[n].role = "administrator" /\ ~ Req(h).enabled))
        /\ RevokeSessions(n)
        /\ Finish(h)
        /\ UNCHANGED <<clock, begun, cred, limiter, todo, faults, used, wrong, bootstraps>>

(* BootstrapAdmin takes its advisory lock... *)
LockBootstrap(h) ==
    /\ At(h, "bootstrap_lock")
    /\ BootstrapLockFree(h)
    /\ Goto(h, "check")
    /\ UNCHANGED <<clock, begun, user, cred, sessions, limiter, todo, faults, history>>

(* ...looks for any administrator... *)
CheckBootstrap(h) ==
    /\ At(h, "check")
    /\ IF Administrators # {} THEN Finish(h) ELSE Goto(h, "bootstrap")
    /\ UNCHANGED <<clock, begun, user, cred, sessions, limiter, todo, faults, history>>

(* ...and creates one, unless the name has been taken. *)
BootstrapAdmin(h) ==
    LET n == Req(h).user
    IN  /\ At(h, "bootstrap")
        /\ IF user[n] = None
           THEN /\ begun' = begun + 1
                /\ user' = [user EXCEPT ![n] = NewUser("administrator", begun + 1)]
                /\ cred' = [cred EXCEPT ![n] = FreshCredential(Req(h).password)]
                /\ bootstraps' = bootstraps + 1
           ELSE UNCHANGED <<begun, user, cred, bootstraps>>
        /\ Finish(h)
        /\ UNCHANGED <<clock, sessions, limiter, todo, faults, used, wrong, demoted>>

-----------------------------------------------------------------------------
(* A cancelled request, a failing store or a crash of the command: rolled back. *)
Fail(h) ==
    /\ ~ At(h, "idle") /\ faults < MaxFaults
    /\ faults' = faults + 1
    /\ Finish(h)
    /\ UNCHANGED <<clock, begun, user, cred, sessions, limiter, todo, history>>

(* A login that holds the credential waits for the user's row, and the reset that
   holds the row waits for the credential: PostgreSQL ends one of them. *)
DeadlockVictim(h) ==
    /\ \E g \in Handlers \ {h} :
          LET Waits(a, b) == At(a, "insert") /\ At(b, "write") /\ Req(b).op \in {"reset", "reset_local"}
          IN  (Waits(h, g) \/ Waits(g, h)) /\ Req(g).user = Req(h).user
    /\ Finish(h)
    /\ UNCHANGED <<clock, begun, user, cred, sessions, limiter, todo, faults, history>>

Tick ==
    /\ clock < Horizon
    /\ clock' = clock + 1
    /\ UNCHANGED <<begun, user, cred, sessions, limiter, todo, job, faults, history>>

Handle(h) ==
    \/ Allow(h) \/ RateLimited(h) \/ Verify(h) \/ RecordFailure(h) \/ ClearFailures(h) \/ CreateSession(h)
    \/ \E s \in DOMAIN sessions : Present(h, s)
    \/ Touch(h) \/ Unauthenticated(h) \/ ReadRoles(h) \/ Logout(h)
    \/ CreateUser(h) \/ Begin(h) \/ LockUpdates(h) \/ ReadRole(h) \/ LockUser(h) \/ CountAdministrators(h)
    \/ UpdateManagedUser(h) \/ ResetPassword(h) \/ AssignRole(h) \/ SetLocalUserEnabled(h)
    \/ LockBootstrap(h) \/ CheckBootstrap(h) \/ BootstrapAdmin(h)

Next ==
    \/ \E h \in Handlers, r \in todo : Take(h, r)
    \/ \E h \in Handlers : Handle(h) \/ Fail(h) \/ DeadlockVictim(h)
    \/ DeleteExpiredSessions
    \/ Tick

Spec == Init /\ [][Next]_vars

-----------------------------------------------------------------------------
(* Every variable has its type; a request that is under way is one of the
   wanted ones, and a request that holds a row was shown or found its user. *)
TypeOK ==
    /\ clock \in 1 .. Horizon /\ begun \in Nat /\ faults \in 0 .. MaxFaults
    /\ \A n \in Names :
          /\ user[n] # None => user[n].role \in Roles /\ user[n].enabled \in BOOLEAN /\ user[n].stamp <= begun
          /\ cred[n].failed \in Nat /\ cred[n].locked \in Nat
    /\ \A s \in DOMAIN sessions :
          /\ sessions[s].state \in {"none", "live", "revoked", "deleted"}
          /\ sessions[s].state # "none" => sessions[s].user \in Names /\ user[sessions[s].user] # None
    /\ \A h \in Handlers : job[h].pc \in {"count", "write"} => user[Req(h).user] # None

(* Once there is an administrator, an enabled one remains, whatever administrators
   do to one another at the same time: each update counts the others while no
   other update can be between its count and its commit.  Commands on the host
   may take the last one's rights, or give the first ones to a disabled user, and
   are excepted. *)
AdministratorRemains ==
    (Administrators # {} /\ ~ demoted) => EnabledAdministrators # {}

(* However many bootstraps run at once, also beside other commands that create
   users, one of them creates the first administrator and the others fail. *)
OneFirstAdministrator == bootstraps > 1 => demoted

(* What holds of the users at any time, however administrators, bootstraps and
   commands on the host overlap. *)
UsersInv == TypeOK /\ AdministratorRemains /\ OneFirstAdministrator

(* A session that is not revoked was created under the role, the enablement and
   the password its user has now: whatever changes them revokes the sessions that
   exist, and a login under way inserts its session before that or after it. *)
SessionsPostdateChanges ==
    \A s \in DOMAIN sessions :
        sessions[s].state = "live" =>
            LET n == sessions[s].user IN sessions[s].under = Standing(user[n], cred[n].password)

(* A request is accepted only within Idle of an earlier accepted one and within
   Absolute of the login, although requests that overtake one another write
   expiries computed from older clock readings. *)
LifetimesKept ==
    [][\A h \in Handlers :
          (At(h, "touch") /\ job'[h].pc = "roles") =>
              LET session == sessions[job[h].session]
              IN  /\ job[h].at < used[job[h].session] + Idle
                  /\ job[h].at < session.absolute
                  /\ sessions'[job[h].session].expires <= session.absolute]_vars

(* Those of a sequence of dates that lie within a lockout from t on. *)
Within(dates, t) == {i \in DOMAIN dates : t <= dates[i] /\ dates[i] < t + Lockout}

(* Wrong passwords counted for one account within a lockout, until a right password
   or a reset clears them, stay within the limit, plus those of logins that overtake
   one another.  Each handler may have read the credential before the lock was
   stored; and one that read the clock before it may, when its own failure is
   recorded, move the end of the lock back and let the others in once more, but
   then no longer holds an old reading itself.  With H handlers that is at most
   FailureLimit - 1 + H + (H - 1) + ... + 1. *)
GuessesBounded ==
    LET H == Cardinality(Handlers)
    IN  \A n \in Names, t \in 1 .. Horizon :
            2 * Cardinality(Within(wrong[n], t)) <= 2 * (FailureLimit - 1) + H * (H + 1)

(* An administrator's update replaces the very row that was shown to them, its
   role apart, which the host's command replaces without a new updated_at. *)
NoLostUserUpdate ==
    [][\A h \in Handlers :
          (At(h, "write") /\ Req(h).op = "update" /\ user'[Req(h).user] # user[Req(h).user])
              => [user[Req(h).user] EXCEPT !.role = None] = [job[h].seen EXCEPT !.role = None]]_vars
=============================================================================
