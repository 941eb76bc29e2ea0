---------------------------- MODULE Auth_proofs ----------------------------
(***************************************************************************)
(* Proofs about users and sessions: that an enabled administrator remains, *)
(* that one bootstrap wins, that sessions postdate the changes of their    *)
(* user, that lifetimes are kept, that no administrator's update is lost   *)
(* and that the wrong passwords a user's lock lets in are bounded hold for *)
(* any users, requests, handlers and lifetimes.                            *)
(***************************************************************************)
EXTENDS Auth, FiniteSetTheorems, TLAPS

(* The requests that are made, and the passwords there can be. *)
Wanted == UNION {scenario.wanted : scenario \in Scenarios}

Passwords == {"old"} \cup {r.password : r \in Wanted}

Credentials == [password: Passwords, failed: Nat, locked: Nat]

Standings == [role: Roles, enabled: BOOLEAN, password: Passwords]

SessionRows == [user: Names \cup {None}, state: {"none", "live", "revoked", "deleted"}, expires: Nat,
                absolute: Nat, revokedAt: Nat, under: Standings \cup {None}]

(* Where a request can stand, and what a handler knows. *)
Steps == {"idle", "login", "credential", "failure", "clear", "insert", "present", "touch", "roles", "logout",
          "create", "begin", "update_lock", "select", "lock", "count", "write",
          "bootstrap_lock", "check", "bootstrap"}

Jobs == [pc: Steps, req: Wanted \cup {None}, at: 0 .. Horizon, session: 0 .. MaxSessions,
         seen: UserRows \cup {None}, role: Roles \cup {None}, stamp: Nat]

Shapes ==
    /\ clock \in 1 .. Horizon /\ begun \in Nat /\ faults \in 0 .. MaxFaults /\ bootstraps \in Nat
    /\ demoted \in BOOLEAN /\ todo \subseteq Wanted
    /\ user \in [Names -> UserRows \cup {None}]
    /\ cred \in [Names -> Credentials]
    /\ sessions \in [1 .. MaxSessions -> SessionRows]
    /\ used \in [1 .. MaxSessions -> Nat]
    /\ job \in [Handlers -> Jobs]

-----------------------------------------------------------------------------
(* Transactions that have begun, and so have their now(). *)
Begun == {"update_lock", "select", "lock", "count", "write"}

HoldsRow(h) == job[h].pc \in {"count", "write"}

Updates(h, steps) == job[h].pc \in steps /\ Req(h).op = "update"

(* A session is of a user, its idle expiry is at most Idle after it was last used,
   and if it is live it was created under what its user is now. *)
SessionSound(s) ==
    /\ sessions[s].state # "none" => sessions[s].user \in Names /\ user[sessions[s].user] # None
    /\ sessions[s].state = "live" =>
          /\ sessions[s].under = Standing(user[sessions[s].user], cred[sessions[s].user].password)
          /\ sessions[s].expires <= used[s] + Idle

(* Rows carry the number of a transaction that has begun. *)
StampsPast == \A n \in Names : user[n] # None => user[n].stamp <= begun

(* What a handler remembers is true enough: the user it was shown exists, and is
   unchanged if its updated_at is; the number of its own transaction is on no row
   yet; a handler that has locked a row to update it was shown that row. *)
JobSound(h) ==
    LET n == Req(h).user IN
    /\ job[h].pc # "idle" => Req(h) \in Wanted
    /\ job[h].pc \in {"update_lock", "select", "count"} => Req(h).op = "update"
    /\ job[h].pc \in {"touch", "roles", "logout"} => job[h].session # 0
    /\ job[h].pc \in {"roles", "logout"} => sessions[job[h].session].state # "none"
    /\ job[h].pc \in {"clear", "insert"} => user[n] # None
    /\ job[h].seen # None =>
          /\ job[h].pc # "idle" /\ user[n] # None /\ job[h].seen.stamp <= begun
          /\ user[n].stamp = job[h].seen.stamp => user[n].enabled = job[h].seen.enabled
    /\ job[h].pc \in Begun =>
          /\ job[h].stamp <= begun
          /\ \A m \in Names : user[m] # None => user[m].stamp # job[h].stamp
    /\ HoldsRow(h) => user[n] # None
    /\ Updates(h, {"count", "write"}) => job[h].seen # None /\ user[n].stamp = job[h].seen.stamp

(* The last administrator is safe from an update under way: there is an
   administrator, who was asked for it; if the update may take the rights of its
   user without having counted, or has counted, there is another; the role it
   read has changed only if a command on the host took it. *)
RightsSound(h) ==
    LET n == Req(h).user
        others == EnabledAdministrators \ {n} IN
    /\ Updates(h, {"begin"} \cup Begun) => demoted \/ Administrators # {}
    /\ Updates(h, {"lock"}) => demoted \/ job[h].role = "administrator" \/ others # {}
    /\ Updates(h, {"write"}) =>
          demoted \/ others # {} \/ ~ TakesRights(Req(h)) \/ ~ user[n].enabled
    /\ Updates(h, {"lock", "count", "write"}) =>
          (job[h].role = "administrator" => demoted \/ n \in Administrators)
    /\ job[h].pc = "bootstrap" => demoted \/ bootstraps = 0

(* The locks exclude one another, and transactions have numbers of their own. *)
Apart(g, h) ==
    /\ g # h =>
          /\ ~ (Updates(g, {"select", "lock", "count", "write"}) /\ Updates(h, {"select", "lock", "count", "write"}))
          /\ HoldsRow(g) /\ HoldsRow(h) => Req(g).user # Req(h).user
          /\ ~ (job[g].pc \in {"check", "bootstrap"} /\ job[h].pc \in {"check", "bootstrap"})
          /\ job[g].pc \in Begun /\ job[h].pc \in Begun => job[g].stamp # job[h].stamp
    /\ job[g].seen # None /\ job[h].pc \in Begun => job[g].seen.stamp # job[h].stamp

(* A bootstrap that succeeded made an administrator. *)
BootstrapMade == bootstraps > 0 => demoted \/ Administrators # {}

(* The inductive invariant. *)
AuthInd ==
    /\ Shapes /\ StampsPast /\ AdministratorRemains /\ OneFirstAdministrator /\ BootstrapMade
    /\ \A s \in 1 .. MaxSessions : SessionSound(s)
    /\ \A h \in Handlers : JobSound(h) /\ RightsSound(h)
    /\ \A g, h \in Handlers : Apart(g, h)

-----------------------------------------------------------------------------
(* What a request is. *)
LEMMA RequestTyped ==
    ASSUME NEW r \in Wanted
    PROVE  r # None /\ r.user \in Names /\ r.role \in Roles /\ r.enabled \in BOOLEAN /\ r.password \in Passwords
BY AuthAssumption DEF Wanted, Passwords

(* What a handler knows has its type. *)
LEMMA JobTyped ==
    ASSUME Shapes, NEW h \in Handlers
    PROVE  /\ job[h] \in Jobs /\ job[h].pc \in Steps /\ job[h].req \in Wanted \cup {None}
           /\ job[h].at \in 0 .. Horizon /\ job[h].session \in 0 .. MaxSessions
           /\ job[h].seen \in UserRows \cup {None} /\ job[h].role \in Roles \cup {None}
           /\ job[h].stamp \in Nat
<1>1. job[h] \in Jobs
  BY DEF Shapes
<1> QED
  BY <1>1 DEF Jobs

(* Handlers other than h are where they were, and h has got to step p with the
   request and the row it was shown. *)
Moved(h, p) ==
    /\ job' \in [Handlers -> Jobs]
    /\ \A g \in Handlers \ {h} : job'[g] = job[g]
    /\ job'[h].pc = p /\ job'[h].req = job[h].req /\ job'[h].seen = job[h].seen

(* A request goes on to another step. *)
LEMMA GotoMoves ==
    ASSUME Shapes, NEW h \in Handlers, NEW p \in Steps, Goto(h, p)
    PROVE  /\ Moved(h, p) /\ job'[h].at = job[h].at /\ job'[h].session = job[h].session
           /\ job'[h].role = job[h].role /\ job'[h].stamp = job[h].stamp
<1>1. job[h] \in Jobs /\ job \in [Handlers -> Jobs] /\ job' = [job EXCEPT ![h].pc = p]
  BY DEF Shapes, Goto
<1>2. job'[h] = [job[h] EXCEPT !.pc = p] /\ \A g \in Handlers \ {h} : job'[g] = job[g]
  BY <1>1
<1>3. [job[h] EXCEPT !.pc = p] \in Jobs
  BY <1>1 DEF Jobs
<1>4. job' \in [Handlers -> Jobs]
  BY <1>1, <1>2, <1>3
<1>5. \A j \in Jobs : LET k == [j EXCEPT !.pc = p] IN
        /\ k.pc = p /\ k.req = j.req /\ k.seen = j.seen /\ k.at = j.at /\ k.session = j.session
        /\ k.role = j.role /\ k.stamp = j.stamp
  BY DEF Jobs
<1> QED
  BY <1>1, <1>2, <1>4, <1>5 DEF Moved

(* A request ends: its handler knows nothing any more. *)
LEMMA FinishEnds ==
    ASSUME Shapes, NEW h \in Handlers, Finish(h)
    PROVE  /\ job' \in [Handlers -> Jobs] /\ \A g \in Handlers \ {h} : job'[g] = job[g]
           /\ job'[h].pc = "idle" /\ job'[h].seen = None
           /\ JobSound(h)' /\ RightsSound(h)'
           /\ \A g \in Handlers : Apart(g, h)' /\ Apart(h, g)'
<1> USE AuthAssumption
<1>1. Blank \in Jobs /\ Blank.pc = "idle" /\ Blank.seen = None
  BY DEF Blank, Jobs, Steps
<1>2. job \in [Handlers -> Jobs] /\ job' = [job EXCEPT ![h] = Blank]
  BY DEF Shapes, Finish
<1>3. job' \in [Handlers -> Jobs] /\ job'[h] = Blank /\ \A g \in Handlers \ {h} : job'[g] = job[g]
  BY <1>1, <1>2
<1>4. job'[h].pc = "idle" /\ job'[h].seen = None
  BY <1>1, <1>3
<1>5. JobSound(h)'
  BY <1>4 DEF JobSound, HoldsRow, Updates, Begun
<1>6. RightsSound(h)'
  BY <1>4 DEF RightsSound, Updates, Begun
<1>7. \A g \in Handlers : Apart(g, h)' /\ Apart(h, g)'
  BY <1>4 DEF Apart, HoldsRow, Updates, Begun
<1> QED
  BY <1>3, <1>4, <1>5, <1>6, <1>7

(* A step that changes no user: the sessions, and what the handlers know that it
   moves, have to be looked at. *)
LEMMA UsersKept ==
    ASSUME AuthInd, Shapes',
           UNCHANGED <<user, demoted, bootstraps>>, begun <= begun',
           \A s \in 1 .. MaxSessions :
              SessionSound(s)' /\ (sessions[s].state # "none" => sessions'[s].state # "none"),
           \A g \in Handlers : \/ job'[g] = job[g]
                               \/ /\ JobSound(g)' /\ RightsSound(g)'
                                  /\ \A d \in Handlers : Apart(g, d)' /\ Apart(d, g)'
    PROVE  AuthInd'
<1> USE AuthAssumption
<1>0. /\ Shapes /\ StampsPast /\ AdministratorRemains /\ OneFirstAdministrator /\ BootstrapMade
      /\ \A s \in 1 .. MaxSessions : SessionSound(s)
      /\ \A g \in Handlers : JobSound(g) /\ RightsSound(g)
      /\ \A g, d \in Handlers : Apart(g, d)
  BY DEF AuthInd
<1>1. Administrators' = Administrators /\ EnabledAdministrators' = EnabledAdministrators
  BY DEF Administrators, EnabledAdministrators
<1>2. begun \in Nat /\ begun' \in Nat
  BY <1>0 DEF Shapes
<1>3. StampsPast'
  <2>1. \A n \in Names : user[n] # None => user[n].stamp \in Nat
    BY <1>0 DEF Shapes, UserRows
  <2> QED
    BY <1>0, <1>2, <2>1 DEF StampsPast
<1>4. AdministratorRemains' /\ OneFirstAdministrator' /\ BootstrapMade'
  BY <1>0, <1>1 DEF AdministratorRemains, OneFirstAdministrator, BootstrapMade
<1>5. ASSUME NEW s \in 1 .. MaxSessions PROVE SessionSound(s)'
  OBVIOUS
<1>6. ASSUME NEW g \in Handlers, job'[g] = job[g] PROVE JobSound(g)' /\ RightsSound(g)'
  <2>1. JobSound(g) /\ RightsSound(g) /\ job'[g] = job[g]
    BY <1>0, <1>6
  <2>2. job[g].stamp \in Nat /\ (job[g].seen # None => job[g].seen.stamp \in Nat)
    <3>1. job[g].stamp \in Nat /\ job[g].seen \in UserRows \cup {None}
      BY <1>0, JobTyped
    <3> QED
      BY <3>1 DEF UserRows
  <2>3. JobSound(g)'
    <3>1. job[g].session \in 0 .. MaxSessions /\ (job[g].session # 0 => job[g].session \in 1 .. MaxSessions)
      BY <1>0, JobTyped
    <3>2. job[g].session # 0 /\ sessions[job[g].session].state # "none" => sessions'[job[g].session].state # "none"
      BY <3>1
    <3> QED
      BY <1>2, <2>1, <2>2, <3>2 DEF JobSound, Req, HoldsRow, Updates, Begun
  <2>4. RightsSound(g)'
    BY <1>1, <2>1 DEF RightsSound, Req, Updates, Begun
  <2> QED
    BY <2>3, <2>4
<1>7. ASSUME NEW g \in Handlers, NEW d \in Handlers PROVE Apart(g, d)'
  <2>1. CASE job'[g] # job[g] \/ job'[d] # job[d]
    BY <2>1
  <2>2. CASE job'[g] = job[g] /\ job'[d] = job[d]
    BY <1>0, <2>2 DEF Apart, Req, HoldsRow, Updates, Begun
  <2> QED
    BY <2>1, <2>2
<1> QED
  BY <1>3, <1>4, <1>5, <1>6, <1>7 DEF AuthInd

(* A step of h that changes no row: only what h knows has to be looked at. *)
LEMMA ReadStep ==
    ASSUME AuthInd, Shapes', NEW h \in Handlers,
           UNCHANGED <<user, sessions, used, demoted, bootstraps>>, begun <= begun',
           \A n \in Names : cred'[n].password = cred[n].password,
           \A g \in Handlers \ {h} : job'[g] = job[g],
           JobSound(h)', RightsSound(h)', \A g \in Handlers : Apart(g, h)' /\ Apart(h, g)'
    PROVE  AuthInd'
<1>1. \A s \in 1 .. MaxSessions : SessionSound(s)
  BY DEF AuthInd
<1>2. ASSUME NEW s \in 1 .. MaxSessions PROVE SessionSound(s)'
  BY <1>1 DEF SessionSound, Standing
<1> QED
  BY <1>2, UsersKept

(* A step that ends the request of h and changes no row. *)
LEMMA FinishStep ==
    ASSUME AuthInd, NEW h \in Handlers, Finish(h),
           UNCHANGED <<user, sessions, used, demoted, bootstraps, begun, clock, todo>>,
           cred' \in [Names -> Credentials], \A n \in Names : cred'[n].password = cred[n].password,
           faults' \in 0 .. MaxFaults
    PROVE  AuthInd'
<1>0. Shapes
  BY DEF AuthInd
<1>1. /\ job' \in [Handlers -> Jobs] /\ \A g \in Handlers \ {h} : job'[g] = job[g]
      /\ JobSound(h)' /\ RightsSound(h)'
      /\ \A g \in Handlers : Apart(g, h)' /\ Apart(h, g)'
  BY <1>0, FinishEnds
<1>2. Shapes' /\ begun <= begun'
  BY <1>0, <1>1 DEF Shapes
<1> QED
  BY <1>1, <1>2, ReadStep

(* Requests that end without a change: refused, denied, failed, chosen to break a
   deadlock, or a wrong password that is counted. *)
LEMMA EndStep ==
    ASSUME AuthInd, NEW h \in Handlers,
           \/ RateLimited(h) \/ RecordFailure(h) \/ Unauthenticated(h) \/ Fail(h) \/ DeadlockVictim(h)
    PROVE  AuthInd'
<1> USE AuthAssumption
<1>0. Shapes /\ JobSound(h)
  BY DEF AuthInd
<1>1. /\ Finish(h) /\ UNCHANGED <<user, sessions, used, demoted, bootstraps, begun, clock, todo>>
      /\ faults' \in 0 .. MaxFaults
  BY <1>0 DEF RateLimited, RecordFailure, Unauthenticated, Fail, DeadlockVictim, history, Shapes
<1>2. cred' \in [Names -> Credentials] /\ \A n \in Names : cred'[n].password = cred[n].password
  <2>1. CASE RecordFailure(h)
    <3> DEFINE n == Req(h).user
               locked == IF cred[n].failed + 1 >= FailureLimit THEN job[h].at + Lockout ELSE cred[n].locked
    <3>1. n \in Names /\ job[h].at \in Nat /\ cred[n] \in Credentials /\ cred \in [Names -> Credentials]
      BY <1>0, <2>1, JobTyped, RequestTyped DEF RecordFailure, At, JobSound, Req, Shapes
    <3>2. cred[n].failed + 1 \in Nat /\ locked \in Nat
      BY <3>1 DEF Credentials
    <3>3. cred' = [cred EXCEPT ![n].failed = cred[n].failed + 1, ![n].locked = locked]
      BY <2>1 DEF RecordFailure
    <3> HIDE DEF n, locked
    <3>4. cred'[n] = [cred[n] EXCEPT !.failed = cred[n].failed + 1, !.locked = locked]
          /\ \A m \in Names \ {n} : cred'[m] = cred[m]
      BY <3>1, <3>3
    <3>5. cred'[n] \in Credentials /\ cred'[n].password = cred[n].password
      BY <3>1, <3>2, <3>4 DEF Credentials
    <3> QED
      BY <3>1, <3>3, <3>4, <3>5
  <2>2. CASE ~ RecordFailure(h)
    BY <1>0, <2>2 DEF RateLimited, Unauthenticated, Fail, DeadlockVictim, Shapes
  <2> QED
    BY <2>1, <2>2
<1> QED
  BY <1>1, <1>2, FinishStep

(* A step on which h goes on, and only its own knowledge has to be looked at. *)
LEMMA GotoStep ==
    ASSUME AuthInd, NEW h \in Handlers, NEW p \in Steps, Moved(h, p),
           UNCHANGED <<user, cred, sessions, used, demoted, bootstraps, clock, todo, faults>>,
           begun' \in Nat, begun <= begun',
           JobSound(h)', RightsSound(h)', \A g \in Handlers : Apart(g, h)' /\ Apart(h, g)'
    PROVE  AuthInd'
<1>0. Shapes
  BY DEF AuthInd
<1>1. Shapes'
  BY <1>0 DEF Shapes, Moved
<1>2. \A g \in Handlers \ {h} : job'[g] = job[g]
  BY DEF Moved
<1> QED
  BY <1>1, <1>2, ReadStep

(* A request that is outside of any transaction holds no lock and can take no
   rights. *)
LEMMA OutsideTransaction ==
    ASSUME AuthInd, NEW h \in Handlers, NEW p, Moved(h, p), p \notin Begun \cup {"begin", "check", "bootstrap"}
    PROVE  RightsSound(h)' /\ \A g \in Handlers : Apart(g, h)' /\ Apart(h, g)'
<1>0. \A g \in Handlers : Apart(h, g)
  BY DEF AuthInd
<1>1. /\ \A g \in Handlers \ {h} : job'[g] = job[g]
      /\ job'[h].pc = p /\ job'[h].seen = job[h].seen
  BY DEF Moved
<1>2. RightsSound(h)'
  BY <1>1 DEF RightsSound, Updates, Begun
<1>3. ASSUME NEW g \in Handlers PROVE Apart(g, h)' /\ Apart(h, g)'
  <2>1. CASE g = h
    BY <1>1, <2>1 DEF Apart, Begun
  <2>2. CASE g # h
    <3>1. job'[g] = job[g] /\ Apart(h, g)
      BY <1>0, <1>1, <2>2
    <3> QED
      BY <1>1, <3>1 DEF Apart, Updates, HoldsRow, Begun
  <2> QED
    BY <2>1, <2>2
<1> QED
  BY <1>2, <1>3

(* The steps of a login and of a request with a session that lead to a change. *)
LEMMA ApproachStep ==
    ASSUME AuthInd, NEW h \in Handlers,
           \/ Allow(h) \/ Verify(h) \/ ClearFailures(h) \/ \E s \in DOMAIN sessions : Present(h, s)
    PROVE  AuthInd'
<1> USE AuthAssumption
<1>0. Shapes /\ JobSound(h)
  BY DEF AuthInd
<1>1. /\ UNCHANGED <<user, cred, sessions, used, demoted, bootstraps, begun, clock, todo, faults>>
      /\ begun' \in Nat /\ begun <= begun'
  <2>1. UNCHANGED <<user, cred, sessions, used, demoted, bootstraps, begun, clock, todo, faults>>
    <3>1. ASSUME NEW s, Present(h, s)
          PROVE  UNCHANGED <<user, cred, sessions, used, demoted, bootstraps, begun, clock, todo, faults>>
      BY <3>1 DEF Present, history
    <3>2. ASSUME Allow(h) \/ Verify(h) \/ ClearFailures(h)
          PROVE  UNCHANGED <<user, cred, sessions, used, demoted, bootstraps, begun, clock, todo, faults>>
      BY <3>2 DEF Allow, Verify, ClearFailures, history
    <3> QED
      BY <3>1, <3>2
  <2> QED
    BY <1>0, <2>1 DEF Shapes
<1>2. CASE Finish(h)
  BY <1>0, <1>1, <1>2, FinishStep DEF Shapes
<1>3. ASSUME NEW p \in {"credential", "failure", "clear", "insert", "touch"}, Moved(h, p), job[h].pc # "idle",
             p = "clear" => user[Req(h).user] # None, p = "insert" => job[h].pc = "clear",
             p = "touch" => job'[h].session # 0
      PROVE  AuthInd'
  <2>1. p \in Steps /\ p \notin Begun \cup {"begin", "check", "bootstrap"}
    BY DEF Steps, Begun
  <2>2. JobSound(h)'
    BY <1>0, <1>1, <1>3 DEF JobSound, Moved, Req, HoldsRow, Updates, Begun
  <2>3. RightsSound(h)' /\ \A g \in Handlers : Apart(g, h)' /\ Apart(h, g)'
    BY <1>3, <2>1, OutsideTransaction
  <2> QED
    BY <1>1, <1>3, <2>1, <2>2, <2>3, GotoStep
<1>4. CASE Allow(h)
  <2>1. Moved(h, "credential")
    <3>1. job[h] \in Jobs /\ job \in [Handlers -> Jobs] /\ clock \in 0 .. Horizon
      BY <1>0 DEF Shapes
    <3>2. job' = [job EXCEPT ![h].pc = "credential", ![h].at = clock]
      BY <1>4 DEF Allow
    <3>3. job'[h] = [job[h] EXCEPT !.pc = "credential", !.at = clock] /\ \A g \in Handlers \ {h} : job'[g] = job[g]
      BY <3>1, <3>2
    <3>4. job'[h] \in Jobs /\ job'[h].pc = "credential" /\ job'[h].req = job[h].req /\ job'[h].seen = job[h].seen
      BY <3>1, <3>3 DEF Jobs, Steps
    <3> QED
      BY <3>1, <3>2, <3>3, <3>4 DEF Moved
  <2> QED
    BY <1>3, <1>4, <2>1 DEF Allow, At
<1>5. CASE Verify(h)
  <2>1. ASSUME NEW p \in {"failure", "clear"}, Goto(h, p), user[Req(h).user] # None
        PROVE  AuthInd'
    <3>1. p \in Steps
      BY DEF Steps
    <3> QED
      BY <1>0, <1>3, <1>5, <2>1, <3>1, GotoMoves DEF Verify, At
  <2>2. Finish(h) \/ (user[Req(h).user] # None /\ (Goto(h, "failure") \/ Goto(h, "clear")))
    BY <1>5 DEF Verify
  <2> QED
    BY <1>2, <2>1, <2>2
<1>6. CASE ClearFailures(h)
  <2>1. job[h].pc = "clear" /\ Goto(h, "insert") /\ "insert" \in Steps
    BY <1>6 DEF ClearFailures, At, Steps
  <2>2. Moved(h, "insert")
    BY <1>0, <2>1, GotoMoves
  <2> QED
    BY <1>3, <2>1, <2>2
<1>7. CASE \E s \in DOMAIN sessions : Present(h, s)
  <2>1. PICK s \in 1 .. MaxSessions : Present(h, s)
    BY <1>0, <1>7 DEF Shapes
  <2>2. Moved(h, "touch") /\ job'[h].session = s
    <3>1. job[h] \in Jobs /\ job \in [Handlers -> Jobs] /\ clock \in 0 .. Horizon /\ s \in 0 .. MaxSessions
      BY <1>0 DEF Shapes
    <3>2. job' = [job EXCEPT ![h].pc = "touch", ![h].session = s, ![h].at = clock]
      BY <2>1 DEF Present
    <3>3. /\ job'[h] = [job[h] EXCEPT !.pc = "touch", !.session = s, !.at = clock]
          /\ \A g \in Handlers \ {h} : job'[g] = job[g]
      BY <3>1, <3>2
    <3>4. /\ job'[h] \in Jobs /\ job'[h].pc = "touch" /\ job'[h].req = job[h].req
          /\ job'[h].seen = job[h].seen /\ job'[h].session = s
      BY <3>1, <3>3 DEF Jobs, Steps
    <3> QED
      BY <3>1, <3>2, <3>3, <3>4 DEF Moved
  <2>3. job[h].pc # "idle"
    BY <2>1 DEF Present, At
  <2>4. s # 0
    OBVIOUS
  <2> QED
    BY <1>3, <2>2, <2>3, <2>4
<1> QED
  BY <1>4, <1>5, <1>6, <1>7

(* A request is taken: it is outside of any transaction, and what it was shown is
   the row as it is. *)
LEMMA TakeStep ==
    ASSUME AuthInd, NEW h \in Handlers, NEW r \in todo, Take(h, r)
    PROVE  AuthInd'
<1> USE AuthAssumption
<1>0. Shapes /\ StampsPast /\ \A g \in Handlers : JobSound(g) /\ Apart(g, h)
  BY DEF AuthInd
<1>1. /\ UNCHANGED <<user, cred, sessions, used, demoted, bootstraps, begun, clock, faults>>
      /\ todo' = todo \ {r} /\ job[h].pc = "idle"
      /\ job' = [job EXCEPT ![h] = [Blank EXCEPT !.pc = FirstStep(r.op), !.req = r, !.seen = user[r.user]]]
  BY DEF Take, At, history
<1>2. r \in Wanted /\ r.user \in Names /\ user[r.user] \in UserRows \cup {None}
  <2>1. r \in Wanted
    BY <1>0 DEF Shapes
  <2> QED
    BY <1>0, <2>1, RequestTyped DEF Shapes
<1> DEFINE j == [Blank EXCEPT !.pc = FirstStep(r.op), !.req = r, !.seen = user[r.user]]
<1>3. FirstStep(r.op) \in {"login", "present", "bootstrap_lock", "create"} \/ (FirstStep(r.op) = "begin" /\ r.op # "update")
  BY DEF FirstStep, ApiOps
<1>4. j \in Jobs /\ j.pc = FirstStep(r.op) /\ j.req = r /\ j.seen = user[r.user]
  <2>1. Blank \in Jobs /\ FirstStep(r.op) \in Steps
    BY <1>3 DEF Blank, Jobs, Steps
  <2>2. \A b \in Jobs, p \in Steps : LET k == [b EXCEPT !.pc = p, !.req = r, !.seen = user[r.user]] IN
          k \in Jobs /\ k.pc = p /\ k.req = r /\ k.seen = user[r.user]
    BY <1>2 DEF Jobs
  <2> QED
    BY <2>1, <2>2
<1>5. job' \in [Handlers -> Jobs] /\ job'[h] = j /\ \A g \in Handlers \ {h} : job'[g] = job[g]
  BY <1>0, <1>1, <1>4 DEF Shapes
<1> HIDE DEF j
<1>6. Shapes' /\ begun <= begun'
  BY <1>0, <1>1, <1>5 DEF Shapes
<1>7. JobSound(h)'
  <2>1. job'[h].pc \in {"login", "present", "bootstrap_lock", "create", "begin"} /\ job'[h].req = r
        /\ job'[h].seen = user[r.user]
    BY <1>3, <1>4, <1>5
  <2>2. user'[r.user] = user[r.user] /\ begun' = begun /\ (user[r.user] # None => user[r.user].stamp <= begun)
    BY <1>0, <1>1, <1>2 DEF StampsPast
  <2> QED
    BY <1>2, <2>1, <2>2 DEF JobSound, Req, HoldsRow, Updates, Begun
<1>8. RightsSound(h)'
  BY <1>3, <1>4, <1>5 DEF RightsSound, Req, Updates, Begun
<1>9. ASSUME NEW g \in Handlers PROVE Apart(g, h)' /\ Apart(h, g)'
  <2>1. job'[h].pc \notin Begun \cup {"check", "bootstrap"}
    BY <1>3, <1>4, <1>5 DEF Begun
  <2>2. CASE g = h
    BY <2>1, <2>2 DEF Apart
  <2>3. CASE g # h
    <3>1. job'[g] = job[g] /\ JobSound(g)
      BY <1>0, <1>5, <2>3
    <3>2. job[g].pc \in Begun /\ job'[h].seen # None => job'[h].seen.stamp # job[g].stamp
      BY <1>2, <1>4, <1>5, <3>1 DEF JobSound
    <3> QED
      BY <2>1, <3>1, <3>2 DEF Apart, Updates, HoldsRow, Begun
  <2> QED
    BY <2>2, <2>3
<1> QED
  BY <1>1, <1>5, <1>6, <1>7, <1>8, <1>9, ReadStep

(* The role is read: a request that may change users was made by an administrator. *)
LEMMA ReadRolesStep ==
    ASSUME AuthInd, NEW h \in Handlers, ReadRoles(h)
    PROVE  AuthInd'
<1> USE AuthAssumption
<1>0. Shapes /\ JobSound(h) /\ (\A s \in 1 .. MaxSessions : SessionSound(s)) /\ \A g \in Handlers : Apart(h, g)
  BY DEF AuthInd
<1>1. /\ UNCHANGED <<user, cred, sessions, used, demoted, bootstraps, begun, clock, todo, faults>>
      /\ begun' \in Nat /\ begun <= begun'
  BY <1>0 DEF ReadRoles, history, Shapes
<1>2. job[h].pc = "roles" /\ job[h].session \in 1 .. MaxSessions
  <2>1. job[h].pc = "roles"
    BY DEF ReadRoles, At
  <2>2. job[h].session \in 0 .. MaxSessions /\ job[h].session # 0
    BY <1>0, <2>1, JobTyped DEF JobSound
  <2> QED
    BY <2>1, <2>2
<1>3. CASE Finish(h)
  BY <1>0, <1>1, <1>3, FinishStep DEF Shapes
<1>4. ASSUME NEW p \in {"logout", "create"}, Goto(h, p) PROVE AuthInd'
  <2>1. p \in Steps /\ p \notin Begun \cup {"begin", "check", "bootstrap"}
    BY DEF Steps, Begun
  <2>2. Moved(h, p) /\ job'[h].session = job[h].session
    BY <1>0, <1>4, <2>1, GotoMoves
  <2>3. JobSound(h)'
    BY <1>0, <1>1, <1>2, <2>2 DEF JobSound, Moved, Req, HoldsRow, Updates, Begun
  <2>4. RightsSound(h)' /\ \A g \in Handlers : Apart(g, h)' /\ Apart(h, g)'
    BY <2>1, <2>2, OutsideTransaction
  <2> QED
    BY <1>1, <2>1, <2>2, <2>3, <2>4, GotoStep
<1>5. ASSUME Goto(h, "begin"), user[sessions[job[h].session].user].role = "administrator" PROVE AuthInd'
  <2>1. Moved(h, "begin") /\ "begin" \in Steps
    BY <1>0, <1>5, GotoMoves DEF Steps
  <2>2. sessions[job[h].session].user \in Administrators
    BY <1>0, <1>2, <1>5 DEF JobSound, SessionSound, Administrators
  <2>3. JobSound(h)'
    BY <1>0, <1>1, <1>2, <2>1 DEF JobSound, Moved, Req, HoldsRow, Updates, Begun
  <2>4. RightsSound(h)'
    <3>1. Administrators' # {}
      BY <1>1, <2>2 DEF Administrators
    <3> QED
      BY <2>1, <3>1 DEF RightsSound, Moved, Updates
  <2>5. ASSUME NEW g \in Handlers PROVE Apart(g, h)' /\ Apart(h, g)'
    <3>1. job'[h].pc = "begin" /\ job'[h].seen = job[h].seen /\ (g # h => job'[g] = job[g]) /\ Apart(h, g)
      BY <1>0, <2>1 DEF Moved
    <3> QED
      BY <3>1 DEF Apart, Updates, HoldsRow, Begun
  <2> QED
    BY <1>1, <2>1, <2>3, <2>4, <2>5, GotoStep
<1>6. \/ Finish(h) \/ Goto(h, "logout") \/ Goto(h, "create")
      \/ Goto(h, "begin") /\ user[sessions[job[h].session].user].role = "administrator"
  BY DEF ReadRoles
<1> QED
  BY <1>3, <1>4, <1>5, <1>6

(* A transaction begins: its number is on no row, and nobody was shown it. *)
LEMMA BeginStep ==
    ASSUME AuthInd, NEW h \in Handlers, Begin(h)
    PROVE  AuthInd'
<1> USE AuthAssumption
<1> DEFINE p == IF Req(h).op = "update" THEN "update_lock" ELSE "lock"
<1>0. Shapes /\ StampsPast /\ RightsSound(h) /\ \A g \in Handlers : JobSound(g) /\ Apart(g, h) /\ Apart(h, g)
  BY DEF AuthInd
<1>1. /\ UNCHANGED <<user, cred, sessions, used, demoted, bootstraps, clock, todo, faults>>
      /\ begun' = begun + 1 /\ job[h].pc = "begin"
      /\ job' = [job EXCEPT ![h].pc = p, ![h].stamp = begun + 1]
  BY DEF Begin, At, history
<1>2. begun \in Nat /\ begun' \in Nat /\ begun <= begun' /\ p \in Steps
  BY <1>0, <1>1 DEF Shapes, Steps
<1>3. Moved(h, p) /\ job'[h].stamp = begun + 1
  <2>1. job[h] \in Jobs /\ job \in [Handlers -> Jobs] /\ begun + 1 \in Nat
    BY <1>0, <1>2 DEF Shapes
  <2> HIDE DEF p
  <2>2. job'[h] = [job[h] EXCEPT !.pc = p, !.stamp = begun + 1] /\ \A g \in Handlers \ {h} : job'[g] = job[g]
    BY <1>1, <2>1
  <2>3. \A j \in Jobs : LET k == [j EXCEPT !.pc = p, !.stamp = begun + 1] IN
          k \in Jobs /\ k.pc = p /\ k.req = j.req /\ k.seen = j.seen /\ k.stamp = begun + 1
    BY <1>2, <2>1 DEF Jobs
  <2>4. /\ job'[h] \in Jobs /\ job'[h].pc = p /\ job'[h].req = job[h].req
        /\ job'[h].seen = job[h].seen /\ job'[h].stamp = begun + 1
    BY <2>1, <2>2, <2>3
  <2>5. job' \in [Handlers -> Jobs]
    BY <1>1, <2>1, <2>4
  <2> QED
    BY <2>2, <2>4, <2>5 DEF Moved
<1>4. \A n \in Names : user[n] # None => user[n].stamp \in Nat /\ user[n].stamp <= begun
  BY <1>0 DEF Shapes, UserRows, StampsPast
<1>5. \A g \in Handlers : /\ job[g].stamp \in Nat /\ (job[g].pc \in Begun => job[g].stamp <= begun)
                          /\ job[g].seen # None => job[g].seen.stamp \in Nat /\ job[g].seen.stamp <= begun
  <2> SUFFICES ASSUME NEW g \in Handlers
               PROVE  /\ job[g].stamp \in Nat /\ (job[g].pc \in Begun => job[g].stamp <= begun)
                      /\ job[g].seen # None => job[g].seen.stamp \in Nat /\ job[g].seen.stamp <= begun
    OBVIOUS
  <2>1. job[g].stamp \in Nat /\ job[g].seen \in UserRows \cup {None} /\ JobSound(g)
    BY <1>0, JobTyped
  <2> QED
    BY <2>1 DEF JobSound, UserRows
<1>6. JobSound(h)'
  <2>1. /\ job'[h].pc \in {"update_lock", "lock"} /\ (job'[h].pc = "update_lock" => Req(h).op = "update")
        /\ job'[h].req = job[h].req /\ job'[h].seen = job[h].seen /\ JobSound(h)
    BY <1>0, <1>3 DEF Moved
  <2> HIDE DEF p
  <2>2. \A m \in Names : user'[m] # None => user'[m].stamp # job'[h].stamp
    BY <1>1, <1>2, <1>3, <1>4
  <2>3. job[h].seen # None => job[h].seen.stamp <= begun'
    BY <1>1, <1>2, <1>5
  <2>4. job'[h].stamp <= begun'
    BY <1>1, <1>2, <1>3
  <2> QED
    BY <1>1, <2>1, <2>2, <2>3, <2>4 DEF JobSound, Req, HoldsRow, Updates, Begun
<1>7. RightsSound(h)'
  <2>1. Administrators' = Administrators
    BY <1>1 DEF Administrators
  <2> QED
    BY <1>0, <1>1, <1>3, <2>1 DEF RightsSound, Moved, Req, Updates, Begun
<1>8. ASSUME NEW g \in Handlers PROVE Apart(g, h)' /\ Apart(h, g)'
  <2>1. /\ job'[h].pc \in {"update_lock", "lock"} /\ (job'[h].pc = "lock" => Req(h).op # "update")
        /\ job'[h].req = job[h].req /\ job'[h].seen = job[h].seen
    BY <1>3 DEF Moved
  <2> HIDE DEF p
  <2>2. job[g].seen # None => job[g].seen.stamp # job'[h].stamp
    BY <1>2, <1>3, <1>5
  <2>3. CASE g = h
    BY <2>1, <2>2, <2>3 DEF Apart
  <2>4. CASE g # h
    <3>1. job'[g] = job[g] /\ Apart(h, g)
      BY <1>0, <1>3, <2>4 DEF Moved
    <3>2. job[g].pc \in Begun => job[g].stamp # job'[h].stamp
      BY <1>2, <1>3, <1>5
    <3> QED
      BY <2>1, <2>2, <3>1, <3>2 DEF Apart, Req, Updates, HoldsRow
  <2> QED
    BY <2>3, <2>4
<1> HIDE DEF p
<1> QED
  BY <1>1, <1>2, <1>3, <1>6, <1>7, <1>8, GotoStep

(* UpdateManagedUser has its lock to itself. *)
LEMMA LockUpdatesStep ==
    ASSUME AuthInd, NEW h \in Handlers, LockUpdates(h)
    PROVE  AuthInd'
<1> USE AuthAssumption
<1>0. Shapes /\ RightsSound(h) /\ JobSound(h) /\ \A g \in Handlers : JobSound(g) /\ Apart(g, h) /\ Apart(h, g)
  BY DEF AuthInd
<1>1. /\ UNCHANGED <<user, cred, sessions, used, demoted, bootstraps, begun, clock, todo, faults>>
      /\ job[h].pc = "update_lock" /\ UpdateLockFree(h) /\ Goto(h, "select") /\ begun' \in Nat /\ begun <= begun'
  BY <1>0 DEF LockUpdates, At, history, Shapes
<1>2. Moved(h, "select") /\ job'[h].stamp = job[h].stamp /\ "select" \in Steps
  BY <1>0, <1>1, GotoMoves DEF Steps
<1>3. JobSound(h)'
  BY <1>0, <1>1, <1>2 DEF JobSound, Moved, Req, HoldsRow, Updates, Begun
<1>4. RightsSound(h)'
  <2>1. Administrators' = Administrators
    BY <1>1 DEF Administrators
  <2> QED
    BY <1>0, <1>1, <1>2, <2>1 DEF RightsSound, Moved, Req, Updates, Begun
<1>5. ASSUME NEW g \in Handlers PROVE Apart(g, h)' /\ Apart(h, g)'
  <2>1. job'[h].pc = "select" /\ job'[h].req = job[h].req /\ job'[h].seen = job[h].seen /\ job'[h].stamp = job[h].stamp
    BY <1>2 DEF Moved
  <2>2. CASE g = h
    BY <1>0, <1>1, <2>1, <2>2 DEF Apart, Begun
  <2>3. CASE g # h
    <3>1. job'[g] = job[g] /\ Apart(h, g) /\ Apart(g, h)
      BY <1>0, <1>2, <2>3 DEF Moved
    <3>2. ~ Updates(g, {"select", "lock", "count", "write"})
      <4>1. job[g].pc # "idle" => Req(g) # None
        <5>1. job[g].pc # "idle" => Req(g) \in Wanted
          BY <1>0 DEF JobSound
        <5> QED
          BY <5>1, RequestTyped
      <4> QED
        BY <1>1, <2>3, <4>1 DEF UpdateLockFree, Updates
    <3> QED
      BY <1>1, <2>1, <3>1, <3>2 DEF Apart, Req, Updates, HoldsRow, Begun
  <2> QED
    BY <2>2, <2>3
<1> QED
  BY <1>1, <1>2, <1>3, <1>4, <1>5, GotoStep

(* The role is read: if it is not that of an administrator, there is another one,
   who was asked for the update. *)
LEMMA ReadRoleStep ==
    ASSUME AuthInd, NEW h \in Handlers, ReadRole(h)
    PROVE  AuthInd'
<1> USE AuthAssumption
<1> DEFINE n == Req(h).user
           role == IF user[n] = None THEN None ELSE user[n].role
<1>0. /\ Shapes /\ AdministratorRemains /\ RightsSound(h) /\ JobSound(h)
      /\ \A g \in Handlers : Apart(g, h) /\ Apart(h, g)
  BY DEF AuthInd
<1>1. /\ UNCHANGED <<user, cred, sessions, used, demoted, bootstraps, begun, clock, todo, faults>>
      /\ job[h].pc = "select" /\ begun' \in Nat /\ begun <= begun'
      /\ job' = [job EXCEPT ![h].pc = "lock", ![h].role = role]
  BY <1>0 DEF ReadRole, At, history, Shapes
<1>2. n \in Names /\ role \in Roles \cup {None} /\ Req(h).op = "update"
  <2>1. Req(h) \in Wanted /\ Req(h).op = "update"
    BY <1>0, <1>1 DEF JobSound
  <2>2. n \in Names
    BY <2>1, RequestTyped
  <2>3. user[n] \in UserRows \cup {None}
    BY <1>0, <2>2 DEF Shapes
  <2> QED
    BY <2>1, <2>2, <2>3 DEF UserRows
<1>3. Moved(h, "lock") /\ job'[h].stamp = job[h].stamp /\ job'[h].role = role /\ "lock" \in Steps
  <2>1. job[h] \in Jobs /\ job \in [Handlers -> Jobs] /\ "lock" \in Steps
    BY <1>0 DEF Shapes, Steps
  <2> HIDE DEF role
  <2>2. job'[h] = [job[h] EXCEPT !.pc = "lock", !.role = role] /\ \A g \in Handlers \ {h} : job'[g] = job[g]
    BY <1>1, <2>1
  <2>3. /\ job'[h] \in Jobs /\ job'[h].pc = "lock" /\ job'[h].req = job[h].req
        /\ job'[h].seen = job[h].seen /\ job'[h].stamp = job[h].stamp /\ job'[h].role = role
    BY <1>2, <2>1, <2>2 DEF Jobs
  <2>4. job' \in [Handlers -> Jobs]
    <3>1. DOMAIN job' = Handlers /\ job' = [g \in Handlers |-> job'[g]]
      BY <1>1, <2>1
    <3> QED
      BY <2>1, <2>2, <2>3, <3>1
  <2> QED
    BY <2>1, <2>2, <2>3, <2>4 DEF Moved
<1>4. JobSound(h)'
  BY <1>0, <1>1, <1>3 DEF JobSound, Moved, Req, HoldsRow, Updates, Begun
<1>5. RightsSound(h)'
  <2>1. Administrators' = Administrators /\ EnabledAdministrators' = EnabledAdministrators
    BY <1>1 DEF Administrators, EnabledAdministrators
  <2>2. job'[h].pc = "lock" /\ Req(h)' = Req(h) /\ job'[h].role = role /\ demoted' = demoted
    BY <1>1, <1>3 DEF Moved, Req
  <2>3. demoted \/ (Administrators # {} /\ EnabledAdministrators # {})
    BY <1>0, <1>1, <1>2 DEF RightsSound, Updates, Begun, AdministratorRemains
  <2>4. role = "administrator" \/ EnabledAdministrators \ {n} = EnabledAdministrators
    BY DEF Administrators, EnabledAdministrators
  <2>5. role = "administrator" => demoted \/ n \in Administrators
    <3>1. None # "administrator"
      BY DEF Roles
    <3> QED
      BY <1>2, <3>1 DEF Administrators
  <2> HIDE DEF role
  <2> QED
    BY <2>1, <2>2, <2>3, <2>4, <2>5 DEF RightsSound, Updates, Begun
<1>6. ASSUME NEW g \in Handlers PROVE Apart(g, h)' /\ Apart(h, g)'
  <2>1. job'[h].pc = "lock" /\ job'[h].req = job[h].req /\ job'[h].seen = job[h].seen /\ job'[h].stamp = job[h].stamp
    BY <1>3 DEF Moved
  <2> HIDE DEF role
  <2>2. CASE g = h
    BY <1>0, <1>1, <2>1, <2>2 DEF Apart, Begun
  <2>3. CASE g # h
    <3>1. job'[g] = job[g] /\ Apart(h, g) /\ Apart(g, h)
      BY <1>0, <1>3, <2>3 DEF Moved
    <3> QED
      BY <1>1, <1>2, <2>1, <3>1 DEF Apart, Req, Updates, HoldsRow, Begun
  <2> QED
    BY <2>2, <2>3
<1> HIDE DEF role
<1> QED
  BY <1>1, <1>3, <1>4, <1>5, <1>6, GotoStep

(* The row is locked for h alone; an update goes on with the row it was shown, and
   without counting only if it takes no rights, there are none to take, or the role
   it read was not that of an administrator. *)
LEMMA LockUserStep ==
    ASSUME AuthInd, NEW h \in Handlers, LockUser(h)
    PROVE  AuthInd'
<1> USE AuthAssumption
<1> DEFINE n == Req(h).user
<1>0. /\ Shapes /\ RightsSound(h) /\ JobSound(h)
      /\ \A g \in Handlers : Apart(g, h) /\ Apart(h, g)
  BY DEF AuthInd
<1>1. /\ UNCHANGED <<user, cred, sessions, used, demoted, bootstraps, begun, clock, todo, faults>>
      /\ job[h].pc = "lock" /\ RowFree(h, n) /\ begun' \in Nat /\ begun <= begun'
  BY <1>0 DEF LockUser, At, history, Shapes
<1>2. \/ Finish(h)
      \/ /\ user[n] # None /\ Req(h).op # "update" /\ Goto(h, "write")
      \/ /\ user[n] # None /\ Req(h).op = "update" /\ job[h].seen # None /\ user[n].stamp = job[h].seen.stamp
         /\ \/ Goto(h, "count")
            \/ /\ Goto(h, "write")
               /\ job[h].role # "administrator" \/ ~ user[n].enabled \/ ~ TakesRights(Req(h))
  BY DEF LockUser, ETagCurrent
<1>3. CASE Finish(h)
  BY <1>0, <1>1, <1>3, FinishStep DEF Shapes
<1>4. ASSUME NEW p \in {"count", "write"}, Goto(h, p), user[n] # None,
             p = "count" => Req(h).op = "update",
             Req(h).op = "update" => job[h].seen # None /\ user[n].stamp = job[h].seen.stamp,
             (Req(h).op = "update" /\ p = "write") =>
                job[h].role # "administrator" \/ ~ user[n].enabled \/ ~ TakesRights(Req(h))
      PROVE  AuthInd'
  <2>1. Moved(h, p) /\ job'[h].stamp = job[h].stamp /\ job'[h].role = job[h].role /\ p \in Steps
    <3>1. p \in Steps
      BY DEF Steps
    <3> QED
      BY <1>0, <1>4, <3>1, GotoMoves
  <2>2. /\ job'[h].pc = p /\ job'[h].req = job[h].req /\ job'[h].seen = job[h].seen
        /\ job'[h].stamp = job[h].stamp /\ job'[h].role = job[h].role
    BY <2>1 DEF Moved
  <2>3. JobSound(h)'
    BY <1>0, <1>1, <1>4, <2>2 DEF JobSound, Req, HoldsRow, Updates, Begun
  <2>4. RightsSound(h)'
    <3>1. Administrators' = Administrators /\ EnabledAdministrators' = EnabledAdministrators
      BY <1>1 DEF Administrators, EnabledAdministrators
    <3>2. TakesRights(Req(h))' = TakesRights(Req(h))
      BY <2>2 DEF TakesRights, Req
    <3> QED
      BY <1>0, <1>1, <1>4, <2>2, <3>1, <3>2 DEF RightsSound, Req, Updates, Begun
  <2>5. ASSUME NEW g \in Handlers PROVE Apart(g, h)' /\ Apart(h, g)'
    <3>1. CASE g = h
      BY <1>0, <1>1, <2>2, <3>1 DEF Apart, Begun
    <3>2. CASE g # h
      <4>1. job'[g] = job[g] /\ Apart(h, g) /\ Apart(g, h)
        BY <1>0, <2>1, <3>2 DEF Moved
      <4>2. HoldsRow(g) => Req(g).user # n
        BY <1>1, <3>2 DEF RowFree, HoldsRow
      <4> QED
        BY <1>1, <1>4, <2>2, <4>1, <4>2 DEF Apart, Req, Updates, HoldsRow, Begun
    <3> QED
      BY <3>1, <3>2
  <2> QED
    BY <1>1, <2>1, <2>3, <2>4, <2>5, GotoStep
<1> HIDE DEF n
<1> QED
  BY <1>2, <1>3, <1>4

(* The update that takes an administrator's rights has found another one. *)
LEMMA CountStep ==
    ASSUME AuthInd, NEW h \in Handlers, CountAdministrators(h)
    PROVE  AuthInd'
<1> USE AuthAssumption
<1>0. /\ Shapes /\ RightsSound(h) /\ JobSound(h)
      /\ \A g \in Handlers : Apart(g, h) /\ Apart(h, g)
  BY DEF AuthInd
<1>1. /\ UNCHANGED <<user, cred, sessions, used, demoted, bootstraps, begun, clock, todo, faults>>
      /\ job[h].pc = "count" /\ begun' \in Nat /\ begun <= begun'
  BY <1>0 DEF CountAdministrators, At, history, Shapes
<1>2. CASE EnabledAdministrators \subseteq {Req(h).user}
  BY <1>0, <1>1, <1>2, FinishStep DEF CountAdministrators, Shapes
<1>3. CASE ~ (EnabledAdministrators \subseteq {Req(h).user})
  <2>1. Moved(h, "write") /\ job'[h].stamp = job[h].stamp /\ job'[h].role = job[h].role /\ "write" \in Steps
    <3>1. "write" \in Steps /\ Goto(h, "write")
      BY <1>3 DEF Steps, CountAdministrators
    <3> QED
      BY <1>0, <3>1, GotoMoves
  <2>2. /\ job'[h].pc = "write" /\ job'[h].req = job[h].req /\ job'[h].seen = job[h].seen
        /\ job'[h].stamp = job[h].stamp /\ job'[h].role = job[h].role
    BY <2>1 DEF Moved
  <2>3. JobSound(h)'
    BY <1>0, <1>1, <2>2 DEF JobSound, Req, HoldsRow, Updates, Begun
  <2>4. RightsSound(h)'
    <3>1. Administrators' = Administrators /\ EnabledAdministrators' = EnabledAdministrators
      BY <1>1 DEF Administrators, EnabledAdministrators
    <3>2. EnabledAdministrators \ {Req(h).user} # {}
      BY <1>3
    <3> QED
      BY <1>0, <1>1, <2>2, <3>1, <3>2 DEF RightsSound, Req, Updates, Begun
  <2>5. ASSUME NEW g \in Handlers PROVE Apart(g, h)' /\ Apart(h, g)'
    <3>1. CASE g = h
      BY <1>0, <1>1, <2>2, <3>1 DEF Apart, Begun
    <3>2. CASE g # h
      <4>1. job'[g] = job[g] /\ Apart(h, g) /\ Apart(g, h)
        BY <1>0, <2>1, <3>2 DEF Moved
      <4> QED
        BY <1>0, <1>1, <2>2, <4>1 DEF Apart, Req, Updates, HoldsRow, Begun
    <3> QED
      BY <3>1, <3>2
  <2> QED
    BY <1>1, <2>1, <2>3, <2>4, <2>5, GotoStep
<1> QED
  BY <1>2, <1>3

(* A bootstrap takes its lock and looks for an administrator: if it finds none, no
   bootstrap has succeeded before, unless a command took an administrator's rights. *)
LEMMA CheckStep ==
    ASSUME AuthInd, NEW h \in Handlers, LockBootstrap(h) \/ CheckBootstrap(h)
    PROVE  AuthInd'
<1> USE AuthAssumption
<1>0. /\ Shapes /\ BootstrapMade /\ JobSound(h)
      /\ \A g \in Handlers : Apart(g, h) /\ Apart(h, g)
  BY DEF AuthInd
<1>1. /\ UNCHANGED <<user, cred, sessions, used, demoted, bootstraps, begun, clock, todo, faults>>
      /\ begun' \in Nat /\ begun <= begun'
  BY <1>0 DEF LockBootstrap, CheckBootstrap, history, Shapes
<1>2. CASE Finish(h)
  BY <1>0, <1>1, <1>2, FinishStep DEF Shapes
<1>3. ASSUME NEW p \in {"check", "bootstrap"}, Goto(h, p), job[h].pc # "idle",
             p = "check" => BootstrapLockFree(h),
             p = "bootstrap" => job[h].pc = "check" /\ Administrators = {}
      PROVE  AuthInd'
  <2>1. p \in Steps
    BY DEF Steps
  <2>2. Moved(h, p)
    BY <1>0, <1>3, <2>1, GotoMoves
  <2>3. job'[h].pc = p /\ job'[h].req = job[h].req /\ job'[h].seen = job[h].seen
    BY <2>2 DEF Moved
  <2>4. JobSound(h)'
    BY <1>0, <1>1, <1>3, <2>3 DEF JobSound, Req, HoldsRow, Updates, Begun
  <2>5. RightsSound(h)'
    <3>1. p = "bootstrap" => demoted \/ bootstraps = 0
      <4>1. bootstraps \in Nat
        BY <1>0 DEF Shapes
      <4> QED
        BY <1>0, <1>3, <4>1 DEF BootstrapMade
    <3> QED
      BY <1>1, <2>3, <3>1 DEF RightsSound, Updates, Begun
  <2>6. ASSUME NEW g \in Handlers PROVE Apart(g, h)' /\ Apart(h, g)'
    <3>1. CASE g = h
      BY <2>3, <3>1 DEF Apart, Begun
    <3>2. CASE g # h
      <4>1. job'[g] = job[g] /\ Apart(h, g) /\ Apart(g, h)
        BY <1>0, <2>2, <3>2 DEF Moved
      <4>2. job[g].pc \notin {"check", "bootstrap"}
        BY <1>3, <3>2, <4>1 DEF BootstrapLockFree, Apart
      <4> QED
        BY <2>3, <4>1, <4>2 DEF Apart, Updates, HoldsRow, Begun
    <3> QED
      BY <3>1, <3>2
  <2> QED
    BY <1>1, <2>1, <2>2, <2>4, <2>5, <2>6, GotoStep
<1>4. CASE LockBootstrap(h)
  BY <1>3, <1>4 DEF LockBootstrap, At
<1>5. CASE CheckBootstrap(h)
  BY <1>2, <1>3, <1>5 DEF CheckBootstrap, At
<1> QED
  BY <1>4, <1>5

-----------------------------------------------------------------------------
(* A session keeps its user and its making, and is as it was or no longer live. *)
LEMMA SessionsEnded ==
    ASSUME AuthInd, Shapes', UNCHANGED <<user, used>>, NEW s \in 1 .. MaxSessions,
           \/ sessions'[s] = sessions[s] /\ cred'[sessions[s].user].password = cred[sessions[s].user].password
           \/ sessions'[s].state # "live" /\ sessions'[s].user = sessions[s].user
              /\ (sessions[s].state = "none" <=> sessions'[s].state = "none")
    PROVE  SessionSound(s)'
<1>1. SessionSound(s)
  BY DEF AuthInd
<1> QED
  BY <1>1 DEF SessionSound, Standing

(* What revoking and deleting do to a session. *)
LEMMA EndedSession ==
    ASSUME NEW row \in SessionRows, clock \in Nat
    PROVE  /\ Revoked(row) \in SessionRows /\ Revoked(row).state # "live" /\ Revoked(row).user = row.user
           /\ Revoked(row).state = "none" <=> row.state = "none"
           /\ [row EXCEPT !.state = "deleted"] \in SessionRows
           /\ [row EXCEPT !.state = "deleted"].user = row.user
           /\ [row EXCEPT !.state = "deleted"].state = "deleted"
<1>1. CASE row.state = "live"
  BY <1>1 DEF Revoked, SessionRows
<1>2. CASE row.state # "live"
  BY <1>2 DEF Revoked, SessionRows
<1> QED
  BY <1>1, <1>2

(* RevokeSessions leaves no live session of the user, and the others alone. *)
LEMMA SessionsRevoked ==
    ASSUME Shapes, NEW n, RevokeSessions(n)
    PROVE  /\ sessions' \in [1 .. MaxSessions -> SessionRows]
           /\ \A s \in 1 .. MaxSessions :
                 IF sessions[s].user = n
                 THEN sessions'[s].state # "live" /\ sessions'[s].user = sessions[s].user
                      /\ (sessions'[s].state = "none" <=> sessions[s].state = "none")
                 ELSE sessions'[s] = sessions[s]
<1>1. DOMAIN sessions = 1 .. MaxSessions /\ clock \in Nat /\ \A s \in 1 .. MaxSessions : sessions[s] \in SessionRows
  BY DEF Shapes
<1>2. sessions' = [s \in 1 .. MaxSessions |-> IF sessions[s].user = n THEN Revoked(sessions[s]) ELSE sessions[s]]
  BY <1>1 DEF RevokeSessions
<1>3. \A s \in 1 .. MaxSessions :
        /\ Revoked(sessions[s]) \in SessionRows /\ Revoked(sessions[s]).state # "live"
        /\ Revoked(sessions[s]).user = sessions[s].user
        /\ Revoked(sessions[s]).state = "none" <=> sessions[s].state = "none"
  BY <1>1, EndedSession
<1> QED
  BY <1>1, <1>2, <1>3

(* A session is used: its idle expiry follows the reading of the clock. *)
LEMMA TouchStep ==
    ASSUME AuthInd, NEW h \in Handlers, Touch(h)
    PROVE  AuthInd'
<1> USE AuthAssumption
<1> DEFINE s == job[h].session
           at == job[h].at
           row == [sessions[s] EXCEPT !.expires = Least(at + Idle, sessions[s].absolute)]
           last == IF at > used[s] THEN at ELSE used[s]
<1>0. Shapes /\ JobSound(h) /\ \A t \in 1 .. MaxSessions : SessionSound(t)
  BY DEF AuthInd
<1>1. /\ job[h].pc = "touch" /\ sessions[s].state = "live" /\ Goto(h, "roles")
      /\ sessions' = [sessions EXCEPT ![s] = row] /\ used' = [used EXCEPT ![s] = last]
      /\ UNCHANGED <<clock, begun, user, cred, todo, faults, bootstraps, demoted>>
  BY DEF Touch, At, Acceptable
<1>2. s \in 1 .. MaxSessions /\ at \in Nat /\ sessions[s] \in SessionRows /\ used[s] \in Nat /\ Idle \in Nat
  <2>1. s \in 0 .. MaxSessions /\ s # 0 /\ at \in Nat
    BY <1>0, <1>1, JobTyped DEF JobSound
  <2> QED
    BY <1>0, <2>1 DEF Shapes
<1>3. /\ row \in SessionRows /\ row.expires <= at + Idle /\ row.user = sessions[s].user
      /\ row.state = sessions[s].state /\ row.under = sessions[s].under
  <2> HIDE DEF s, at
  <2>1. Least(at + Idle, sessions[s].absolute) \in Nat /\ Least(at + Idle, sessions[s].absolute) <= at + Idle
    BY <1>2 DEF Least, SessionRows
  <2> QED
    BY <1>2, <2>1 DEF SessionRows
<1>4. last \in Nat /\ at + Idle <= last + Idle
  BY <1>2
<1>5. Moved(h, "roles") /\ job'[h].session = s /\ "roles" \in Steps
  <2>1. "roles" \in Steps
    BY DEF Steps
  <2> QED
    BY <1>0, <1>1, <2>1, GotoMoves
<1> HIDE DEF s, at, row, last
<1>6. Shapes'
  BY <1>0, <1>1, <1>2, <1>3, <1>4, <1>5 DEF Shapes, Moved
<1>7. ASSUME NEW t \in 1 .. MaxSessions
      PROVE  SessionSound(t)' /\ (sessions[t].state # "none" => sessions'[t].state # "none")
  <2>1. SessionSound(t)
    BY <1>0
  <2>2. CASE t = s
    <3>1. sessions'[t] = row /\ used'[t] = last
      BY <1>0, <1>1, <1>2, <2>2 DEF Shapes
    <3>2. row.expires \in Nat
      BY <1>3 DEF SessionRows
    <3>3. row.expires <= last + Idle
      BY <1>2, <1>3, <1>4, <3>2
    <3> QED
      BY <1>1, <1>3, <2>1, <2>2, <3>1, <3>3 DEF SessionSound, Standing
  <2>3. CASE t # s
    <3>1. sessions'[t] = sessions[t] /\ used'[t] = used[t]
      BY <1>0, <1>1, <1>2, <2>3 DEF Shapes
    <3> QED
      BY <1>1, <2>1, <3>1 DEF SessionSound, Standing
  <2> QED
    BY <2>2, <2>3
<1>8. JobSound(h)'
  <2>1. sessions'[s].state # "none" /\ s # 0
    BY <1>1, <1>2, <1>7
  <2> QED
    BY <1>0, <1>1, <1>5, <2>1 DEF JobSound, Moved, Req, HoldsRow, Updates, Begun
<1>9. RightsSound(h)' /\ \A g \in Handlers : Apart(g, h)' /\ Apart(h, g)'
  <2>1. "roles" \notin Begun \cup {"begin", "check", "bootstrap"}
    BY DEF Begun
  <2> QED
    BY <1>5, <2>1, OutsideTransaction
<1>10. begun <= begun' /\ \A g \in Handlers \ {h} : job'[g] = job[g]
  BY <1>0, <1>1, <1>5 DEF Shapes, Moved
<1> QED
  BY <1>1, <1>6, <1>7, <1>8, <1>9, <1>10, UsersKept

(* A login creates a session under what the user is at that moment. *)
LEMMA CreateSessionStep ==
    ASSUME AuthInd, NEW h \in Handlers, CreateSession(h)
    PROVE  AuthInd'
<1> USE AuthAssumption
<1> DEFINE n == Req(h).user
           row == NewSession(n, job[h].at, Standing(user[n], cred[n].password))
<1>0. Shapes /\ JobSound(h) /\ \A t \in 1 .. MaxSessions : SessionSound(t)
  BY DEF AuthInd
<1>1. PICK s \in Unused : /\ job[h].pc = "insert" /\ Finish(h) /\ cred' = Cleared(n)
                          /\ sessions' = [sessions EXCEPT ![s] = row] /\ used' = [used EXCEPT ![s] = job[h].at]
                          /\ UNCHANGED <<clock, begun, user, todo, faults, bootstraps, demoted>>
  BY DEF CreateSession, At
<1>2. /\ n \in Names /\ user[n] \in UserRows /\ cred[n] \in Credentials /\ job[h].at \in Nat
      /\ s \in 1 .. MaxSessions /\ Idle \in Nat /\ Absolute \in Nat
  <2>1. Req(h) \in Wanted /\ user[n] # None
    BY <1>0, <1>1 DEF JobSound
  <2>2. n \in Names
    BY <2>1, RequestTyped
  <2>3. job[h].at \in Nat
    BY <1>0, JobTyped
  <2>4. s \in 1 .. MaxSessions
    BY <1>0 DEF Unused, Shapes
  <2> QED
    BY <1>0, <2>1, <2>2, <2>3, <2>4 DEF Shapes
<1>3. Standing(user[n], cred[n].password) \in Standings
  BY <1>2 DEF Standing, Standings, UserRows, Credentials
<1>4. /\ row \in SessionRows /\ row.user = n /\ row.state = "live" /\ row.expires = job[h].at + Idle
      /\ row.under = Standing(user[n], cred[n].password)
  <2> HIDE DEF n
  <2> QED
    BY <1>2, <1>3 DEF NewSession, SessionRows
<1> HIDE DEF n, row
<1>5. /\ cred' \in [Names -> Credentials] /\ \A m \in Names : cred'[m].password = cred[m].password
  <2>1. cred \in [Names -> Credentials] /\ cred' = [cred EXCEPT ![n].failed = 0, ![n].locked = 0]
    BY <1>0, <1>1 DEF Shapes, Cleared
  <2>2. cred'[n] = [cred[n] EXCEPT !.failed = 0, !.locked = 0] /\ \A m \in Names \ {n} : cred'[m] = cred[m]
    BY <1>2, <2>1
  <2>3. \A c \in Credentials : LET k == [c EXCEPT !.failed = 0, !.locked = 0] IN
          k \in Credentials /\ k.password = c.password
    BY DEF Credentials
  <2>4. cred'[n] \in Credentials /\ cred'[n].password = cred[n].password
    BY <1>2, <2>2, <2>3
  <2> QED
    BY <1>2, <2>1, <2>2, <2>4
<1>6. /\ job' \in [Handlers -> Jobs] /\ \A g \in Handlers \ {h} : job'[g] = job[g]
      /\ JobSound(h)' /\ RightsSound(h)' /\ \A g \in Handlers : Apart(g, h)' /\ Apart(h, g)'
  BY <1>0, <1>1, FinishEnds
<1>7. Shapes' /\ begun <= begun'
  <2>1. sessions' \in [1 .. MaxSessions -> SessionRows] /\ used' \in [1 .. MaxSessions -> Nat]
    BY <1>0, <1>1, <1>2, <1>4 DEF Shapes
  <2> QED
    BY <1>0, <1>1, <1>5, <1>6, <2>1 DEF Shapes
<1>8. ASSUME NEW t \in 1 .. MaxSessions
      PROVE  SessionSound(t)' /\ (sessions[t].state # "none" => sessions'[t].state # "none")
  <2>1. SessionSound(t)
    BY <1>0
  <2>2. CASE t = s
    <3>1. sessions'[t] = row /\ used'[t] = job[h].at
      BY <1>0, <1>1, <1>2, <2>2 DEF Shapes
    <3>2. user'[n] = user[n] /\ user[n] # None /\ cred'[n].password = cred[n].password
      BY <1>1, <1>2, <1>5 DEF UserRows
    <3>3. row.expires <= job[h].at + Idle
      BY <1>2, <1>4
    <3> QED
      BY <1>2, <1>4, <3>1, <3>2, <3>3 DEF SessionSound, Standing
  <2>3. CASE t # s
    <3>1. sessions'[t] = sessions[t] /\ used'[t] = used[t]
      BY <1>0, <1>1, <1>2, <2>3 DEF Shapes
    <3> QED
      BY <1>1, <1>5, <2>1, <3>1 DEF SessionSound, Standing
  <2> QED
    BY <2>2, <2>3
<1> QED
  BY <1>1, <1>6, <1>7, <1>8, UsersKept

(* Sessions end: by logout, or with all the sessions of a user whose password is
   replaced. *)
LEMMA RevokeStep ==
    ASSUME AuthInd, NEW h \in Handlers, Logout(h) \/ ResetPassword(h)
    PROVE  AuthInd'
<1> USE AuthAssumption
<1>0. Shapes /\ JobSound(h)
  BY DEF AuthInd
<1>1. /\ Finish(h) /\ UNCHANGED <<clock, begun, user, used, todo, faults, bootstraps, demoted>>
  BY DEF Logout, ResetPassword, history
<1>2. /\ job' \in [Handlers -> Jobs] /\ \A g \in Handlers \ {h} : job'[g] = job[g]
      /\ JobSound(h)' /\ RightsSound(h)' /\ \A g \in Handlers : Apart(g, h)' /\ Apart(h, g)'
  BY <1>0, <1>1, FinishEnds
<1>3. /\ sessions' \in [1 .. MaxSessions -> SessionRows] /\ cred' \in [Names -> Credentials]
      /\ \A t \in 1 .. MaxSessions :
            \/ /\ sessions'[t] = sessions[t]
               /\ cred'[sessions[t].user].password = cred[sessions[t].user].password
            \/ /\ sessions'[t].state # "live" /\ sessions'[t].user = sessions[t].user
               /\ sessions[t].state = "none" <=> sessions'[t].state = "none"
  <2>1. CASE Logout(h)
    <3> DEFINE s == job[h].session
    <3>1. s \in 1 .. MaxSessions
      <4>1. s \in 0 .. MaxSessions /\ s # 0
        BY <1>0, <2>1, JobTyped DEF JobSound, Logout, At
      <4> QED
        BY <4>1
    <3>2. /\ sessions[s] \in SessionRows /\ sessions \in [1 .. MaxSessions -> SessionRows]
          /\ cred \in [Names -> Credentials] /\ clock \in Nat
      BY <1>0, <3>1 DEF Shapes
    <3>3. sessions' = [sessions EXCEPT ![s] = Revoked(sessions[s])] /\ cred' = cred
      BY <2>1 DEF Logout
    <3>4. /\ Revoked(sessions[s]) \in SessionRows /\ Revoked(sessions[s]).state # "live"
          /\ Revoked(sessions[s]).user = sessions[s].user
          /\ Revoked(sessions[s]).state = "none" <=> sessions[s].state = "none"
      BY <3>2, EndedSession
    <3> HIDE DEF s
    <3> QED
      BY <3>1, <3>2, <3>3, <3>4
  <2>2. CASE ResetPassword(h)
    <3> DEFINE n == Req(h).user
    <3>1. Req(h) \in Wanted /\ n \in Names /\ Req(h).password \in Passwords
      <4>1. Req(h) \in Wanted
        BY <1>0, <2>2 DEF JobSound, ResetPassword, At
      <4> QED
        BY <4>1, RequestTyped
    <3>2. FreshCredential(Req(h).password) \in Credentials
      BY <3>1 DEF FreshCredential, Credentials
    <3>3. cred' = [cred EXCEPT ![n] = FreshCredential(Req(h).password)] /\ RevokeSessions(n)
      BY <2>2 DEF ResetPassword
    <3> HIDE DEF n
    <3>4. cred' \in [Names -> Credentials]
      BY <1>0, <3>1, <3>2, <3>3 DEF Shapes
    <3>5. \A m : m # n => cred'[m] = cred[m]
      BY <1>0, <3>1, <3>3 DEF Shapes
    <3>6. /\ sessions' \in [1 .. MaxSessions -> SessionRows]
          /\ \A t \in 1 .. MaxSessions :
                IF sessions[t].user = n
                THEN sessions'[t].state # "live" /\ sessions'[t].user = sessions[t].user
                     /\ (sessions'[t].state = "none" <=> sessions[t].state = "none")
                ELSE sessions'[t] = sessions[t]
      BY <1>0, <3>3, SessionsRevoked
    <3> QED
      BY <3>4, <3>5, <3>6
  <2> QED
    BY <2>1, <2>2
<1>4. Shapes' /\ begun <= begun'
  BY <1>0, <1>1, <1>2, <1>3 DEF Shapes
<1>5. ASSUME NEW t \in 1 .. MaxSessions
      PROVE  SessionSound(t)' /\ (sessions[t].state # "none" => sessions'[t].state # "none")
  BY <1>1, <1>3, <1>4, SessionsEnded
<1> QED
  BY <1>1, <1>2, <1>4, <1>5, UsersKept

(* Expired sessions are deleted, and the clock goes on. *)
LEMMA IdleStep ==
    ASSUME AuthInd, DeleteExpiredSessions \/ Tick
    PROVE  AuthInd'
<1> USE AuthAssumption
<1>0. Shapes
  BY DEF AuthInd
<1>1. UNCHANGED <<begun, user, cred, used, todo, job, faults, bootstraps, demoted>>
  BY DEF DeleteExpiredSessions, Tick, history
<1>2. /\ clock' \in 1 .. Horizon /\ sessions' \in [1 .. MaxSessions -> SessionRows]
      /\ \A t \in 1 .. MaxSessions :
            \/ sessions'[t] = sessions[t]
            \/ /\ sessions'[t].state # "live" /\ sessions'[t].user = sessions[t].user
               /\ sessions[t].state = "none" <=> sessions'[t].state = "none"
  <2>1. CASE DeleteExpiredSessions
    <3>1. PICK gone : /\ \A s \in gone : sessions[s].state \in {"live", "revoked"}
                      /\ sessions' = [s \in 1 .. MaxSessions |->
                                        IF s \in gone THEN [sessions[s] EXCEPT !.state = "deleted"] ELSE sessions[s]]
      BY <1>0, <2>1 DEF DeleteExpiredSessions, Shapes
    <3>2. clock' = clock /\ clock \in 1 .. Horizon /\ clock \in Nat /\ \A s \in 1 .. MaxSessions : sessions[s] \in SessionRows
      BY <1>0, <2>1 DEF DeleteExpiredSessions, Shapes
    <3>3. \A s \in 1 .. MaxSessions : LET k == [sessions[s] EXCEPT !.state = "deleted"] IN
            k \in SessionRows /\ k.user = sessions[s].user /\ k.state = "deleted"
      BY <3>2, EndedSession
    <3> QED
      BY <3>1, <3>2, <3>3
  <2>2. CASE Tick
    <3>1. clock < Horizon /\ clock' = clock + 1 /\ sessions' = sessions
      BY <2>2 DEF Tick
    <3>2. clock \in 1 .. Horizon /\ Horizon \in Nat /\ sessions \in [1 .. MaxSessions -> SessionRows]
      BY <1>0 DEF Shapes
    <3>3. clock' \in 1 .. Horizon
      BY <3>1, <3>2
    <3> QED
      BY <3>1, <3>2, <3>3
  <2> QED
    BY <2>1, <2>2
<1>3. Shapes' /\ begun <= begun'
  BY <1>0, <1>1, <1>2 DEF Shapes
<1>4. ASSUME NEW t \in 1 .. MaxSessions
      PROVE  SessionSound(t)' /\ (sessions[t].state # "none" => sessions'[t].state # "none")
  BY <1>1, <1>2, <1>3, SessionsEnded
<1> QED
  BY <1>1, <1>3, <1>4, UsersKept

-----------------------------------------------------------------------------
(* A row is written: what is left of it has the stamp it had and is as enabled, or
   it has the number of this transaction. *)
Written(h) ==
    /\ \A n \in Names : user[n] # None => user'[n] # None
    /\ \A g \in Handlers \ {h} : HoldsRow(g) => user'[Req(g).user] = user[Req(g).user]
    /\ \A n \in Names : user'[n] # None =>
          \/ user[n] # None /\ user'[n].stamp = user[n].stamp /\ user'[n].enabled = user[n].enabled
          \/ user'[n].stamp = begun + 1 /\ begun' = begun + 1
          \/ job[h].pc \in Begun /\ user'[n].stamp = job[h].stamp

(* Administrators keep their rights, unless a command takes them, or an update does
   that leaves an enabled one. *)
RightsKept(h) ==
    /\ demoted => demoted'
    /\ AdministratorRemains'
    /\ \/ demoted'
       \/ Administrators \subseteq Administrators' /\ EnabledAdministrators \subseteq EnabledAdministrators'
       \/ Updates(h, {"write"}) /\ EnabledAdministrators' # {}
    /\ \/ bootstraps' = bootstraps
       \/ job[h].pc = "bootstrap" /\ bootstraps' = bootstraps + 1 /\ Administrators' # {}

(* A transaction that writes users and ends leaves the handlers' knowledge sound. *)
LEMMA UsersWritten ==
    ASSUME AuthInd, Shapes', NEW h \in Handlers, Finish(h), begun <= begun', Written(h), RightsKept(h),
           \A s \in 1 .. MaxSessions :
              SessionSound(s)' /\ (sessions[s].state # "none" => sessions'[s].state # "none")
    PROVE  AuthInd'
<1> USE AuthAssumption
<1>0. /\ Shapes /\ StampsPast /\ AdministratorRemains /\ OneFirstAdministrator /\ BootstrapMade
      /\ \A g \in Handlers : JobSound(g) /\ RightsSound(g)
      /\ \A g, d \in Handlers : Apart(g, d)
  BY DEF AuthInd
<1>1. /\ \A g \in Handlers \ {h} : job'[g] = job[g]
      /\ JobSound(h)' /\ RightsSound(h)' /\ \A g \in Handlers : Apart(g, h)' /\ Apart(h, g)'
  BY <1>0, FinishEnds
<1>2. /\ begun \in Nat /\ begun' \in Nat /\ bootstraps \in Nat /\ bootstraps' \in Nat
      /\ \A n \in Names : user[n] # None => user[n].stamp \in Nat /\ user[n].stamp <= begun
  BY <1>0 DEF Shapes, UserRows, StampsPast
<1>3. /\ job[h].stamp \in Nat /\ (job[h].pc \in Begun => job[h].stamp <= begun)
  BY <1>0, JobTyped DEF JobSound
<1>4. StampsPast'
  BY <1>2, <1>3 DEF StampsPast, Written
<1>5. ASSUME NEW g \in Handlers \ {h} PROVE JobSound(g)'
  <2>1. JobSound(g) /\ job'[g] = job[g] /\ Apart(g, h)
    BY <1>0, <1>1
  <2>2. job[g].stamp \in Nat /\ (job[g].seen # None => job[g].seen.stamp \in Nat)
    <3>1. job[g].stamp \in Nat /\ job[g].seen \in UserRows \cup {None}
      BY <1>0, JobTyped
    <3> QED
      BY <3>1 DEF UserRows
  <2>3. job[g].pc # "idle" => Req(g) \in Wanted /\ Req(g).user \in Names
    <3>1. job[g].pc # "idle" => Req(g) \in Wanted
      BY <2>1 DEF JobSound
    <3> QED
      BY <3>1, RequestTyped
  <2>4. Req(g)' = Req(g)
    BY <2>1 DEF Req
  <2>5. job[g].seen # None =>
          /\ user'[Req(g).user] # None /\ job[g].seen.stamp <= begun'
          /\ user'[Req(g).user].stamp = job[g].seen.stamp => user'[Req(g).user].enabled = job[g].seen.enabled
    <3> SUFFICES ASSUME job[g].seen # None
                 PROVE  /\ user'[Req(g).user] # None /\ job[g].seen.stamp <= begun'
                        /\ user'[Req(g).user].stamp = job[g].seen.stamp => user'[Req(g).user].enabled = job[g].seen.enabled
      OBVIOUS
    <3>1. /\ Req(g).user \in Names /\ user[Req(g).user] # None /\ job[g].seen.stamp <= begun
          /\ user[Req(g).user].stamp = job[g].seen.stamp => user[Req(g).user].enabled = job[g].seen.enabled
      BY <2>1, <2>3 DEF JobSound
    <3>2. job[h].pc \in Begun => job[g].seen.stamp # job[h].stamp
      BY <2>1 DEF Apart
    <3> QED
      BY <1>2, <2>2, <3>1, <3>2 DEF Written
  <2>6. job[g].pc \in Begun =>
          job[g].stamp <= begun' /\ \A m \in Names : user'[m] # None => user'[m].stamp # job[g].stamp
    <3> SUFFICES ASSUME job[g].pc \in Begun
                 PROVE  job[g].stamp <= begun' /\ \A m \in Names : user'[m] # None => user'[m].stamp # job[g].stamp
      OBVIOUS
    <3>1. job[g].stamp <= begun /\ \A m \in Names : user[m] # None => user[m].stamp # job[g].stamp
      BY <2>1 DEF JobSound
    <3>2. job[h].pc \in Begun => job[g].stamp # job[h].stamp
      BY <2>1 DEF Apart
    <3> QED
      BY <1>2, <2>2, <3>1, <3>2 DEF Written
  <2>7. /\ HoldsRow(g) => user'[Req(g).user] = user[Req(g).user]
        /\ Req(g).user \in Names /\ user[Req(g).user] # None => user'[Req(g).user] # None
    BY DEF Written
  <2>8. job[g].session # 0 /\ sessions[job[g].session].state # "none" => sessions'[job[g].session].state # "none"
    <3>1. job[g].session \in 0 .. MaxSessions
      BY <1>0, JobTyped
    <3>2. job[g].session # 0 => job[g].session \in 1 .. MaxSessions
      BY <3>1
    <3> QED
      BY <3>2
  <2> QED
    BY <2>1, <2>3, <2>4, <2>5, <2>6, <2>7, <2>8 DEF JobSound, HoldsRow, Updates, Begun
<1>6. ASSUME NEW g \in Handlers \ {h} PROVE RightsSound(g)'
  <2>1. RightsSound(g) /\ job'[g] = job[g] /\ Req(g)' = Req(g) /\ Apart(g, h)
    BY <1>0, <1>1 DEF Req
  <2>2. CASE demoted'
    BY <2>2 DEF RightsSound
  <2>3. CASE ~ demoted' /\ Updates(h, {"write"}) /\ EnabledAdministrators' # {}
    <3>1. ~ Updates(g, {"select", "lock", "count", "write"})
      BY <2>1, <2>3 DEF Apart, Updates
    <3>2. bootstraps' = bootstraps
      BY <2>3 DEF RightsKept, Updates
    <3>3. Administrators' # {}
      BY <2>3 DEF EnabledAdministrators
    <3> QED
      BY <2>1, <2>3, <3>1, <3>2, <3>3 DEF RightsSound, RightsKept, Updates, Begun
  <2>4. CASE ~ demoted' /\ Administrators \subseteq Administrators' /\ EnabledAdministrators \subseteq EnabledAdministrators'
    <3>1. job[g].pc = "bootstrap" => bootstraps' = bootstraps
      BY <2>1 DEF RightsKept, Apart
    <3>2. HoldsRow(g) => user'[Req(g).user] = user[Req(g).user]
      BY DEF Written
    <3>3. TakesRights(Req(g))' = TakesRights(Req(g))
      BY <2>1 DEF TakesRights
    <3>4. ~ demoted
      BY <2>4 DEF RightsKept
    <3> QED
      BY <2>1, <2>4, <3>1, <3>2, <3>3, <3>4 DEF RightsSound, HoldsRow, Updates, Begun
  <2> QED
    BY <2>2, <2>3, <2>4 DEF RightsKept
<1>7. ASSUME NEW g \in Handlers, NEW d \in Handlers PROVE Apart(g, d)'
  <2>1. CASE g = h \/ d = h
    BY <1>1, <2>1
  <2>2. CASE g # h /\ d # h
    BY <1>0, <1>1, <2>2 DEF Apart, Req, HoldsRow, Updates, Begun
  <2> QED
    BY <2>1, <2>2
<1>8. AdministratorRemains' /\ OneFirstAdministrator' /\ BootstrapMade'
  <2>1. AdministratorRemains'
    BY DEF RightsKept
  <2>2. CASE bootstraps' = bootstraps
    <3>1. OneFirstAdministrator'
      BY <1>0, <2>2 DEF OneFirstAdministrator, RightsKept
    <3>2. BootstrapMade'
      BY <1>0, <2>2 DEF BootstrapMade, RightsKept, EnabledAdministrators
    <3> QED
      BY <2>1, <3>1, <3>2
  <2>3. CASE job[h].pc = "bootstrap" /\ bootstraps' = bootstraps + 1 /\ Administrators' # {}
    <3>1. demoted \/ bootstraps = 0
      BY <1>0, <2>3 DEF RightsSound
    <3> QED
      BY <1>2, <2>1, <2>3, <3>1 DEF OneFirstAdministrator, BootstrapMade, RightsKept
  <2> QED
    BY <2>2, <2>3 DEF RightsKept
<1> QED
  BY <1>1, <1>4, <1>5, <1>6, <1>7, <1>8 DEF AuthInd

(* The administrators, row by row. *)
LEMMA AdministratorRows ==
    ASSUME NEW n
    PROVE  /\ n \in Administrators <=> n \in Names /\ user[n] # None /\ user[n].role = "administrator"
           /\ n \in EnabledAdministrators <=>
                 n \in Names /\ user[n] # None /\ user[n].role = "administrator" /\ user[n].enabled
BY DEF Administrators, EnabledAdministrators

(* A user is created, by an administrator, a command or a bootstrap: there was no
   row, and so no session and no handler that knew of it. *)
LEMMA CreateStep ==
    ASSUME AuthInd, NEW h \in Handlers, CreateUser(h) \/ BootstrapAdmin(h)
    PROVE  AuthInd'
<1> USE AuthAssumption
<1> DEFINE n == Req(h).user
<1>0. /\ Shapes /\ AdministratorRemains /\ JobSound(h) /\ \A s \in 1 .. MaxSessions : SessionSound(s)
      /\ \A g \in Handlers : JobSound(g)
  BY DEF AuthInd
<1>1. /\ Finish(h) /\ UNCHANGED <<clock, sessions, todo, faults, used, demoted>>
      /\ job[h].pc \in {"create", "bootstrap"}
  BY DEF CreateUser, BootstrapAdmin, history, At
<1>2. Req(h) \in Wanted /\ n \in Names /\ Req(h).role \in Roles /\ Req(h).password \in Passwords
  <2>1. Req(h) \in Wanted
    BY <1>0, <1>1 DEF JobSound
  <2> QED
    BY <2>1, RequestTyped
<1>3. CASE user[n] # None
  <2>1. UNCHANGED <<begun, user, cred, bootstraps>>
    BY <1>3 DEF CreateUser, BootstrapAdmin, history
  <2> QED
    BY <1>0, <1>1, <2>1, FinishStep DEF Shapes
<1>4. CASE user[n] = None
  <2>1. PICK role \in Roles :
          /\ user' = [user EXCEPT ![n] = NewUser(role, begun + 1)] /\ begun' = begun + 1
          /\ cred' = [cred EXCEPT ![n] = FreshCredential(Req(h).password)]
          /\ \/ bootstraps' = bootstraps
             \/ job[h].pc = "bootstrap" /\ bootstraps' = bootstraps + 1 /\ role = "administrator"
    <3>1. CASE CreateUser(h)
      BY <1>2, <1>4, <3>1 DEF CreateUser, history
    <3>2. CASE BootstrapAdmin(h)
      <4>1. "administrator" \in Roles
        BY DEF Roles
      <4> QED
        BY <1>4, <3>2, <4>1 DEF BootstrapAdmin, At
    <3> QED
      BY <3>1, <3>2
  <2>2. begun \in Nat /\ begun + 1 \in Nat /\ bootstraps \in Nat
    BY <1>0 DEF Shapes
  <2> DEFINE row == NewUser(role, begun + 1)
  <2>3. row \in UserRows /\ row # None /\ row.role = role /\ row.enabled = TRUE /\ row.stamp = begun + 1
    <3>1. row.role = role /\ row.enabled = TRUE /\ row.stamp = begun + 1
      BY DEF NewUser
    <3>2. row \in UserRows
      BY <2>2 DEF NewUser, UserRows
    <3>3. row # None
      BY <3>2
    <3> QED
      BY <3>1, <3>2, <3>3
  <2>4. FreshCredential(Req(h).password) \in Credentials
    BY <1>2 DEF FreshCredential, Credentials
  <2> HIDE DEF n, row
  <2>5. /\ user' \in [Names -> UserRows \cup {None}] /\ user'[n] = row /\ \A m \in Names \ {n} : user'[m] = user[m]
        /\ cred' \in [Names -> Credentials] /\ \A m \in Names \ {n} : cred'[m] = cred[m]
    <3>1. user' = [user EXCEPT ![n] = row]
      BY <2>1 DEF row
    <3> QED
      BY <1>0, <1>2, <2>1, <2>3, <2>4, <3>1 DEF Shapes
  <2>6. job' \in [Handlers -> Jobs]
    BY <1>0, <1>1, FinishEnds
  <2>7. Shapes' /\ begun <= begun'
    <3>1. begun' \in Nat /\ bootstraps' \in Nat /\ begun <= begun'
      BY <2>1, <2>2
    <3> QED
      BY <1>0, <1>1, <2>5, <2>6, <3>1 DEF Shapes
  <2>8. ASSUME NEW s \in 1 .. MaxSessions PROVE SessionSound(s)'
    <3>1. SessionSound(s) /\ sessions' = sessions /\ used' = used
      BY <1>0, <1>1
    <3>2. sessions[s].state # "none" => sessions[s].user \in Names \ {n}
      BY <1>4, <3>1 DEF SessionSound, n
    <3>3. sessions[s].state # "none" =>
            user'[sessions[s].user] = user[sessions[s].user] /\ cred'[sessions[s].user] = cred[sessions[s].user]
      BY <2>5, <3>2
    <3> QED
      BY <3>1, <3>2, <3>3 DEF SessionSound, Standing
  <2>9. Written(h)
    <3>1. \A m \in Names : user[m] # None => user'[m] # None
      BY <2>3, <2>5
    <3>2. \A g \in Handlers \ {h} : HoldsRow(g) => user'[Req(g).user] = user[Req(g).user]
      <4> SUFFICES ASSUME NEW g \in Handlers \ {h}, HoldsRow(g) PROVE user'[Req(g).user] = user[Req(g).user]
        OBVIOUS
      <4>1. Req(g) \in Wanted /\ user[Req(g).user] # None
        BY <1>0 DEF JobSound, HoldsRow
      <4>2. Req(g).user \in Names
        BY <4>1, RequestTyped
      <4> QED
        BY <1>4, <2>5, <4>1, <4>2 DEF n
    <3>3. \A m \in Names : user'[m] # None =>
            \/ user[m] # None /\ user'[m].stamp = user[m].stamp /\ user'[m].enabled = user[m].enabled
            \/ user'[m].stamp = begun + 1 /\ begun' = begun + 1
      BY <2>1, <2>3, <2>5
    <3> QED
      BY <3>1, <3>2, <3>3 DEF Written
  <2>10. RightsKept(h)
    <3>1. /\ \A m : m \in Administrators <=> m \in Names /\ user[m] # None /\ user[m].role = "administrator"
          /\ \A m : m \in EnabledAdministrators <=>
                m \in Names /\ user[m] # None /\ user[m].role = "administrator" /\ user[m].enabled
      BY AdministratorRows
    <3>2. /\ \A m : m \in Administrators' <=> m \in Names /\ user'[m] # None /\ user'[m].role = "administrator"
          /\ \A m : m \in EnabledAdministrators' <=>
                m \in Names /\ user'[m] # None /\ user'[m].role = "administrator" /\ user'[m].enabled
      BY DEF Administrators, EnabledAdministrators
    <3>3. user[n] = None
      BY <1>4 DEF n
    <3>4. Administrators \subseteq Administrators' /\ EnabledAdministrators \subseteq EnabledAdministrators'
      BY <2>5, <3>1, <3>2, <3>3
    <3>5. Administrators' # {} => demoted' \/ EnabledAdministrators' # {}
      <4>1. CASE role = "administrator"
        <5>1. n \in EnabledAdministrators'
          BY <1>2, <2>3, <2>5, <3>2, <4>1
        <5> QED
          BY <5>1
      <4>2. CASE role # "administrator"
        <5>1. Administrators' \subseteq Administrators
          BY <2>3, <2>5, <3>1, <3>2, <4>2
        <5> QED
          BY <1>0, <1>1, <3>4, <5>1 DEF AdministratorRemains
      <4> QED
        BY <4>1, <4>2
    <3>6. role = "administrator" => Administrators' # {}
      BY <1>2, <2>3, <2>5, <3>2
    <3> QED
      BY <1>1, <2>1, <3>4, <3>5, <3>6 DEF RightsKept, AdministratorRemains
  <2> QED
    BY <1>1, <2>7, <2>8, <2>9, <2>10, UsersWritten
<1> QED
  BY <1>3, <1>4

(* Replacing one value of a function keeps its type. *)
LEMMA ReplacedTyped ==
    ASSUME NEW D, NEW S, NEW f \in [D -> S], NEW x \in D, NEW y \in S
    PROVE  [f EXCEPT ![x] = y] \in [D -> S]
OBVIOUS

(* A transaction that has locked a user's row replaces it and ends. *)
LEMMA RowReplaced ==
    ASSUME AuthInd, NEW h \in Handlers, job[h].pc = "write", Finish(h), NEW row \in UserRows,
           user' = [user EXCEPT ![Req(h).user] = row],
           UNCHANGED <<clock, begun, cred, todo, faults, used, bootstraps>>,
           demoted' \in BOOLEAN, demoted => demoted',
           \/ row.stamp = job[h].stamp
           \/ row.stamp = user[Req(h).user].stamp /\ row.enabled = user[Req(h).user].enabled,
           \/ RevokeSessions(Req(h).user)
           \/ /\ sessions' = sessions
              /\ row.role = user[Req(h).user].role /\ row.enabled = user[Req(h).user].enabled,
           \/ demoted'
           \/ Updates(h, {"write"}) /\ EnabledAdministrators' # {}
           \/ /\ user[Req(h).user].role = "administrator" =>
                    row.role = "administrator" /\ (user[Req(h).user].enabled => row.enabled)
              /\ row.role = "administrator" => row.enabled \/ EnabledAdministrators # {}
    PROVE  AuthInd'
<1> USE AuthAssumption
<1> DEFINE n == Req(h).user
<1>0. /\ Shapes /\ AdministratorRemains /\ JobSound(h) /\ \A s \in 1 .. MaxSessions : SessionSound(s)
      /\ \A g \in Handlers : JobSound(g) /\ Apart(g, h)
  BY DEF AuthInd
<1>1. n \in Names /\ user[n] # None /\ HoldsRow(h) /\ job[h].pc \in Begun
  <2>1. Req(h) \in Wanted /\ user[n] # None /\ HoldsRow(h) /\ job[h].pc \in Begun
    BY <1>0 DEF JobSound, HoldsRow, Begun
  <2> QED
    BY <2>1, RequestTyped
<1>2. row # None
  OBVIOUS
<1>3. user' \in [Names -> UserRows \cup {None}] /\ user'[n] = row /\ \A m \in Names \ {n} : user'[m] = user[m]
  <2> HIDE DEF n
  <2>1. user' = [user EXCEPT ![n] = row] /\ user \in [Names -> UserRows \cup {None}]
    BY <1>0 DEF n, Shapes
  <2>2. user'[n] = row /\ \A m \in Names \ {n} : user'[m] = user[m]
    BY <1>1, <2>1
  <2>3. user' \in [Names -> UserRows \cup {None}]
    <3>1. row \in UserRows \cup {None}
      OBVIOUS
    <3>2. [user EXCEPT ![n] = row] \in [Names -> UserRows \cup {None}]
      BY <1>1, <2>1, <3>1, ReplacedTyped, Zenon
    <3> QED
      BY <2>1, <3>2, Zenon
  <2> QED
    BY <2>2, <2>3
<1>4. /\ sessions' \in [1 .. MaxSessions -> SessionRows]
      /\ \A s \in 1 .. MaxSessions :
            \/ /\ sessions'[s] = sessions[s]
               /\ sessions[s].user = n => row.role = user[n].role /\ row.enabled = user[n].enabled
            \/ sessions'[s].state # "live" /\ sessions'[s].user = sessions[s].user
               /\ (sessions[s].state = "none" <=> sessions'[s].state = "none")
  <2>1. CASE RevokeSessions(n)
    <3> HIDE DEF n
    <3>1. /\ sessions' \in [1 .. MaxSessions -> SessionRows]
          /\ \A s \in 1 .. MaxSessions :
                IF sessions[s].user = n
                THEN sessions'[s].state # "live" /\ sessions'[s].user = sessions[s].user
                     /\ (sessions'[s].state = "none" <=> sessions[s].state = "none")
                ELSE sessions'[s] = sessions[s]
      BY <1>0, <2>1, SessionsRevoked
    <3> QED
      BY <3>1
  <2>2. CASE sessions' = sessions /\ row.role = user[n].role /\ row.enabled = user[n].enabled
    BY <1>0, <2>2 DEF Shapes
  <2> QED
    BY <2>1, <2>2
<1>5. Shapes' /\ begun <= begun'
  <2>1. job' \in [Handlers -> Jobs]
    BY <1>0, FinishEnds
  <2> QED
    BY <1>0, <1>3, <1>4, <2>1 DEF Shapes
<1>6. /\ \A m : m \in Administrators <=> m \in Names /\ user[m] # None /\ user[m].role = "administrator"
      /\ \A m : m \in EnabledAdministrators <=>
            m \in Names /\ user[m] # None /\ user[m].role = "administrator" /\ user[m].enabled
      /\ \A m : m \in Administrators' <=> m \in Names /\ user'[m] # None /\ user'[m].role = "administrator"
      /\ \A m : m \in EnabledAdministrators' <=>
            m \in Names /\ user'[m] # None /\ user'[m].role = "administrator" /\ user'[m].enabled
  BY DEF Administrators, EnabledAdministrators
<1>7. RightsKept(h)
  <2>1. CASE demoted'
    BY <2>1 DEF RightsKept, AdministratorRemains
  <2>2. CASE Updates(h, {"write"}) /\ EnabledAdministrators' # {}
    BY <2>2 DEF RightsKept, AdministratorRemains
  <2>3. CASE /\ ~ demoted'
             /\ user[n].role = "administrator" => row.role = "administrator" /\ (user[n].enabled => row.enabled)
             /\ row.role = "administrator" => row.enabled \/ EnabledAdministrators # {}
    <3> HIDE DEF n
    <3>1. Administrators \subseteq Administrators' /\ EnabledAdministrators \subseteq EnabledAdministrators'
      BY <1>1, <1>2, <1>3, <1>6, <2>3
    <3>2. ASSUME NEW m \in Administrators' PROVE EnabledAdministrators' # {}
      <4>1. CASE m = n /\ row.enabled
        <5>1. n \in EnabledAdministrators'
          BY <1>1, <1>2, <1>3, <1>6, <4>1
        <5> QED
          BY <5>1
      <4>2. CASE m = n /\ ~ row.enabled
        <5>1. row.role = "administrator"
          BY <1>3, <1>6, <4>2
        <5> QED
          BY <2>3, <3>1, <4>2, <5>1
      <4>3. CASE m # n
        <5>1. m \in Administrators
          BY <1>3, <1>6, <4>3
        <5>2. EnabledAdministrators # {}
          BY <1>0, <2>3, <5>1 DEF AdministratorRemains
        <5> QED
          BY <3>1, <5>2
      <4> QED
        BY <4>1, <4>2, <4>3
    <3> QED
      BY <2>3, <3>1, <3>2 DEF RightsKept, AdministratorRemains
  <2> QED
    BY <2>1, <2>2, <2>3
<1>8. ASSUME NEW s \in 1 .. MaxSessions
      PROVE  SessionSound(s)' /\ (sessions[s].state # "none" => sessions'[s].state # "none")
  <2> HIDE DEF n
  <2>1. SessionSound(s)
    BY <1>0
  <2>2. CASE /\ sessions'[s] = sessions[s]
             /\ sessions[s].user = n => row.role = user[n].role /\ row.enabled = user[n].enabled
    <3>1. sessions[s].state # "none" =>
            LET m == sessions[s].user IN
            m \in Names /\ user'[m] # None /\ user'[m].role = user[m].role /\ user'[m].enabled = user[m].enabled
      BY <1>1, <1>2, <1>3, <2>1, <2>2 DEF SessionSound
    <3> QED
      BY <2>1, <2>2, <3>1 DEF SessionSound, Standing
  <2>3. CASE /\ sessions'[s].state # "live" /\ sessions'[s].user = sessions[s].user
             /\ (sessions[s].state = "none" <=> sessions'[s].state = "none")
    BY <1>2, <1>3, <2>1, <2>3 DEF SessionSound
  <2> QED
    BY <1>4, <2>2, <2>3
<1>9. Written(h)
  <2>1. \A m \in Names : user[m] # None => user'[m] # None
    BY <1>2, <1>3
  <2>2. ASSUME NEW g \in Handlers \ {h}, HoldsRow(g) PROVE user'[Req(g).user] = user[Req(g).user]
    <3>1. Req(g).user # n /\ Req(g) \in Wanted
      BY <1>0, <1>1, <2>2 DEF Apart, JobSound, HoldsRow
    <3>2. Req(g).user \in Names
      BY <3>1, RequestTyped
    <3> QED
      BY <1>3, <3>1, <3>2
  <2>3. \A m \in Names : user'[m] # None =>
          \/ user[m] # None /\ user'[m].stamp = user[m].stamp /\ user'[m].enabled = user[m].enabled
          \/ job[h].pc \in Begun /\ user'[m].stamp = job[h].stamp
    BY <1>1, <1>3
  <2> QED
    BY <2>1, <2>2, <2>3 DEF Written
<1> QED
  BY <1>5, <1>7, <1>8, <1>9, UsersWritten

(* An administrator updates a user: if that takes the rights of an enabled
   administrator, another was counted and is still there. *)
LEMMA UpdateStep ==
    ASSUME AuthInd, NEW h \in Handlers, UpdateManagedUser(h)
    PROVE  AuthInd'
<1> USE AuthAssumption
<1> DEFINE r == Req(h)
           n == r.user
           newRole == IF job[h].role = r.role THEN user[n].role ELSE r.role
           row == [role |-> newRole, enabled |-> r.enabled, stamp |-> job[h].stamp]
<1>0. Shapes /\ AdministratorRemains /\ JobSound(h) /\ RightsSound(h)
  BY DEF AuthInd
<1>1. job[h].pc = "write" /\ r.op = "update" /\ Finish(h)
  BY DEF UpdateManagedUser, At
<1>2. r \in Wanted /\ user[n] # None
  BY <1>0, <1>1 DEF JobSound, HoldsRow
<1>3. n \in Names /\ r.role \in Roles /\ r.enabled \in BOOLEAN
  BY <1>2, RequestTyped
<1>4. user[n] \in UserRows /\ user[n].role \in Roles /\ job[h].stamp \in Nat
  <2>1. user[n] \in UserRows
    BY <1>0, <1>2, <1>3 DEF Shapes
  <2>2. job[h].stamp \in Nat
    BY <1>0, JobTyped
  <2> QED
    BY <2>1, <2>2 DEF UserRows
<1>5. newRole \in Roles
  BY <1>3, <1>4
<1>6. row \in UserRows /\ row.role = newRole /\ row.enabled = r.enabled /\ row.stamp = job[h].stamp
  <2> HIDE DEF r, n, newRole
  <2> QED
    BY <1>3, <1>4, <1>5 DEF UserRows
<1>7. \A v \in UserRows : LET b == [v EXCEPT !.role = job[h].role] IN b.role = job[h].role /\ b.enabled = v.enabled
  BY DEF UserRows
<1>8. user' = [user EXCEPT ![n] = row]
  <2>1. [user[n] EXCEPT !.role = job[h].role].role = job[h].role
    BY <1>4, <1>7
  <2>2. user' = [user EXCEPT ![n] =
                   [role |-> IF [user[n] EXCEPT !.role = job[h].role].role = r.role THEN @.role ELSE r.role,
                    enabled |-> r.enabled, stamp |-> job[h].stamp]]
    BY DEF UpdateManagedUser
  <2> QED
    BY <2>1, <2>2
<1>9. /\ UNCHANGED <<clock, begun, cred, todo, faults, used, bootstraps>>
      /\ demoted' \in BOOLEAN /\ demoted' = demoted
  BY <1>0 DEF UpdateManagedUser, history, Shapes
<1>10. \/ RevokeSessions(n)
       \/ sessions' = sessions /\ row.role = user[n].role /\ row.enabled = user[n].enabled
  <2>1. CASE Revokes([user[n] EXCEPT !.role = job[h].role], r)
    BY <2>1 DEF UpdateManagedUser
  <2>2. CASE ~ Revokes([user[n] EXCEPT !.role = job[h].role], r)
    <3>1. sessions' = sessions
      BY <2>2 DEF UpdateManagedUser
    <3>2. job[h].role = r.role /\ user[n].enabled = r.enabled
      BY <1>4, <1>7, <2>2 DEF Revokes
    <3> QED
      BY <1>6, <3>1, <3>2
  <2> QED
    BY <2>1, <2>2
<1> HIDE DEF r, n, newRole, row
<1>11. user'[n] = row /\ \A m \in Names \ {n} : user'[m] = user[m]
  BY <1>0, <1>3, <1>8 DEF Shapes
<1>12. demoted' \/ EnabledAdministrators' # {}
  <2> SUFFICES ASSUME ~ demoted PROVE EnabledAdministrators' # {}
    BY <1>9
  <2>0. /\ \A m : m \in Administrators <=> m \in Names /\ user[m] # None /\ user[m].role = "administrator"
        /\ \A m : m \in EnabledAdministrators <=>
              m \in Names /\ user[m] # None /\ user[m].role = "administrator" /\ user[m].enabled
        /\ \A m : m \in EnabledAdministrators' <=>
              m \in Names /\ user'[m] # None /\ user'[m].role = "administrator" /\ user'[m].enabled
    BY DEF Administrators, EnabledAdministrators
  <2>1. EnabledAdministrators \ {n} # {} => EnabledAdministrators' # {}
    BY <1>11, <2>0
  <2>2. Updates(h, {"write"})
    BY <1>1 DEF Updates, r
  <2>3. /\ Administrators # {}
        /\ EnabledAdministrators \ {n} # {} \/ ~ TakesRights(r) \/ ~ user[n].enabled
        /\ job[h].role = "administrator" => n \in Administrators
    BY <1>0, <2>2 DEF RightsSound, Updates, Begun, n, r
  <2>4. CASE EnabledAdministrators \ {n} # {}
    BY <2>1, <2>4
  <2>5. CASE ~ TakesRights(r)
    <3>1. r.enabled /\ r.role = "administrator"
      BY <1>3, <2>5 DEF TakesRights
    <3>2. newRole = "administrator"
      BY <2>0, <2>3, <3>1 DEF newRole
    <3>3. row # None
      BY <1>6
    <3>4. n \in EnabledAdministrators'
      BY <1>3, <1>6, <1>11, <2>0, <3>1, <3>2, <3>3
    <3> QED
      BY <3>4
  <2>6. CASE ~ user[n].enabled
    <3>1. EnabledAdministrators # {} /\ n \notin EnabledAdministrators
      BY <1>0, <2>0, <2>3, <2>6 DEF AdministratorRemains
    <3> QED
      BY <2>1, <3>1
  <2> QED
    BY <2>3, <2>4, <2>5, <2>6
<1>13. Updates(h, {"write"})
  BY <1>1 DEF Updates, r
<1>14. \/ RevokeSessions(Req(h).user)
       \/ /\ sessions' = sessions
          /\ row.role = user[Req(h).user].role /\ row.enabled = user[Req(h).user].enabled
  BY <1>10 DEF n, r
<1>15. user' = [user EXCEPT ![Req(h).user] = row]
  BY <1>8 DEF n, r
<1>16. row \in UserRows /\ row.stamp = job[h].stamp
  BY <1>6
<1> QED
  BY <1>1, <1>9, <1>12, <1>13, <1>14, <1>15, <1>16, RowReplaced

(* Commands on the host give a user another role, enable or disable one. *)
LEMMA HostStep ==
    ASSUME AuthInd, NEW h \in Handlers, AssignRole(h) \/ SetLocalUserEnabled(h)
    PROVE  AuthInd'
<1> USE AuthAssumption
<1> DEFINE r == Req(h)
           n == r.user
<1>0. Shapes /\ JobSound(h)
  BY DEF AuthInd
<1>1. /\ job[h].pc = "write" /\ Finish(h) /\ RevokeSessions(n)
      /\ UNCHANGED <<clock, begun, cred, todo, faults, used, bootstraps>>
  BY DEF AssignRole, SetLocalUserEnabled, At
<1>2. r \in Wanted /\ user[n] # None
  BY <1>0, <1>1 DEF JobSound, HoldsRow
<1>3. n \in Names /\ r.role \in Roles /\ r.enabled \in BOOLEAN
  BY <1>2, RequestTyped
<1>4. user[n] \in UserRows /\ user \in [Names -> UserRows \cup {None}] /\ demoted \in BOOLEAN
  BY <1>0, <1>2, <1>3 DEF Shapes
<1>5. job[h].stamp \in Nat
  BY <1>0, JobTyped
<1>6. CASE AssignRole(h)
  <2> DEFINE row == [user[n] EXCEPT !.role = r.role]
  <2>1. row \in UserRows /\ row.role = r.role /\ row.enabled = user[n].enabled /\ row.stamp = user[n].stamp
    <3>1. \A v \in UserRows, x \in Roles : LET k == [v EXCEPT !.role = x] IN
            k \in UserRows /\ k.role = x /\ k.enabled = v.enabled /\ k.stamp = v.stamp
      BY DEF UserRows
    <3> QED
      BY <1>3, <1>4, <3>1
  <2>2. user' = [user EXCEPT ![Req(h).user] = row]
    BY <1>6 DEF AssignRole
  <2>3. /\ demoted' \in BOOLEAN /\ (demoted => demoted')
        /\ \/ demoted'
           \/ /\ user[n].role = "administrator" => r.role = "administrator"
              /\ r.role = "administrator" => user[n].enabled \/ EnabledAdministrators # {}
    BY <1>4, <1>6 DEF AssignRole
  <2>4. \/ demoted'
        \/ /\ user[n].role = "administrator" => row.role = "administrator" /\ (user[n].enabled => row.enabled)
           /\ row.role = "administrator" => row.enabled \/ EnabledAdministrators # {}
    BY <2>1, <2>3
  <2> HIDE DEF row
  <2> QED
    BY <1>1, <2>1, <2>2, <2>3, <2>4, RowReplaced
<1>7. CASE SetLocalUserEnabled(h)
  <2> DEFINE row == [user[n] EXCEPT !.enabled = r.enabled, !.stamp = job[h].stamp]
  <2>1. row \in UserRows /\ row.role = user[n].role /\ row.enabled = r.enabled /\ row.stamp = job[h].stamp
    <3> HIDE DEF r, n
    <3>1. row.role = user[n].role /\ row.enabled = r.enabled /\ row.stamp = job[h].stamp
      BY <1>4 DEF UserRows
    <3>2. row \in UserRows
      BY <1>3, <1>4, <1>5 DEF UserRows
    <3> QED
      BY <3>1, <3>2
  <2>2. user' = [user EXCEPT ![Req(h).user] = row]
    BY <1>7 DEF SetLocalUserEnabled
  <2>3. /\ demoted' \in BOOLEAN /\ (demoted => demoted')
        /\ demoted' \/ (user[n].role = "administrator" => r.enabled)
    BY <1>3, <1>4, <1>7 DEF SetLocalUserEnabled
  <2>4. \/ demoted'
        \/ /\ user[n].role = "administrator" => row.role = "administrator" /\ (user[n].enabled => row.enabled)
           /\ row.role = "administrator" => row.enabled \/ EnabledAdministrators # {}
    BY <2>1, <2>3
  <2> HIDE DEF row
  <2> QED
    BY <1>1, <2>1, <2>2, <2>3, <2>4, RowReplaced
<1> QED
  BY <1>6, <1>7

-----------------------------------------------------------------------------
(* At the beginning nobody handles a request, everyone is enabled, and the sessions
   there are were created under what their users are. *)
LEMMA InitSound == Init => AuthInd
<1> USE AuthAssumption
<1> SUFFICES ASSUME Init PROVE AuthInd
  OBVIOUS
<1>1. PICK scenario \in Scenarios :
        /\ todo = scenario.wanted
        /\ user = [n \in Names |-> IF n \in DOMAIN scenario.users THEN NewUser(scenario.users[n], 0) ELSE None]
        /\ sessions = [s \in 1 .. MaxSessions |->
                         IF s \in DOMAIN scenario.signedIn
                         THEN NewSession(scenario.signedIn[s], 1,
                                         Standing(NewUser(scenario.users[scenario.signedIn[s]], 0), "old"))
                         ELSE NoSession]
  BY DEF Init
<1>2. /\ DOMAIN scenario.users \subseteq Names
      /\ \A n \in DOMAIN scenario.users : scenario.users[n] \in Roles
      /\ \A s \in DOMAIN scenario.signedIn : scenario.signedIn[s] \in DOMAIN scenario.users
  OBVIOUS
<1>3. /\ clock = 1 /\ begun = 0 /\ faults = 0 /\ bootstraps = 0 /\ demoted = FALSE
      /\ cred = [n \in Names |-> FreshCredential("old")] /\ job = [h \in Handlers |-> Blank]
      /\ used = [s \in 1 .. MaxSessions |-> 1]
  BY DEF Init
<1>4. ASSUME NEW role \in Roles
      PROVE  /\ NewUser(role, 0) \in UserRows /\ NewUser(role, 0).enabled = TRUE /\ NewUser(role, 0).stamp = 0
             /\ Standing(NewUser(role, 0), "old") \in Standings
  BY DEF NewUser, UserRows, Standing, Standings, Passwords
<1>5. /\ user \in [Names -> UserRows \cup {None}]
      /\ \A n \in Names : user[n] # None =>
            n \in DOMAIN scenario.users /\ user[n].enabled = TRUE /\ user[n].stamp = 0
      /\ \A n \in DOMAIN scenario.users : user[n] = NewUser(scenario.users[n], 0) /\ user[n] # None
  BY <1>1, <1>2, <1>4
<1>6. /\ cred \in [Names -> Credentials] /\ \A n \in Names : cred[n].password = "old"
  <2>1. FreshCredential("old") \in Credentials /\ FreshCredential("old").password = "old"
    BY DEF FreshCredential, Credentials, Passwords
  <2> QED
    BY <1>3, <2>1
<1>7. ASSUME NEW s \in 1 .. MaxSessions
      PROVE  /\ sessions[s] \in SessionRows
             /\ sessions[s].state # "none" =>
                  /\ sessions[s].user \in DOMAIN scenario.users /\ sessions[s].expires = 1 + Idle
                  /\ sessions[s].under = Standing(user[sessions[s].user], "old")
  <2>1. CASE s \in DOMAIN scenario.signedIn
    <3> DEFINE n == scenario.signedIn[s]
               under == Standing(NewUser(scenario.users[n], 0), "old")
    <3>1. n \in DOMAIN scenario.users /\ n \in Names /\ scenario.users[n] \in Roles
      BY <1>2, <2>1
    <3>2. under \in Standings /\ user[n] = NewUser(scenario.users[n], 0)
      BY <1>4, <1>5, <3>1
    <3>3. sessions[s] = NewSession(n, 1, under)
      BY <1>1, <2>1
    <3>4. 1 + Idle \in Nat /\ 1 + Absolute \in Nat
      OBVIOUS
    <3>5. under = Standing(user[n], "old")
      BY <3>2
    <3> HIDE DEF n, under
    <3>6. /\ sessions[s] \in SessionRows /\ sessions[s].user = n /\ sessions[s].expires = 1 + Idle
          /\ sessions[s].under = under
      BY <3>1, <3>2, <3>3, <3>4 DEF NewSession, SessionRows
    <3> QED
      BY <3>1, <3>5, <3>6
  <2>2. CASE s \notin DOMAIN scenario.signedIn
    <3>1. sessions[s] = NoSession
      BY <1>1, <2>2
    <3> QED
      BY <3>1 DEF NoSession, SessionRows
  <2> QED
    BY <2>1, <2>2
<1>8. Blank \in Jobs /\ Blank.pc = "idle" /\ Blank.seen = None
  BY DEF Blank, Jobs, Steps
<1>9. Shapes
  <2>1. todo \subseteq Wanted
    BY <1>1 DEF Wanted
  <2>2. clock \in 1 .. Horizon /\ begun \in Nat /\ faults \in 0 .. MaxFaults /\ bootstraps \in Nat /\ demoted \in BOOLEAN
    <3>1. Horizon \in Nat \ {0} /\ MaxFaults \in Nat
      OBVIOUS
    <3>2. 1 \in 1 .. Horizon /\ 0 \in 0 .. MaxFaults
      BY <3>1
    <3>3. demoted \in BOOLEAN
      BY <1>3
    <3>4. begun \in Nat /\ bootstraps \in Nat
      BY <1>3
    <3>5. clock \in 1 .. Horizon /\ faults \in 0 .. MaxFaults
      BY <1>3, <3>2
    <3> QED
      BY <3>3, <3>4, <3>5
  <2>3. sessions \in [1 .. MaxSessions -> SessionRows]
    BY <1>1, <1>7
  <2>4. used \in [1 .. MaxSessions -> Nat]
    BY <1>3
  <2>5. job \in [Handlers -> Jobs]
    BY <1>3, <1>8
  <2> QED
    BY <1>5, <1>6, <2>1, <2>2, <2>3, <2>4, <2>5 DEF Shapes
<1>10. StampsPast
  BY <1>3, <1>5 DEF StampsPast
<1>11. AdministratorRemains /\ OneFirstAdministrator /\ BootstrapMade
  <2>1. Administrators \subseteq EnabledAdministrators
    BY <1>5 DEF Administrators, EnabledAdministrators
  <2> QED
    BY <1>3, <2>1 DEF AdministratorRemains, OneFirstAdministrator, BootstrapMade
<1>12. ASSUME NEW s \in 1 .. MaxSessions PROVE SessionSound(s)
  <2>1. used[s] = 1 /\ 1 + Idle <= 1 + Idle
    BY <1>3
  <2>2. sessions[s].state # "none" =>
          /\ sessions[s].user \in Names /\ user[sessions[s].user] # None
          /\ cred[sessions[s].user].password = "old"
    BY <1>2, <1>5, <1>6, <1>7
  <2> QED
    BY <1>7, <2>1, <2>2 DEF SessionSound
<1>13. \A h \in Handlers : job[h].pc = "idle" /\ job[h].seen = None
  BY <1>3, <1>8
<1>14. ASSUME NEW h \in Handlers PROVE JobSound(h) /\ RightsSound(h)
  BY <1>13 DEF JobSound, RightsSound, HoldsRow, Updates, Begun
<1>15. ASSUME NEW g \in Handlers, NEW h \in Handlers PROVE Apart(g, h)
  BY <1>13 DEF Apart, HoldsRow, Updates, Begun
<1> QED
  BY <1>9, <1>10, <1>11, <1>12, <1>14, <1>15 DEF AuthInd

(* Every step of the system keeps the inductive invariant. *)
LEMMA NextSound == AuthInd /\ [Next]_vars => AuthInd'
<1> SUFFICES ASSUME AuthInd, [Next]_vars PROVE AuthInd'
  OBVIOUS
<1>1. CASE UNCHANGED vars
  BY <1>1 DEF vars, AuthInd, Shapes, StampsPast, AdministratorRemains, OneFirstAdministrator, BootstrapMade,
     SessionSound, JobSound, RightsSound, Apart, Administrators, EnabledAdministrators, Req, HoldsRow, Updates
<1>2. ASSUME NEW h \in Handlers, NEW r \in todo, Take(h, r) PROVE AuthInd'
  BY <1>2, TakeStep
<1>3. ASSUME NEW h \in Handlers, Handle(h) PROVE AuthInd'
  <2>1. CASE Allow(h) \/ Verify(h) \/ ClearFailures(h) \/ \E s \in DOMAIN sessions : Present(h, s)
    BY <2>1, ApproachStep
  <2>2. CASE RateLimited(h) \/ RecordFailure(h) \/ Unauthenticated(h)
    BY <2>2, EndStep
  <2>3. CASE CreateSession(h)
    BY <2>3, CreateSessionStep
  <2>4. CASE Touch(h)
    BY <2>4, TouchStep
  <2>5. CASE ReadRoles(h)
    BY <2>5, ReadRolesStep
  <2>6. CASE Logout(h) \/ ResetPassword(h)
    BY <2>6, RevokeStep
  <2>7. CASE CreateUser(h) \/ BootstrapAdmin(h)
    BY <2>7, CreateStep
  <2>8. CASE Begin(h)
    BY <2>8, BeginStep
  <2>9. CASE LockUpdates(h)
    BY <2>9, LockUpdatesStep
  <2>10. CASE ReadRole(h)
    BY <2>10, ReadRoleStep
  <2>11. CASE LockUser(h)
    BY <2>11, LockUserStep
  <2>12. CASE CountAdministrators(h)
    BY <2>12, CountStep
  <2>13. CASE UpdateManagedUser(h)
    BY <2>13, UpdateStep
  <2>14. CASE AssignRole(h) \/ SetLocalUserEnabled(h)
    BY <2>14, HostStep
  <2>15. CASE LockBootstrap(h) \/ CheckBootstrap(h)
    BY <2>15, CheckStep
  <2> QED
    BY <1>3, <2>1, <2>2, <2>3, <2>4, <2>5, <2>6, <2>7, <2>8, <2>9, <2>10, <2>11, <2>12, <2>13, <2>14, <2>15
    DEF Handle
<1>4. ASSUME NEW h \in Handlers, Fail(h) \/ DeadlockVictim(h) PROVE AuthInd'
  BY <1>4, EndStep
<1>5. CASE DeleteExpiredSessions \/ Tick
  BY <1>5, IdleStep
<1> QED
  BY <1>1, <1>2, <1>3, <1>4, <1>5 DEF Next

(* The inductive invariant holds throughout. *)
THEOREM AuthIndHolds == Spec => []AuthInd
BY InitSound, NextSound, PTL DEF Spec

-----------------------------------------------------------------------------
(* However administrators, bootstraps and commands on the host overlap, an enabled
   administrator remains unless a command on the host took the rights, and one
   bootstrap at most creates the first administrator: for any users and requests. *)
THEOREM UsersSafe == Spec => []UsersInv
<1> USE AuthAssumption
<1>1. AuthInd => UsersInv
  <2> SUFFICES ASSUME AuthInd PROVE UsersInv
    OBVIOUS
  <2>0. /\ Shapes /\ StampsPast /\ AdministratorRemains /\ OneFirstAdministrator
        /\ \A s \in 1 .. MaxSessions : SessionSound(s)
        /\ \A h \in Handlers : JobSound(h)
    BY DEF AuthInd
  <2>1. clock \in 1 .. Horizon /\ begun \in Nat /\ faults \in 0 .. MaxFaults
    BY <2>0 DEF Shapes
  <2>2. ASSUME NEW n \in Names
        PROVE  /\ user[n] # None => user[n].role \in Roles /\ user[n].enabled \in BOOLEAN /\ user[n].stamp <= begun
               /\ cred[n].failed \in Nat /\ cred[n].locked \in Nat
    <3>1. user[n] \in UserRows \cup {None} /\ cred[n] \in Credentials
      BY <2>0 DEF Shapes
    <3>2. user[n] # None => user[n].stamp <= begun
      BY <2>0 DEF StampsPast
    <3> QED
      BY <3>1, <3>2 DEF UserRows, Credentials
  <2>3. ASSUME NEW s \in DOMAIN sessions
        PROVE  /\ sessions[s].state \in {"none", "live", "revoked", "deleted"}
               /\ sessions[s].state # "none" => sessions[s].user \in Names /\ user[sessions[s].user] # None
    <3>1. s \in 1 .. MaxSessions /\ sessions[s] \in SessionRows
      BY <2>0 DEF Shapes
    <3>2. SessionSound(s)
      BY <2>0, <3>1
    <3> QED
      BY <3>1, <3>2 DEF SessionRows, SessionSound
  <2>4. ASSUME NEW h \in Handlers PROVE job[h].pc \in {"count", "write"} => user[Req(h).user] # None
    BY <2>0 DEF JobSound, HoldsRow
  <2>5. TypeOK
    BY <2>1, <2>2, <2>3, <2>4 DEF TypeOK
  <2> QED
    BY <2>0, <2>5 DEF UsersInv
<1> QED
  BY <1>1, AuthIndHolds, PTL

(* A session that is live was created under the role, the enablement and the
   password its user has now, in whatever order logins and changes commit. *)
THEOREM SessionsSafe == Spec => []SessionsPostdateChanges
<1>1. AuthInd => SessionsPostdateChanges
  <2> SUFFICES ASSUME AuthInd, NEW s \in DOMAIN sessions, sessions[s].state = "live"
               PROVE  sessions[s].under = Standing(user[sessions[s].user], cred[sessions[s].user].password)
    BY DEF SessionsPostdateChanges
  <2>1. s \in 1 .. MaxSessions
    BY DEF AuthInd, Shapes
  <2>2. SessionSound(s)
    BY <2>1 DEF AuthInd
  <2> QED
    BY <2>2 DEF SessionSound
<1> QED
  BY <1>1, AuthIndHolds, PTL

(* A handler gets from a session's check to the user's roles only by Touch: what
   other handlers do does not move it. *)
LEMMA OnlyTouchAccepts ==
    ASSUME Shapes, [Next]_vars, NEW h \in Handlers, At(h, "touch"), job'[h].pc = "roles"
    PROVE  Touch(h)
<1>0. job \in [Handlers -> Jobs] /\ job[h].pc = "touch"
  BY DEF Shapes, At
<1>1. job'[h] # job[h]
  BY <1>0
<1>2. ~ Finish(h)
  BY <1>0 DEF Finish, Blank
<1>3. ASSUME NEW g \in Handlers, g # h, NEW j, job' = [job EXCEPT ![g] = j] PROVE FALSE
  BY <1>0, <1>1, <1>3
<1>4. ASSUME NEW g \in Handlers, g # h, Finish(g) PROVE FALSE
  BY <1>3, <1>4 DEF Finish
<1>5. ASSUME NEW g \in Handlers, g # h, NEW p, Goto(g, p) PROVE FALSE
  BY <1>0, <1>1, <1>5 DEF Goto
<1>6. ASSUME NEW g \in Handlers, NEW r, Take(g, r) PROVE FALSE
  <2>1. CASE g = h
    BY <1>0, <1>6, <2>1 DEF Take, At
  <2>2. CASE g # h
    BY <1>3, <1>6, <2>2 DEF Take
  <2> QED
    BY <2>1, <2>2
<1>7. ASSUME NEW g \in Handlers, g # h, Handle(g) PROVE FALSE
  <2>1. CASE Finish(g) \/ \E p : Goto(g, p)
    BY <1>4, <1>5, <1>7, <2>1
  <2>2. CASE Allow(g)
    BY <1>0, <1>1, <1>7, <2>2 DEF Allow
  <2>3. CASE \E s \in DOMAIN sessions : Present(g, s)
    BY <1>0, <1>1, <1>7, <2>3 DEF Present
  <2>4. CASE Begin(g)
    BY <1>0, <1>1, <1>7, <2>4 DEF Begin
  <2>5. CASE ReadRole(g)
    BY <1>0, <1>1, <1>7, <2>5 DEF ReadRole
  <2>6. CASE Verify(g)
    BY <2>1, <2>6 DEF Verify
  <2>7. CASE ReadRoles(g)
    BY <2>1, <2>7 DEF ReadRoles
  <2>8. CASE LockUser(g)
    BY <2>1, <2>8 DEF LockUser
  <2>9. CASE CountAdministrators(g) \/ CheckBootstrap(g)
    BY <2>1, <2>9 DEF CountAdministrators, CheckBootstrap
  <2>10. CASE \/ RateLimited(g) \/ RecordFailure(g) \/ CreateSession(g) \/ Unauthenticated(g) \/ Logout(g)
              \/ CreateUser(g) \/ UpdateManagedUser(g) \/ ResetPassword(g) \/ AssignRole(g)
              \/ SetLocalUserEnabled(g) \/ BootstrapAdmin(g)
    <3>1. Finish(g)
      BY <2>10 DEF RateLimited, RecordFailure, CreateSession, Unauthenticated, Logout, CreateUser,
         UpdateManagedUser, ResetPassword, AssignRole, SetLocalUserEnabled, BootstrapAdmin
    <3> QED
      BY <2>1, <3>1
  <2>11. CASE ClearFailures(g) \/ Touch(g) \/ LockUpdates(g) \/ LockBootstrap(g)
    <3>1. \E p : Goto(g, p)
      BY <2>11 DEF ClearFailures, Touch, LockUpdates, LockBootstrap
    <3> QED
      BY <2>1, <3>1
  <2> QED
    BY <1>7, <2>2, <2>3, <2>4, <2>5, <2>6, <2>7, <2>8, <2>9, <2>10, <2>11 DEF Handle
<1>8. ASSUME Handle(h), ~ Touch(h) PROVE FALSE
  <2>1. ~ (\E s \in DOMAIN sessions : Present(h, s))
    BY <1>0 DEF Present, At
  <2>2. Unauthenticated(h)
    BY <1>0, <1>8, <2>1 DEF Handle, At, Allow, RateLimited, Verify, RecordFailure, ClearFailures, CreateSession,
       ReadRoles, Logout, CreateUser, Begin, LockUpdates, ReadRole, LockUser, CountAdministrators,
       UpdateManagedUser, ResetPassword, AssignRole, SetLocalUserEnabled, LockBootstrap, CheckBootstrap,
       BootstrapAdmin
  <2> QED
    BY <1>2, <2>2 DEF Unauthenticated
<1>9. ASSUME NEW g \in Handlers, Fail(g) \/ DeadlockVictim(g) PROVE FALSE
  BY <1>2, <1>4, <1>9 DEF Fail, DeadlockVictim
<1>10. ~ (DeleteExpiredSessions \/ Tick \/ UNCHANGED vars)
  BY <1>1 DEF DeleteExpiredSessions, Tick, vars
<1> QED
  BY <1>6, <1>7, <1>8, <1>9, <1>10 DEF Next

(* A session is accepted only within Idle of an earlier use and before its absolute
   expiry, whichever requests overtake one another. *)
THEOREM LifetimesHold == Spec => LifetimesKept
<1> USE AuthAssumption
<1>1. AuthInd /\ [Next]_vars =>
        [\A h \in Handlers :
            (At(h, "touch") /\ job'[h].pc = "roles") =>
                LET session == sessions[job[h].session]
                IN  /\ job[h].at < used[job[h].session] + Idle
                    /\ job[h].at < session.absolute
                    /\ sessions'[job[h].session].expires <= session.absolute]_vars
  <2> SUFFICES ASSUME AuthInd, [Next]_vars, NEW h \in Handlers, At(h, "touch"), job'[h].pc = "roles"
               PROVE  /\ job[h].at < used[job[h].session] + Idle
                      /\ job[h].at < sessions[job[h].session].absolute
                      /\ sessions'[job[h].session].expires <= sessions[job[h].session].absolute
    OBVIOUS
  <2> DEFINE s == job[h].session
             at == job[h].at
             next == Least(at + Idle, sessions[s].absolute)
  <2>0. Shapes /\ JobSound(h) /\ \A t \in 1 .. MaxSessions : SessionSound(t)
    BY DEF AuthInd
  <2>1. Touch(h)
    BY <2>0, OnlyTouchAccepts
  <2>2. /\ s \in 1 .. MaxSessions /\ at \in Nat /\ sessions[s] \in SessionRows
        /\ sessions \in [1 .. MaxSessions -> SessionRows] /\ used[s] \in Nat /\ Idle \in Nat
    <3>1. s \in 0 .. MaxSessions /\ at \in 0 .. Horizon
      BY <2>0, JobTyped
    <3>2. s # 0
      BY <2>0 DEF JobSound, At
    <3>3. s \in 1 .. MaxSessions /\ at \in Nat /\ Idle \in Nat
      BY <3>1, <3>2
    <3> QED
      BY <2>0, <3>3 DEF Shapes
  <2>3. /\ sessions[s].state = "live" /\ sessions[s].expires > at /\ sessions[s].absolute > at
        /\ sessions' = [sessions EXCEPT ![s].expires = next]
    BY <2>1 DEF Touch, Acceptable
  <2>4. sessions[s].expires <= used[s] + Idle
    BY <2>0, <2>2, <2>3 DEF SessionSound
  <2>5. sessions[s].expires \in Nat /\ sessions[s].absolute \in Nat
    BY <2>2 DEF SessionRows
  <2>6. next <= sessions[s].absolute
    <3>1. \A a, b \in Nat : Least(a, b) <= b
      BY DEF Least
    <3>2. at \in Nat /\ Idle \in Nat
      BY <2>2
    <3> HIDE DEF s, at
    <3>3. at + Idle \in Nat
      BY <3>2
    <3> QED
      BY <2>5, <3>1, <3>3
  <2>7. at < used[s] + Idle /\ at < sessions[s].absolute
    <3>1. at \in Nat /\ Idle \in Nat /\ used[s] \in Nat /\ sessions[s].expires > at /\ sessions[s].absolute > at
      BY <2>2, <2>3
    <3> HIDE DEF s, at
    <3> QED
      BY <2>4, <2>5, <3>1
  <2> HIDE DEF s, at, next
  <2>8. sessions'[s].expires <= sessions[s].absolute
    <3>1. sessions'[s] = [sessions[s] EXCEPT !.expires = next]
      BY <2>2, <2>3
    <3>2. sessions'[s].expires = next
      BY <2>2, <3>1 DEF SessionRows
    <3> QED
      BY <2>6, <3>2
  <2> QED
    BY <2>7, <2>8 DEF s, at
<1> QED
  BY <1>1, AuthIndHolds, PTL DEF Spec, LifetimesKept

(* An administrator's update replaces the row that was shown to them: between the
   comparison of updated_at and the commit nobody else writes it. *)
THEOREM UpdatesKept == Spec => NoLostUserUpdate
<1> USE AuthAssumption
<1>1. AuthInd =>
        \A h \in Handlers :
            (At(h, "write") /\ Req(h).op = "update" /\ user'[Req(h).user] # user[Req(h).user])
                => [user[Req(h).user] EXCEPT !.role = None] = [job[h].seen EXCEPT !.role = None]
  <2> SUFFICES ASSUME AuthInd, NEW h \in Handlers, At(h, "write"), Req(h).op = "update"
               PROVE  [user[Req(h).user] EXCEPT !.role = None] = [job[h].seen EXCEPT !.role = None]
    OBVIOUS
  <2> DEFINE now == user[Req(h).user]
             seen == job[h].seen
  <2>0. Shapes /\ JobSound(h)
    BY DEF AuthInd
  <2>1. job[h].pc # "idle" /\ HoldsRow(h) /\ Updates(h, {"count", "write"})
    BY DEF At, HoldsRow, Updates
  <2>2. /\ Req(h) \in Wanted /\ now # None /\ seen # None
        /\ now.stamp = seen.stamp /\ now.enabled = seen.enabled
    BY <2>0, <2>1 DEF JobSound
  <2>3. now \in UserRows
    <3>1. Req(h).user \in Names
      BY <2>2, RequestTyped
    <3> QED
      BY <2>0, <2>2, <3>1 DEF Shapes
  <2>4. seen \in UserRows
    <3>1. seen \in UserRows \cup {None}
      BY <2>0, JobTyped
    <3> QED
      BY <2>2, <3>1
  <2> HIDE DEF now, seen
  <2>5. [now EXCEPT !.role = None] = [seen EXCEPT !.role = None]
    BY <2>2, <2>3, <2>4 DEF UserRows
  <2> QED
    BY <2>5 DEF now, seen
<1> QED
  BY <1>1, AuthIndHolds, PTL DEF Spec, NoLostUserUpdate

-----------------------------------------------------------------------------
(* Guesses.  m * (m - 1) is twice the number of pairs among m. *)
Pairs(m) == m * (m - 1)

(* Logins of n with a wrong password that are still to be counted, with a date
   within a lockout from t on. *)
Pending(n, t) ==
    {h \in Handlers : /\ job[h].pc = "failure" /\ job[h].req.user = n
                      /\ t <= job[h].at /\ job[h].at < t + Lockout}

(* Handlers that hold no login of n with a clock reading from before t. *)
Recent(n, t) ==
    {h \in Handlers : ~ (job[h].pc \in {"credential", "failure"} /\ job[h].req.user = n /\ job[h].at < t)}

(* A login that read the clock before the end of the lockout from t on may pass. *)
Open(n, t) == cred[n].failed < FailureLimit \/ cred[n].locked < t + Lockout

(* While the account is open, the guesses that are counted leave room for one of
   each handler without an old reading; closed, they are bounded with the pending
   ones.  An old reading that reopens the account is used up by doing so. *)
GuessSound(n, t) ==
    LET v == Cardinality(Within(wrong[n], t))
        p == Cardinality(Pending(n, t))
        m == Cardinality(Recent(n, t))
    IN  /\ Open(n, t) => 2 * v <= 2 * (FailureLimit - 1) + Pairs(m)
        /\ 2 * (v + p) <= 2 * (FailureLimit - 1) + Pairs(m + 1)

(* The failures counted for n are as many as its row says, and lie in the past. *)
WrongSound(n) ==
    /\ wrong[n] \in Seq(Nat) /\ Len(wrong[n]) = cred[n].failed
    /\ \A i \in 1 .. Len(wrong[n]) : wrong[n][i] <= clock
    /\ user[n] = None => wrong[n] = <<>>

(* A reading of the clock lies in the past, and only a user's login is counted. *)
ReadingSound(h) ==
    /\ job[h].at <= clock
    /\ job[h].pc = "failure" => user[job[h].req.user] # None

(* The inductive invariant for the guesses. *)
GuessInd ==
    /\ AuthInd /\ wrong \in [Names -> Seq(Nat)]
    /\ \A n \in Names : WrongSound(n)
    /\ \A n \in Names : \A t \in 1 .. Horizon : GuessSound(n, t)
    /\ \A h \in Handlers : ReadingSound(h)

(* Sums of the numbers up to m. *)
LEMMA PairsGrow ==
    /\ \A m \in Nat : Pairs(m) \in Nat /\ Pairs(m + 1) = Pairs(m) + 2 * m
    /\ \A k, m \in Nat : k <= m => Pairs(k) <= Pairs(m)
<1>1. ASSUME NEW m \in Nat PROVE Pairs(m) \in Nat /\ Pairs(m + 1) = Pairs(m) + 2 * m
  <2>1. m * (m - 1) >= 0
    <3>1. CASE m = 0
      BY <3>1
    <3>2. CASE m > 0
      BY <3>2
    <3> QED
      BY <3>1, <3>2
  <2>2. (m + 1) * ((m + 1) - 1) = m * (m - 1) + 2 * m
    OBVIOUS
  <2> QED
    BY <2>1, <2>2 DEF Pairs
<1>2. ASSUME NEW k \in Nat, NEW m \in Nat, k <= m PROVE Pairs(k) <= Pairs(m)
  <2>1. PICK d \in Nat : m = k + d
    <3>1. m - k \in Nat /\ m = k + (m - k)
      BY <1>2
    <3> QED
      BY <3>1
  <2>2. CASE d = 0
    <3>1. m = k
      BY <2>1, <2>2
    <3>2. k * (k - 1) \in Int
      OBVIOUS
    <3> QED
      BY <3>1, <3>2 DEF Pairs
  <2>3. CASE d > 0
    <3>1. m * (m - 1) = k * (k - 1) + (2 * (k * d) + d * (d - 1))
      BY <2>1
    <3>2. k * d \in Nat /\ d * (d - 1) \in Nat
      BY <2>3
    <3>3. m * (m - 1) \in Int /\ k * (k - 1) \in Int
      OBVIOUS
    <3> QED
      BY <3>1, <3>2, <3>3 DEF Pairs
  <2> QED
    BY <2>1, <2>2, <2>3
<1> QED
  BY <1>1, <1>2

(* Sets of handlers are finite. *)
LEMMA HandlersSized ==
    ASSUME NEW p, NEW m, p \subseteq m, m \subseteq Handlers
    PROVE  /\ Cardinality(p) \in Nat /\ Cardinality(m) \in Nat /\ Cardinality(Handlers) \in Nat
           /\ Cardinality(p) <= Cardinality(m) /\ Cardinality(m) <= Cardinality(Handlers)
<1>1. IsFiniteSet(Handlers)
  BY AuthAssumption
<1>2. IsFiniteSet(m) /\ Cardinality(m) <= Cardinality(Handlers)
  BY <1>1, FS_Subset
<1>3. IsFiniteSet(p) /\ Cardinality(p) <= Cardinality(m)
  BY <1>2, FS_Subset
<1> QED
  BY <1>1, <1>2, <1>3, FS_CardinalityType

(* Dates within a lockout are at most as many as there are dates. *)
LEMMA WithinSized ==
    ASSUME NEW dates \in Seq(Nat), NEW t \in Nat
    PROVE  /\ IsFiniteSet(Within(dates, t)) /\ Cardinality(Within(dates, t)) \in Nat
           /\ Cardinality(Within(dates, t)) <= Len(dates)
<1>1. 1 \in Int /\ Len(dates) \in Int /\ Len(dates) >= 0 /\ DOMAIN dates = 1 .. Len(dates)
  OBVIOUS
<1>2. IsFiniteSet(1 .. Len(dates)) /\ Cardinality(1 .. Len(dates)) = Len(dates)
  <2>1. PICK k : k = Len(dates)
    OBVIOUS
  <2>2. k \in Int /\ 1 \in Int /\ k >= 0
    BY <1>1, <2>1
  <2>3. IsFiniteSet(1 .. k) /\ Cardinality(1 .. k) = IF 1 > k THEN 0 ELSE k - 1 + 1
    BY <2>2, FS_Interval
  <2>4. Cardinality(1 .. k) = k
    BY <2>2, <2>3
  <2> QED
    BY <2>1, <2>3, <2>4
<1>3. Within(dates, t) \in SUBSET (1 .. Len(dates))
  BY <1>1 DEF Within
<1>4. IsFiniteSet(Within(dates, t)) /\ Cardinality(Within(dates, t)) <= Cardinality(1 .. Len(dates))
  BY <1>2, <1>3, FS_Subset
<1> QED
  BY <1>2, <1>4, FS_CardinalityType

(* One more date is one more within the lockout, or none. *)
LEMMA WithinAppended ==
    ASSUME NEW dates \in Seq(Nat), NEW t \in Nat, NEW d \in Nat, Lockout \in Nat
    PROVE  LET more == Cardinality(Within(Append(dates, d), t)) IN
           /\ t <= d /\ d < t + Lockout => more = Cardinality(Within(dates, t)) + 1
           /\ ~ (t <= d /\ d < t + Lockout) => more = Cardinality(Within(dates, t))
<1>1. PICK k : k = Len(dates) + 1
  OBVIOUS
<1>2. PICK longer : longer = Append(dates, d)
  OBVIOUS
<1>3. /\ longer \in Seq(Nat) /\ DOMAIN longer = 1 .. k /\ DOMAIN dates = 1 .. Len(dates) /\ k \in Nat
      /\ longer[k] = d /\ \A i \in 1 .. Len(dates) : longer[i] = dates[i]
  BY <1>1, <1>2
<1>4. 1 .. k = (1 .. Len(dates)) \cup {k} /\ k \notin 1 .. Len(dates)
  BY <1>1
<1>5. k \notin Within(dates, t)
  BY <1>3, <1>4 DEF Within
<1>6. IsFiniteSet(Within(dates, t)) /\ Cardinality(Within(dates, t)) \in Nat
  BY WithinSized
<1>7. ASSUME t <= d, d < t + Lockout PROVE Cardinality(Within(longer, t)) = Cardinality(Within(dates, t)) + 1
  <2>1. Within(longer, t) = Within(dates, t) \cup {k}
    BY <1>3, <1>4, <1>7 DEF Within
  <2> QED
    BY <1>5, <1>6, <2>1, FS_AddElement
<1>8. ASSUME ~ (t <= d /\ d < t + Lockout) PROVE Within(longer, t) = Within(dates, t)
  BY <1>3, <1>4, <1>8 DEF Within
<1> QED
  BY <1>2, <1>7, <1>8

(* Limits as numbers. *)
LEMMA Limits == FailureLimit \in Nat /\ FailureLimit >= 1 /\ Lockout \in Nat /\ Lockout >= 1 /\ Horizon \in Nat
BY AuthAssumption

(* A step that counts nothing for n, admits none of its logins and leaves no
   handler with an older reading. *)
LEMMA GuessesCalm ==
    ASSUME NEW n \in Names, NEW t \in Nat, wrong[n] \in Seq(Nat), GuessSound(n, t),
           Cardinality(Within(wrong'[n], t)) = Cardinality(Within(wrong[n], t)), Open(n, t)' => Open(n, t),
           Pending(n, t)' \subseteq Pending(n, t), Recent(n, t) \subseteq Recent(n, t)'
    PROVE  GuessSound(n, t)'
<1>1. PICK v : v = Cardinality(Within(wrong[n], t))
  OBVIOUS
<1>2. PICK p : p = Cardinality(Pending(n, t))
  OBVIOUS
<1>3. PICK q : q = Cardinality(Pending(n, t)')
  OBVIOUS
<1>4. PICK m : m = Cardinality(Recent(n, t))
  OBVIOUS
<1>5. PICK k : k = Cardinality(Recent(n, t)')
  OBVIOUS
<1>6. v \in Nat
  BY <1>1, WithinSized
<1>7. p \in Nat /\ q \in Nat /\ q <= p
  <2>1. Pending(n, t) \subseteq Handlers
    BY DEF Pending
  <2> QED
    BY <1>2, <1>3, <2>1, HandlersSized
<1>8. m \in Nat /\ k \in Nat /\ m <= k
  <2>1. Recent(n, t)' \subseteq Handlers
    BY DEF Recent
  <2> QED
    BY <1>4, <1>5, <2>1, HandlersSized
<1>9. Pairs(m) \in Nat /\ Pairs(k) \in Nat /\ Pairs(m) <= Pairs(k)
      /\ Pairs(m + 1) = Pairs(m) + 2 * m /\ Pairs(k + 1) = Pairs(k) + 2 * k
  BY <1>8, PairsGrow
<1>10. /\ Open(n, t) => 2 * v <= 2 * (FailureLimit - 1) + Pairs(m)
       /\ 2 * (v + p) <= 2 * (FailureLimit - 1) + Pairs(m + 1)
  BY <1>1, <1>2, <1>4 DEF GuessSound
<1>12. Open(n, t)' => 2 * v <= 2 * (FailureLimit - 1) + Pairs(k)
  BY <1>6, <1>8, <1>9, <1>10, Limits
<1>13. 2 * (v + q) <= 2 * (FailureLimit - 1) + Pairs(k + 1)
  BY <1>6, <1>7, <1>8, <1>9, <1>10, Limits
<1>14. v = Cardinality(Within(wrong'[n], t))
  BY <1>1
<1> QED
  BY <1>3, <1>5, <1>12, <1>13, <1>14 DEF GuessSound

(* A step after which a login of n may be admitted where one could before. *)
LEMMA GuessAdmitted ==
    ASSUME NEW n \in Names, NEW t \in Nat, wrong'[n] \in Seq(Nat), \A h \in Handlers : job'[h].at \in Nat,
           2 * Cardinality(Within(wrong'[n], t)) <= 2 * (FailureLimit - 1) + Pairs(Cardinality(Recent(n, t)'))
    PROVE  GuessSound(n, t)'
<1>1. PICK v : v = Cardinality(Within(wrong'[n], t))
  OBVIOUS
<1>2. PICK q : q = Cardinality(Pending(n, t)')
  OBVIOUS
<1>3. PICK k : k = Cardinality(Recent(n, t)')
  OBVIOUS
<1>4. v \in Nat
  BY <1>1, WithinSized
<1>5. Pending(n, t)' \subseteq Recent(n, t)' /\ Recent(n, t)' \subseteq Handlers
  <2>1. ASSUME NEW h \in Pending(n, t)' PROVE h \in Recent(n, t)'
    <3>1. h \in Handlers /\ job'[h].at \in Nat /\ t <= job'[h].at
      BY DEF Pending
    <3>2. ~ (job'[h].at < t)
      BY <3>1
    <3> QED
      BY <3>1, <3>2 DEF Recent
  <2> QED
    BY <2>1 DEF Recent
<1>6. q \in Nat /\ k \in Nat /\ q <= k
  BY <1>2, <1>3, <1>5, HandlersSized
<1>7. Pairs(k) \in Nat /\ Pairs(k + 1) = Pairs(k) + 2 * k
  BY <1>6, PairsGrow
<1>8. 2 * v <= 2 * (FailureLimit - 1) + Pairs(k)
  BY <1>1, <1>3
<1>9. 2 * (v + q) <= 2 * (FailureLimit - 1) + Pairs(k + 1)
  BY <1>4, <1>6, <1>7, <1>8, Limits
<1> QED
  BY <1>1, <1>2, <1>3, <1>8, <1>9 DEF GuessSound

(* Where no guess falls into the window, whoever is pending has room. *)
LEMMA GuessesNone ==
    ASSUME NEW n \in Names, NEW t \in Nat, wrong'[n] \in Seq(Nat), \A h \in Handlers : job'[h].at \in Nat,
           Within(wrong'[n], t) = {}
    PROVE  GuessSound(n, t)'
<1>1. Cardinality(Within(wrong'[n], t)) = 0
  BY FS_EmptySet
<1>2. PICK k : k = Cardinality(Recent(n, t)')
  OBVIOUS
<1>3. k \in Nat
  <2>1. Recent(n, t)' \subseteq Handlers
    BY DEF Recent
  <2> QED
    BY <1>2, <2>1, HandlersSized
<1>4. Pairs(k) \in Nat
  BY <1>3, PairsGrow
<1>5. 0 <= 2 * (FailureLimit - 1) + Pairs(k)
  BY <1>4, Limits
<1>6. 2 * 0 <= 2 * (FailureLimit - 1) + Pairs(k)
  BY <1>5
<1>7. 2 * Cardinality(Within(wrong'[n], t)) <= 2 * (FailureLimit - 1) + Pairs(Cardinality(Recent(n, t)'))
  BY <1>1, <1>2, <1>6
<1> QED
  BY <1>7, GuessAdmitted

(* The row and the history of the login h counts as a failure, after it. *)
FailureOf(h, n) ==
    /\ n \in Names /\ n = job[h].req.user /\ job[h].pc = "failure" /\ job[h].at \in Nat
    /\ cred[n].failed \in Nat /\ cred[n].locked \in Nat
    /\ cred'[n].failed = cred[n].failed + 1
    /\ cred'[n].locked = IF cred[n].failed + 1 >= FailureLimit THEN job[h].at + Lockout ELSE cred[n].locked
    /\ wrong'[n] = Append(wrong[n], job[h].at)
    /\ \A m \in Names \ {n} : cred'[m] = cred[m] /\ wrong'[m] = wrong[m]
    /\ job' \in [Handlers -> Jobs] /\ job'[h].pc = "idle" /\ job'[h].at = 0
    /\ \A g \in Handlers \ {h} : job'[g] = job[g]

(* A failure is counted for the user of the login. *)
LEMMA FailureCounts ==
    ASSUME AuthInd, wrong \in [Names -> Seq(Nat)], NEW h \in Handlers, RecordFailure(h)
    PROVE  FailureOf(h, Req(h).user)
<1>1. Shapes /\ JobSound(h) /\ job[h].pc = "failure"
  BY DEF AuthInd, RecordFailure, At
<1>2. PICK n : n = Req(h).user
  OBVIOUS
<1>3. PICK locked : locked = IF cred[n].failed + 1 >= FailureLimit THEN job[h].at + Lockout ELSE cred[n].locked
  OBVIOUS
<1>4. PICK failed : failed = cred[n].failed + 1
  OBVIOUS
<1>5. n \in Names /\ job[h].at \in Nat /\ n = job[h].req.user
  BY <1>1, <1>2, JobTyped, RequestTyped DEF JobSound, Req
<1>6. cred \in [Names -> Credentials] /\ cred[n] \in Credentials
  BY <1>1, <1>5 DEF Shapes
<1>7. cred[n].failed \in Nat /\ cred[n].locked \in Nat
  BY <1>6 DEF Credentials
<1>8. cred' = [cred EXCEPT ![n].failed = failed, ![n].locked = locked]
  BY <1>2, <1>3, <1>4 DEF RecordFailure
<1>9. cred'[n] = [cred[n] EXCEPT !.failed = failed, !.locked = locked] /\ \A m \in Names \ {n} : cred'[m] = cred[m]
  BY <1>5, <1>6, <1>8
<1>10. cred'[n].failed = failed /\ cred'[n].locked = locked
  BY <1>6, <1>9 DEF Credentials
<1>11. wrong' = [wrong EXCEPT ![n] = Append(wrong[n], job[h].at)]
  BY <1>2 DEF RecordFailure
<1>12. wrong'[n] = Append(wrong[n], job[h].at) /\ \A m \in Names \ {n} : wrong'[m] = wrong[m]
  BY <1>5, <1>11
<1>13. job' \in [Handlers -> Jobs] /\ job'[h].pc = "idle" /\ \A g \in Handlers \ {h} : job'[g] = job[g]
  BY <1>1, FinishEnds DEF RecordFailure
<1>14. job'[h].at = 0
  BY <1>1 DEF RecordFailure, Finish, Blank, Shapes
<1> QED
  BY <1>1, <1>2, <1>3, <1>4, <1>5, <1>7, <1>9, <1>10, <1>12, <1>13, <1>14 DEF FailureOf

(* Counting a guess keeps the bound: one dated in the window was pending, and the
   account is then closed to the window or below its limit; an older one uses up
   its handler's old reading; a later one locks the account beyond the window. *)
LEMMA GuessCounted ==
    ASSUME AuthInd, NEW n \in Names, NEW t \in Nat, wrong[n] \in Seq(Nat), Len(wrong[n]) = cred[n].failed,
           GuessSound(n, t), NEW h \in Handlers, FailureOf(h, n)
    PROVE  GuessSound(n, t)'
<1>0. \A g \in Handlers : job[g].at \in Nat /\ job'[g].at \in Nat
  <2>1. ASSUME NEW g \in Handlers PROVE job[g].at \in Nat
    BY JobTyped DEF AuthInd
  <2>2. job'[h].at \in Nat /\ \A g \in Handlers \ {h} : job'[g] = job[g]
    BY DEF FailureOf
  <2> QED
    BY <2>1, <2>2
<1>1. PICK at : at = job[h].at
  OBVIOUS
<1>2. /\ at \in Nat /\ job[h].pc = "failure" /\ job[h].req.user = n /\ job'[h].pc = "idle"
      /\ \A g \in Handlers \ {h} : job'[g] = job[g]
      /\ wrong'[n] = Append(wrong[n], at)
      /\ cred[n].failed \in Nat /\ cred[n].locked \in Nat /\ cred'[n].failed = cred[n].failed + 1
      /\ cred'[n].locked = IF cred[n].failed + 1 >= FailureLimit THEN at + Lockout ELSE cred[n].locked
  BY <1>1 DEF FailureOf
<1>3. PICK v : v = Cardinality(Within(wrong[n], t))
  OBVIOUS
<1>4. PICK p : p = Cardinality(Pending(n, t))
  OBVIOUS
<1>5. PICK m : m = Cardinality(Recent(n, t))
  OBVIOUS
<1>6. v \in Nat /\ wrong'[n] \in Seq(Nat) /\ Len(wrong'[n]) = Len(wrong[n]) + 1
  <2>1. v \in Nat
    BY <1>3, WithinSized
  <2> QED
    BY <1>2, <2>1
<1>7. Pending(n, t) \subseteq Handlers /\ Recent(n, t) \subseteq Handlers
  BY DEF Pending, Recent
<1>8. p \in Nat /\ m \in Nat
  BY <1>4, <1>5, <1>7, HandlersSized
<1>9. IsFiniteSet(Pending(n, t)) /\ IsFiniteSet(Recent(n, t))
  BY <1>7, AuthAssumption, FS_Subset
<1>10. /\ Pairs(m) \in Nat /\ Pairs(m + 1) \in Nat
       /\ Pairs(m + 1) = Pairs(m) + 2 * m
  <2>1. m + 1 \in Nat
    BY <1>8
  <2> QED
    BY <1>8, <2>1, PairsGrow
<1>11. /\ Open(n, t) => 2 * v <= 2 * (FailureLimit - 1) + Pairs(m)
       /\ 2 * (v + p) <= 2 * (FailureLimit - 1) + Pairs(m + 1)
  BY <1>3, <1>4, <1>5 DEF GuessSound
<1>12. /\ t <= at /\ at < t + Lockout => Cardinality(Within(wrong'[n], t)) = v + 1
       /\ ~ (t <= at /\ at < t + Lockout) => Cardinality(Within(wrong'[n], t)) = v
  BY <1>2, <1>3, Limits, WithinAppended
<1>13. CASE t <= at /\ at < t + Lockout
  <2>1. Pending(n, t)' = Pending(n, t) \ {h} /\ h \in Pending(n, t)
    BY <1>1, <1>2, <1>13 DEF Pending
  <2>2. Cardinality(Pending(n, t)') = p - 1
    BY <1>4, <1>9, <2>1, FS_RemoveElement
  <2>3. Recent(n, t)' = Recent(n, t)
    <3>1. h \in Recent(n, t) /\ h \in Recent(n, t)'
      BY <1>1, <1>2, <1>13 DEF Recent
    <3>2. ASSUME NEW g \in Handlers \ {h} PROVE g \in Recent(n, t) <=> g \in Recent(n, t)'
      BY <1>2 DEF Recent
    <3>3. Recent(n, t)' \subseteq Handlers
      BY DEF Recent
    <3>4. \A g : g \in Recent(n, t) <=> g \in Recent(n, t)'
      BY <1>7, <3>1, <3>2, <3>3
    <3> QED
      BY <3>4
  <2>4. Cardinality(Recent(n, t)') = m
    BY <1>5, <2>3
  <2>5. Cardinality(Within(wrong'[n], t)) = v + 1 /\ v + 1 <= cred[n].failed + 1
    <3>1. Cardinality(Within(wrong'[n], t)) <= Len(wrong'[n])
      BY <1>6, WithinSized
    <3> QED
      BY <1>6, <1>12, <1>13, <3>1
  <2>6. Open(n, t)' => cred[n].failed + 1 < FailureLimit
    BY <1>2, <1>13, Limits DEF Open
  <2>7. Open(n, t)' => 2 * (v + 1) <= 2 * (FailureLimit - 1) + Pairs(m)
    BY <1>2, <1>6, <1>10, <2>5, <2>6, Limits
  <2>8. 2 * ((v + 1) + (p - 1)) <= 2 * (FailureLimit - 1) + Pairs(m + 1)
    BY <1>6, <1>8, <1>11
  <2> QED
    BY <2>2, <2>4, <2>5, <2>7, <2>8 DEF GuessSound
<1>14. CASE at < t
  <2>1. h \notin Recent(n, t) /\ Recent(n, t)' = Recent(n, t) \cup {h}
    <3>1. h \notin Recent(n, t) /\ h \in Recent(n, t)'
      BY <1>1, <1>2, <1>14 DEF Recent
    <3>2. ASSUME NEW g \in Handlers \ {h} PROVE g \in Recent(n, t) <=> g \in Recent(n, t)'
      BY <1>2 DEF Recent
    <3>3. Recent(n, t)' \subseteq Handlers
      BY DEF Recent
    <3> QED
      BY <1>7, <3>1, <3>2, <3>3
  <2>2. Cardinality(Recent(n, t)') = m + 1
    BY <1>5, <1>9, <2>1, FS_AddElement
  <2>3. Cardinality(Within(wrong'[n], t)) = v
    BY <1>2, <1>12, <1>14
  <2>4. 2 * v <= 2 * (FailureLimit - 1) + Pairs(m + 1)
    BY <1>6, <1>8, <1>10, <1>11, Limits
  <2>5. 2 * Cardinality(Within(wrong'[n], t)) <= 2 * (FailureLimit - 1) + Pairs(Cardinality(Recent(n, t)'))
    BY <2>2, <2>3, <2>4
  <2> QED
    BY <1>0, <1>6, <2>5, GuessAdmitted
<1>15. CASE at >= t + Lockout
  <2>1. Cardinality(Within(wrong'[n], t)) = Cardinality(Within(wrong[n], t))
    BY <1>2, <1>3, <1>12, <1>15, Limits
  <2>2. Open(n, t)' => Open(n, t)
    BY <1>2, <1>15, Limits DEF Open
  <2>3. Pending(n, t)' \subseteq Pending(n, t)
    BY <1>2 DEF Pending
  <2>4. Recent(n, t) \subseteq Recent(n, t)'
    BY <1>2 DEF Recent
  <2> QED
    BY <2>1, <2>2, <2>3, <2>4, GuessesCalm
<1> QED
  BY <1>2, <1>13, <1>14, <1>15, Limits

(* A handler at the credential, or about to count a failure, was there before with
   the same login. *)
KeepsLogin(g) ==
    job'[g].pc \in {"credential", "failure"} =>
        job'[g].pc = job[g].pc /\ job'[g].req = job[g].req /\ job'[g].at = job[g].at

(* Where logins are kept none becomes pending, and none gets an older reading. *)
LEMMA LoginsKept ==
    ASSUME \A g \in Handlers : KeepsLogin(g), NEW n, NEW t
    PROVE  Pending(n, t)' \subseteq Pending(n, t) /\ Recent(n, t) \subseteq Recent(n, t)'
<1>1. ASSUME NEW g \in Pending(n, t)' PROVE g \in Pending(n, t)
  <2>1. g \in Handlers /\ KeepsLogin(g)
    BY DEF Pending
  <2> QED
    BY <2>1 DEF Pending, KeepsLogin
<1>2. ASSUME NEW g \in Recent(n, t) PROVE g \in Recent(n, t)'
  <2>1. g \in Handlers /\ KeepsLogin(g)
    BY DEF Recent
  <2> QED
    BY <2>1 DEF Recent, KeepsLogin
<1> QED
  BY <1>1, <1>2

(* The steps of a handler that are not those of a login's first half: it ends, goes
   to another step, or begins a request. *)
Elsewhere(h) ==
    \/ Finish(h)
    \/ \E p \in Steps \ {"credential", "failure"} : Goto(h, p)
    \/ \E p \in Steps \ {"credential", "failure"} :
          /\ Moved(h, p) /\ job'[h].at \in {job[h].at, clock}
    \/ /\ job' \in [Handlers -> Jobs] /\ \A g \in Handlers \ {h} : job'[g] = job[g]
       /\ job'[h].pc \notin {"credential", "failure"} /\ job'[h].at = 0

(* Every step of the system leaves the logins alone, lets one pass the limiter, or
   compares a password. *)
LEMMA LoginSteps ==
    ASSUME AuthInd, Next
    PROVE  \/ UNCHANGED job
           \/ \E h \in Handlers : Allow(h) \/ Verify(h) \/ Elsewhere(h)
<1>0. Shapes /\ job \in [Handlers -> Jobs]
  BY DEF AuthInd, Shapes
<1>1. ASSUME NEW h \in Handlers, NEW r \in todo, Take(h, r) PROVE Elsewhere(h)
  <2>1. r \in Wanted
    BY <1>0 DEF Shapes
  <2>2. FirstStep(r.op) \in Steps \ {"credential", "failure"} /\ user[r.user] \in UserRows \cup {None}
    <3>1. r.user \in Names
      BY <2>1, RequestTyped
    <3>2. FirstStep(r.op) \in Steps \ {"credential", "failure"}
      BY DEF FirstStep, Steps
    <3> QED
      BY <1>0, <3>1, <3>2 DEF Shapes
  <2>3. PICK j : j = [Blank EXCEPT !.pc = FirstStep(r.op), !.req = r, !.seen = user[r.user]]
    OBVIOUS
  <2>4. j \in Jobs /\ j.pc = FirstStep(r.op) /\ j.at = 0
    <3>1. Blank \in Jobs /\ Blank.at = 0
      <4>1. 0 \in 0 .. Horizon /\ 0 \in 0 .. MaxSessions
        BY AuthAssumption
      <4> QED
        BY <4>1 DEF Blank, Jobs, Steps
    <3>2. PICK p : p = FirstStep(r.op)
      OBVIOUS
    <3>3. PICK u : u = user[r.user]
      OBVIOUS
    <3>4. p \in Steps /\ u \in UserRows \cup {None} /\ r \in Wanted \cup {None}
      BY <2>1, <2>2, <3>2, <3>3
    <3>5. j = [Blank EXCEPT !.pc = p, !.req = r, !.seen = u]
      BY <2>3, <3>2, <3>3
    <3>6. j \in Jobs /\ j.pc = p /\ j.at = 0
      BY <3>1, <3>4, <3>5 DEF Jobs
    <3> QED
      BY <3>2, <3>6
  <2>5. job' = [job EXCEPT ![h] = j]
    BY <1>1, <2>3 DEF Take
  <2>6. job' \in [Handlers -> Jobs] /\ job'[h] = j /\ \A g \in Handlers \ {h} : job'[g] = job[g]
    BY <1>0, <2>4, <2>5
  <2> QED
    BY <2>2, <2>4, <2>6 DEF Elsewhere
<1>2. ASSUME NEW h \in Handlers, Fail(h) \/ DeadlockVictim(h) PROVE Elsewhere(h)
  BY <1>2 DEF Fail, DeadlockVictim, Elsewhere
<1>3. ASSUME NEW h \in Handlers, Handle(h) PROVE Allow(h) \/ Verify(h) \/ Elsewhere(h)
  <2>1. CASE \/ RateLimited(h) \/ RecordFailure(h) \/ CreateSession(h) \/ Unauthenticated(h) \/ Logout(h)
             \/ CreateUser(h) \/ UpdateManagedUser(h) \/ ResetPassword(h) \/ AssignRole(h)
             \/ SetLocalUserEnabled(h) \/ BootstrapAdmin(h)
    <3>1. Finish(h)
      BY <2>1 DEF RateLimited, RecordFailure, CreateSession, Unauthenticated, Logout, CreateUser,
         UpdateManagedUser, ResetPassword, AssignRole, SetLocalUserEnabled, BootstrapAdmin
    <3> QED
      BY <3>1 DEF Elsewhere
  <2>2. CASE \/ ClearFailures(h) \/ Touch(h) \/ ReadRoles(h) \/ LockUpdates(h) \/ LockUser(h)
             \/ CountAdministrators(h) \/ LockBootstrap(h) \/ CheckBootstrap(h)
    <3>1. Finish(h) \/ \E p \in Steps \ {"credential", "failure"} : Goto(h, p)
      <4>1. {"insert", "roles", "logout", "create", "begin", "select", "write", "count", "check", "bootstrap"}
              \subseteq Steps \ {"credential", "failure"}
        BY DEF Steps
      <4>2. CASE ClearFailures(h) \/ Touch(h) \/ LockUpdates(h) \/ LockBootstrap(h)
        BY <4>1, <4>2 DEF ClearFailures, Touch, LockUpdates, LockBootstrap
      <4>3. CASE ReadRoles(h)
        BY <4>1, <4>3 DEF ReadRoles
      <4>4. CASE LockUser(h)
        <5>1. Finish(h) \/ Goto(h, "write") \/ Goto(h, "count")
          BY <4>4 DEF LockUser
        <5> QED
          BY <4>1, <5>1
      <4>5. CASE CountAdministrators(h) \/ CheckBootstrap(h)
        BY <4>1, <4>5 DEF CountAdministrators, CheckBootstrap
      <4> QED
        BY <2>2, <4>2, <4>3, <4>4, <4>5
    <3> QED
      BY <3>1 DEF Elsewhere
  <2>3. ASSUME NEW s \in DOMAIN sessions, Present(h, s) PROVE Elsewhere(h)
    <3>1. s \in 0 .. MaxSessions /\ clock \in 0 .. Horizon /\ job[h] \in Jobs
      BY <1>0 DEF Shapes
    <3>2. PICK j : j = [job[h] EXCEPT !.pc = "touch", !.session = s, !.at = clock]
      OBVIOUS
    <3>3. j \in Jobs /\ j.pc = "touch" /\ j.at = clock /\ j.req = job[h].req /\ j.seen = job[h].seen
      BY <3>1, <3>2 DEF Jobs, Steps
    <3>4. job' = [job EXCEPT ![h] = j]
      BY <1>0, <2>3, <3>2 DEF Present
    <3>5. job' \in [Handlers -> Jobs] /\ job'[h] = j /\ \A g \in Handlers \ {h} : job'[g] = job[g]
      BY <1>0, <3>3, <3>4
    <3>6. Moved(h, "touch") /\ job'[h].at = clock
      BY <3>3, <3>5 DEF Moved
    <3>7. "touch" \in Steps \ {"credential", "failure"}
      BY DEF Steps
    <3> QED
      BY <3>6, <3>7 DEF Elsewhere
  <2>4. CASE Begin(h)
    <3>0. PICK p : p = IF Req(h).op = "update" THEN "update_lock" ELSE "lock"
      OBVIOUS
    <3>1. p \in Steps \ {"credential", "failure"} /\ begun + 1 \in Nat /\ job[h] \in Jobs
      BY <1>0, <3>0 DEF Shapes, Steps
    <3>2. PICK j : j = [job[h] EXCEPT !.pc = p, !.stamp = begun + 1]
      OBVIOUS
    <3>3. j \in Jobs /\ j.pc = p /\ j.at = job[h].at /\ j.req = job[h].req /\ j.seen = job[h].seen
      BY <3>1, <3>2 DEF Jobs
    <3>4. job' = [job EXCEPT ![h] = j]
      BY <1>0, <2>4, <3>0, <3>2 DEF Begin
    <3>5. job' \in [Handlers -> Jobs] /\ job'[h] = j /\ \A g \in Handlers \ {h} : job'[g] = job[g]
      BY <1>0, <3>3, <3>4
    <3>6. Moved(h, p) /\ job'[h].at = job[h].at
      BY <3>3, <3>5 DEF Moved
    <3> QED
      BY <3>1, <3>6 DEF Elsewhere
  <2>5. CASE ReadRole(h)
    <3>0. PICK role : role = IF user[Req(h).user] = None THEN None ELSE user[Req(h).user].role
      OBVIOUS
    <3>1. job'[h].role = role /\ job' = [job EXCEPT ![h].pc = "lock", ![h].role = role] /\ job[h] \in Jobs
      BY <1>0, <2>5, <3>0 DEF ReadRole, Shapes, Jobs
    <3>2. AuthInd'
      BY <2>5, ReadRoleStep
    <3>3. job' \in [Handlers -> Jobs] /\ \A g \in Handlers \ {h} : job'[g] = job[g]
      BY <1>0, <3>1, <3>2 DEF AuthInd, Shapes
    <3>4. job'[h] = [job[h] EXCEPT !.pc = "lock", !.role = role]
      BY <1>0, <3>1
    <3>5. job'[h].pc = "lock" /\ job'[h].at = job[h].at /\ job'[h].req = job[h].req /\ job'[h].seen = job[h].seen
      BY <3>1, <3>4 DEF Jobs
    <3>6. Moved(h, "lock") /\ "lock" \in Steps \ {"credential", "failure"}
      BY <3>3, <3>5 DEF Moved, Steps
    <3> QED
      BY <3>5, <3>6 DEF Elsewhere
  <2> QED
    BY <1>3, <2>1, <2>2, <2>3, <2>4, <2>5 DEF Handle
<1>4. CASE DeleteExpiredSessions \/ Tick
  BY <1>4 DEF DeleteExpiredSessions, Tick
<1> QED
  BY <1>1, <1>2, <1>3, <1>4 DEF Next

(* A handler elsewhere keeps the logins, and its clock reading is not later than now. *)
LEMMA ElsewhereKeeps ==
    ASSUME Shapes, NEW h \in Handlers, Elsewhere(h)
    PROVE  /\ \A g \in Handlers : KeepsLogin(g)
           /\ \A g \in Handlers : job'[g].at \in {job[g].at, 0, clock}
<1>1. \A g \in Handlers \ {h} : job'[g] = job[g]
  BY FinishEnds, GotoMoves DEF Elsewhere, Moved
<1>2. job'[h].pc \notin {"credential", "failure"} /\ job'[h].at \in {job[h].at, 0, clock}
  <2>1. CASE Finish(h)
    BY <2>1 DEF Finish, Blank, Shapes
  <2>2. ASSUME NEW p \in Steps \ {"credential", "failure"}, Goto(h, p)
        PROVE  job'[h].pc \notin {"credential", "failure"} /\ job'[h].at \in {job[h].at, 0, clock}
    <3>1. Moved(h, p) /\ job'[h].at = job[h].at
      BY <2>2, GotoMoves
    <3> QED
      BY <2>2, <3>1 DEF Moved
  <2>3. ASSUME NEW p \in Steps \ {"credential", "failure"}, Moved(h, p), job'[h].at \in {job[h].at, clock}
        PROVE  job'[h].pc \notin {"credential", "failure"} /\ job'[h].at \in {job[h].at, 0, clock}
    BY <2>3 DEF Moved
  <2> QED
    BY <2>1, <2>2, <2>3 DEF Elsewhere
<1> QED
  BY <1>1, <1>2 DEF KeepsLogin

(* What a step does to the failures counted for n. *)
FailuresKept(n) ==
    wrong'[n] = wrong[n] /\ cred'[n].failed = cred[n].failed /\ cred'[n].locked = cred[n].locked

FailuresCleared(n) == wrong'[n] = <<>> /\ cred'[n].failed = 0

(* A new credential has no failures. *)
LEMMA FreshHasNone ==
    ASSUME NEW n \in Names, NEW password, cred \in [Names -> Credentials],
           cred' = [cred EXCEPT ![n] = FreshCredential(password)]
    PROVE  cred'[n].failed = 0 /\ \A m \in Names \ {n} : cred'[m] = cred[m]
BY DEF FreshCredential

(* A user that exists is not removed. *)
LEMMA UsersStay ==
    ASSUME AuthInd, Next, NEW n \in Names, user[n] # None
    PROVE  user'[n] # None
<1>0. /\ Shapes /\ user \in [Names -> UserRows \cup {None}] /\ begun \in Nat /\ \A h \in Handlers : JobSound(h)
      /\ None \notin UserRows
  BY AuthAssumption DEF AuthInd, Shapes
<1>1. ASSUME NEW h \in Handlers, CreateUser(h) \/ BootstrapAdmin(h) PROVE user'[n] # None
  <2>1. CASE user[Req(h).user] = None
    <3>1. Req(h).user # n
      BY <2>1
    <3>2. PICK row : user' = [user EXCEPT ![Req(h).user] = row]
      BY <1>1, <2>1 DEF CreateUser, BootstrapAdmin
    <3> QED
      BY <1>0, <3>1, <3>2
  <2>2. CASE user[Req(h).user] # None
    BY <1>1, <2>2 DEF CreateUser, BootstrapAdmin
  <2> QED
    BY <2>1, <2>2
<1>2. ASSUME NEW h \in Handlers, UpdateManagedUser(h) \/ AssignRole(h) \/ SetLocalUserEnabled(h) PROVE user'[n] # None
  <2>1. PICK m : m = Req(h).user
    OBVIOUS
  <2>2. /\ job[h].pc = "write" /\ HoldsRow(h) /\ JobSound(h)
    BY <1>0, <1>2 DEF UpdateManagedUser, AssignRole, SetLocalUserEnabled, At, HoldsRow
  <2>3. /\ Req(h) \in Wanted /\ user[m] # None /\ job[h].stamp \in Nat
    BY <1>0, <2>1, <2>2, JobTyped DEF JobSound
  <2>4. m \in Names /\ Req(h).role \in Roles /\ Req(h).enabled \in BOOLEAN /\ user[m] \in UserRows
    <3>1. m \in Names /\ Req(h).role \in Roles /\ Req(h).enabled \in BOOLEAN
      BY <2>1, <2>3, RequestTyped
    <3> QED
      BY <1>0, <2>3, <3>1
  <2>5. \E row \in UserRows : user' = [user EXCEPT ![m] = row]
    <3>1. CASE UpdateManagedUser(h)
      <4>1. PICK role : role = IF job[h].role = Req(h).role THEN user[m].role ELSE Req(h).role
        OBVIOUS
      <4>2. role \in Roles
        BY <2>4, <4>1 DEF UserRows
      <4>3. [user[m] EXCEPT !.role = job[h].role].role = job[h].role
        BY <2>4 DEF UserRows
      <4>4. user' = [user EXCEPT ![m] = [role |-> role, enabled |-> Req(h).enabled, stamp |-> job[h].stamp]]
        BY <2>1, <3>1, <4>1, <4>3 DEF UpdateManagedUser
      <4>5. [role |-> role, enabled |-> Req(h).enabled, stamp |-> job[h].stamp] \in UserRows
        BY <2>3, <2>4, <4>2 DEF UserRows
      <4> QED
        BY <4>4, <4>5
    <3>2. CASE AssignRole(h)
      <4>1. user' = [user EXCEPT ![m] = [user[m] EXCEPT !.role = Req(h).role]]
        BY <2>1, <3>2 DEF AssignRole
      <4>2. [user[m] EXCEPT !.role = Req(h).role] \in UserRows
        BY <2>4 DEF UserRows
      <4> QED
        BY <4>1, <4>2
    <3>3. CASE SetLocalUserEnabled(h)
      <4>1. user' = [user EXCEPT ![m] = [user[m] EXCEPT !.enabled = Req(h).enabled, !.stamp = job[h].stamp]]
        BY <2>1, <3>3 DEF SetLocalUserEnabled
      <4>2. [user[m] EXCEPT !.enabled = Req(h).enabled, !.stamp = job[h].stamp] \in UserRows
        BY <2>3, <2>4 DEF UserRows
      <4> QED
        BY <4>1, <4>2
    <3> QED
      BY <1>2, <3>1, <3>2, <3>3
  <2> QED
    BY <1>0, <2>4, <2>5
<1>3. ASSUME NEW h \in Handlers, NEW r \in todo, Take(h, r) PROVE user'[n] # None
  BY <1>3 DEF Take
<1>4. ASSUME NEW h \in Handlers, Fail(h) \/ DeadlockVictim(h) PROVE user'[n] # None
  BY <1>4 DEF Fail, DeadlockVictim
<1>5. CASE DeleteExpiredSessions \/ Tick
  BY <1>5 DEF DeleteExpiredSessions, Tick
<1>6. ASSUME NEW h \in Handlers, Handle(h) PROVE user'[n] # None
  <2>2. CASE \E s \in DOMAIN sessions : Present(h, s)
    BY <2>2 DEF Present
  <2>3. CASE \/ Allow(h) \/ RateLimited(h) \/ Verify(h) \/ RecordFailure(h) \/ ClearFailures(h) \/ CreateSession(h)
             \/ Touch(h) \/ Unauthenticated(h) \/ ReadRoles(h) \/ Logout(h) \/ Begin(h) \/ LockUpdates(h)
             \/ ReadRole(h) \/ LockUser(h) \/ CountAdministrators(h) \/ ResetPassword(h)
             \/ LockBootstrap(h) \/ CheckBootstrap(h)
    BY <2>3 DEF Allow, RateLimited, Verify, RecordFailure, ClearFailures, CreateSession, Touch, Unauthenticated,
       ReadRoles, Logout, Begin, LockUpdates, ReadRole, LockUser, CountAdministrators, ResetPassword,
       LockBootstrap, CheckBootstrap
  <2> QED
    BY <1>1, <1>2, <1>6, <2>2, <2>3 DEF Handle
<1> QED
  BY <1>3, <1>4, <1>5, <1>6 DEF Next

(* A step keeps the failures counted for n, clears them, or counts one. *)
LEMMA FailureSteps ==
    ASSUME AuthInd, wrong \in [Names -> Seq(Nat)], \A n \in Names : WrongSound(n), Next, NEW n \in Names
    PROVE  \/ FailuresKept(n) \/ FailuresCleared(n)
           \/ \E h \in Handlers : RecordFailure(h) /\ FailureOf(h, n)
<1>0. /\ Shapes /\ cred \in [Names -> Credentials] /\ \A h \in Handlers : JobSound(h)
  BY DEF AuthInd, Shapes
<1>1. ASSUME UNCHANGED <<cred, wrong>> PROVE FailuresKept(n)
  BY <1>1 DEF FailuresKept
<1>2. ASSUME NEW h \in Handlers, RecordFailure(h) PROVE FailuresKept(n) \/ FailureOf(h, n)
  <2>1. FailureOf(h, Req(h).user)
    BY <1>2, FailureCounts
  <2>2. CASE n = Req(h).user
    BY <2>1, <2>2
  <2>3. CASE n # Req(h).user
    BY <2>1, <2>3 DEF FailureOf, FailuresKept
  <2> QED
    BY <2>2, <2>3
<1>3. ASSUME NEW h \in Handlers, CreateSession(h) PROVE FailuresKept(n) \/ FailuresCleared(n)
  <2>1. PICK m : m = Req(h).user
    OBVIOUS
  <2>2. m \in Names
    BY <1>0, <1>3, <2>1, RequestTyped DEF CreateSession, At, JobSound
  <2>3. wrong' = [wrong EXCEPT ![m] = <<>>] /\ cred' = [cred EXCEPT ![m].failed = 0, ![m].locked = 0]
    BY <1>3, <2>1 DEF CreateSession, NoneWrong, Cleared
  <2>4. cred'[m] = [cred[m] EXCEPT !.failed = 0, !.locked = 0] /\ \A k \in Names \ {m} : cred'[k] = cred[k]
    BY <1>0, <2>2, <2>3
  <2>5. cred'[m].failed = 0
    <3>1. cred[m] \in Credentials
      BY <1>0, <2>2
    <3> QED
      BY <2>4, <3>1 DEF Credentials
  <2> QED
    BY <2>2, <2>3, <2>4, <2>5 DEF FailuresKept, FailuresCleared
<1>4. ASSUME NEW h \in Handlers, ResetPassword(h) PROVE FailuresKept(n) \/ FailuresCleared(n)
  <2>1. PICK m : m = Req(h).user
    OBVIOUS
  <2>2. m \in Names
    BY <1>0, <1>4, <2>1, RequestTyped DEF ResetPassword, At, JobSound
  <2>3. wrong' = [wrong EXCEPT ![m] = <<>>] /\ cred' = [cred EXCEPT ![m] = FreshCredential(Req(h).password)]
    BY <1>4, <2>1 DEF ResetPassword, NoneWrong
  <2>4. cred'[m].failed = 0 /\ \A k \in Names \ {m} : cred'[k] = cred[k]
    BY <1>0, <2>2, <2>3, FreshHasNone
  <2> QED
    BY <2>2, <2>3, <2>4 DEF FailuresKept, FailuresCleared
<1>5. ASSUME NEW h \in Handlers, CreateUser(h) \/ BootstrapAdmin(h) PROVE FailuresKept(n) \/ FailuresCleared(n)
  <2>1. PICK m : m = Req(h).user
    OBVIOUS
  <2>2. m \in Names
    BY <1>0, <1>5, <2>1, RequestTyped DEF CreateUser, BootstrapAdmin, At, JobSound
  <2>3. wrong' = wrong
    BY <1>5 DEF CreateUser, BootstrapAdmin, history
  <2>4. CASE user[m] # None
    BY <1>1, <1>5, <2>1, <2>3, <2>4 DEF CreateUser, BootstrapAdmin
  <2>5. CASE user[m] = None
    <3>1. cred' = [cred EXCEPT ![m] = FreshCredential(Req(h).password)]
      BY <1>5, <2>1, <2>5 DEF CreateUser, BootstrapAdmin
    <3>2. cred'[m].failed = 0 /\ \A k \in Names \ {m} : cred'[k] = cred[k]
      BY <1>0, <2>2, <3>1, FreshHasNone
    <3>3. wrong[m] = <<>>
      BY <2>2, <2>5 DEF WrongSound
    <3> QED
      BY <2>3, <3>2, <3>3 DEF FailuresKept, FailuresCleared
  <2> QED
    BY <2>4, <2>5
<1>6. ASSUME NEW h \in Handlers, NEW r \in todo, Take(h, r) PROVE FailuresKept(n)
  BY <1>1, <1>6 DEF Take, history
<1>7. ASSUME NEW h \in Handlers, Fail(h) \/ DeadlockVictim(h) PROVE FailuresKept(n)
  BY <1>1, <1>7 DEF Fail, DeadlockVictim, history
<1>8. CASE DeleteExpiredSessions \/ Tick
  <2>1. UNCHANGED <<cred, wrong>>
    BY <1>8 DEF DeleteExpiredSessions, Tick, history
  <2> QED
    BY <1>1, <2>1
<1>9. ASSUME NEW h \in Handlers, Handle(h)
      PROVE  FailuresKept(n) \/ FailuresCleared(n) \/ (RecordFailure(h) /\ FailureOf(h, n))
  <2>1. CASE \E s \in DOMAIN sessions : Present(h, s)
    <3>1. UNCHANGED <<cred, wrong>>
      BY <2>1 DEF Present, history
    <3> QED
      BY <1>1, <3>1
  <2>2. CASE \/ Allow(h) \/ RateLimited(h) \/ Verify(h) \/ ClearFailures(h)
             \/ Touch(h) \/ Unauthenticated(h) \/ ReadRoles(h) \/ Logout(h) \/ Begin(h) \/ LockUpdates(h)
             \/ ReadRole(h) \/ LockUser(h) \/ CountAdministrators(h) \/ UpdateManagedUser(h) \/ AssignRole(h)
             \/ SetLocalUserEnabled(h) \/ LockBootstrap(h) \/ CheckBootstrap(h)
    <3>1. UNCHANGED <<cred, wrong>>
      BY <2>2 DEF Allow, RateLimited, Verify, ClearFailures, Touch, Unauthenticated,
         ReadRoles, Logout, Begin, LockUpdates, ReadRole, LockUser, CountAdministrators, UpdateManagedUser,
         AssignRole, SetLocalUserEnabled, LockBootstrap, CheckBootstrap, history
    <3> QED
      BY <1>1, <3>1
  <2> QED
    BY <1>2, <1>3, <1>4, <1>5, <1>9, <2>1, <2>2 DEF Handle
<1> QED
  BY <1>6, <1>7, <1>8, <1>9 DEF Next

(* The clock does not run backwards, and the history of one user at most changes. *)
LEMMA HistoryGrows ==
    ASSUME Next
    PROVE  /\ clock' = clock \/ clock' = clock + 1
           /\ wrong' = wrong \/ \E m, d : wrong' = [wrong EXCEPT ![m] = d]
<1>1. ASSUME NEW h \in Handlers, RecordFailure(h) \/ CreateSession(h) \/ ResetPassword(h)
      PROVE  clock' = clock /\ \E m, d : wrong' = [wrong EXCEPT ![m] = d]
  BY <1>1 DEF RecordFailure, CreateSession, ResetPassword, NoneWrong
<1>2. ASSUME NEW h \in Handlers, NEW r \in todo, Take(h, r) PROVE clock' = clock /\ wrong' = wrong
  BY <1>2 DEF Take, history
<1>3. ASSUME NEW h \in Handlers, Fail(h) \/ DeadlockVictim(h) PROVE clock' = clock /\ wrong' = wrong
  BY <1>3 DEF Fail, DeadlockVictim, history
<1>4. CASE DeleteExpiredSessions \/ Tick
  BY <1>4 DEF DeleteExpiredSessions, Tick, history
<1>5. ASSUME NEW h \in Handlers, Handle(h), ~ (RecordFailure(h) \/ CreateSession(h) \/ ResetPassword(h))
      PROVE  clock' = clock /\ wrong' = wrong
  <2>1. CASE \E s \in DOMAIN sessions : Present(h, s)
    BY <2>1 DEF Present, history
  <2>2. CASE \/ Allow(h) \/ RateLimited(h) \/ Verify(h) \/ ClearFailures(h)
             \/ Touch(h) \/ Unauthenticated(h) \/ ReadRoles(h) \/ Logout(h) \/ Begin(h) \/ LockUpdates(h)
             \/ ReadRole(h) \/ LockUser(h) \/ CountAdministrators(h) \/ UpdateManagedUser(h) \/ AssignRole(h)
             \/ SetLocalUserEnabled(h) \/ LockBootstrap(h) \/ CheckBootstrap(h) \/ CreateUser(h) \/ BootstrapAdmin(h)
    BY <2>2 DEF Allow, RateLimited, Verify, ClearFailures, Touch, Unauthenticated,
       ReadRoles, Logout, Begin, LockUpdates, ReadRole, LockUser, CountAdministrators, UpdateManagedUser,
       AssignRole, SetLocalUserEnabled, LockBootstrap, CheckBootstrap, CreateUser, BootstrapAdmin, history
  <2> QED
    BY <1>5, <2>1, <2>2 DEF Handle
<1> QED
  BY <1>1, <1>2, <1>3, <1>4, <1>5 DEF Next

(* A login passes the limiter with the present as its clock reading. *)
LEMMA AllowReads ==
    ASSUME Shapes, NEW h \in Handlers, Allow(h)
    PROVE  /\ job[h].pc = "login" /\ job'[h].pc = "credential" /\ job'[h].at = clock /\ job'[h].req = job[h].req
           /\ \A g \in Handlers \ {h} : job'[g] = job[g]
<1>1. job \in [Handlers -> Jobs] /\ job[h] \in Jobs /\ job[h].pc = "login"
  BY DEF Shapes, Allow, At
<1>2. job' = [job EXCEPT ![h].pc = "credential", ![h].at = clock]
  BY DEF Allow
<1>3. job'[h] = [job[h] EXCEPT !.pc = "credential", !.at = clock] /\ \A g \in Handlers \ {h} : job'[g] = job[g]
  BY <1>1, <1>2
<1> QED
  BY <1>1, <1>3 DEF Jobs

(* A password is compared: only that of an account which is not locked at the
   reading of the login is counted. *)
LEMMA VerifyReads ==
    ASSUME Shapes, NEW h \in Handlers, Verify(h)
    PROVE  /\ job[h].pc = "credential" /\ \A g \in Handlers \ {h} : job'[g] = job[g]
           /\ \/ job'[h].pc \notin {"credential", "failure"} /\ job'[h].at \in {0, job[h].at}
              \/ /\ job'[h].pc = "failure" /\ job'[h].req = job[h].req /\ job'[h].at = job[h].at
                 /\ user[job[h].req.user] # None /\ ~ (cred[job[h].req.user].locked > job[h].at)
<1>1. job[h].pc = "credential" /\ job \in [Handlers -> Jobs]
  BY DEF Verify, At, Shapes
<1>2. \/ Finish(h) \/ Goto(h, "clear")
      \/ Goto(h, "failure") /\ user[job[h].req.user] # None /\ ~ (cred[job[h].req.user].locked > job[h].at)
  BY DEF Verify, Req, Locked
<1>3. CASE Finish(h)
  <2>1. job'[h] = Blank /\ \A g \in Handlers \ {h} : job'[g] = job[g]
    BY <1>1, <1>3 DEF Finish
  <2> QED
    BY <1>1, <2>1 DEF Blank
<1>4. CASE Goto(h, "clear")
  BY <1>1, <1>4, GotoMoves DEF Moved, Steps
<1>5. CASE Goto(h, "failure") /\ user[job[h].req.user] # None /\ ~ (cred[job[h].req.user].locked > job[h].at)
  BY <1>1, <1>5, GotoMoves DEF Moved, Steps
<1> QED
  BY <1>2, <1>3, <1>4, <1>5

(* Where the failures of n are kept, so is the bound: a login whose reading lies in
   the window is admitted only while the account is open to the window. *)
LEMMA GuessKept ==
    ASSUME AuthInd, AuthInd', Next, NEW n \in Names, NEW t \in Nat, WrongSound(n), GuessSound(n, t), FailuresKept(n)
    PROVE  GuessSound(n, t)'
<1>0. Shapes /\ clock \in Nat /\ wrong[n] \in Seq(Nat) /\ wrong'[n] = wrong[n]
  BY DEF AuthInd, Shapes, WrongSound, FailuresKept
<1>1. \A g \in Handlers : job[g].at \in Nat /\ job'[g].at \in Nat
  <2>1. job \in [Handlers -> Jobs] /\ job' \in [Handlers -> Jobs]
    BY DEF AuthInd, Shapes
  <2> QED
    BY <2>1 DEF Jobs
<1>2. Open(n, t)' => Open(n, t)
  BY DEF Open, FailuresKept
<1>3. Cardinality(Within(wrong'[n], t)) = Cardinality(Within(wrong[n], t))
  BY <1>0
<1>4. ASSUME Pending(n, t)' \subseteq Pending(n, t), Recent(n, t) \subseteq Recent(n, t)' PROVE GuessSound(n, t)'
  BY <1>0, <1>2, <1>3, <1>4, GuessesCalm
<1>5. CASE UNCHANGED job
  BY <1>4, <1>5 DEF Pending, Recent
<1>6. ASSUME NEW h \in Handlers, Elsewhere(h) PROVE GuessSound(n, t)'
  BY <1>0, <1>4, <1>6, ElsewhereKeeps, LoginsKept
<1>7. ASSUME NEW h \in Handlers, Allow(h) PROVE GuessSound(n, t)'
  <2>0. /\ job[h].pc = "login" /\ job'[h].pc = "credential" /\ job'[h].at = clock
        /\ \A g \in Handlers \ {h} : job'[g] = job[g]
    BY <1>0, <1>7, AllowReads
  <2>1. CASE clock < t
    <3>1. Within(wrong'[n], t) = {}
      <4>1. ASSUME NEW i \in Within(wrong[n], t) PROVE FALSE
        <5>1. i \in 1 .. Len(wrong[n]) /\ t <= wrong[n][i] /\ wrong[n][i] \in Nat
          BY <1>0 DEF Within
        <5>2. wrong[n][i] <= clock
          BY <5>1 DEF WrongSound
        <5> QED
          BY <1>0, <2>1, <5>1, <5>2
      <4> QED
        BY <1>0, <4>1
    <3> QED
      BY <1>0, <1>1, <3>1, GuessesNone
  <2>2. CASE clock >= t
    <3>1. Pending(n, t)' \subseteq Pending(n, t)
      BY <2>0 DEF Pending
    <3>2. Recent(n, t) \subseteq Recent(n, t)'
      <4>1. h \in Recent(n, t)'
        BY <1>0, <2>0, <2>2 DEF Recent
      <4> QED
        BY <2>0, <4>1 DEF Recent
    <3> QED
      BY <1>4, <3>1, <3>2
  <2> QED
    BY <1>0, <2>1, <2>2
<1>8. ASSUME NEW h \in Handlers, Verify(h) PROVE GuessSound(n, t)'
  <2>0. /\ job[h].pc = "credential" /\ \A g \in Handlers \ {h} : job'[g] = job[g]
        /\ \/ job'[h].pc \notin {"credential", "failure"} /\ job'[h].at \in {0, job[h].at}
           \/ /\ job'[h].pc = "failure" /\ job'[h].req = job[h].req /\ job'[h].at = job[h].at
              /\ user[job[h].req.user] # None /\ ~ (cred[job[h].req.user].locked > job[h].at)
    BY <1>0, <1>8, VerifyReads
  <2>1. Recent(n, t) \subseteq Recent(n, t)'
    BY <2>0 DEF Recent
  <2>2. CASE h \notin Pending(n, t)'
    <3>1. Pending(n, t)' \subseteq Pending(n, t)
      BY <2>0, <2>2 DEF Pending
    <3> QED
      BY <1>4, <2>1, <3>1
  <2>3. CASE h \in Pending(n, t)'
    <3>1. /\ job[h].req.user = n /\ job[h].at < t + Lockout /\ ~ (cred[n].locked > job[h].at)
      BY <2>0, <2>3 DEF Pending
    <3>2. cred[n].locked \in Nat
      BY <1>0 DEF Shapes, Credentials
    <3>3. Open(n, t)
      BY <1>1, <3>1, <3>2, Limits DEF Open
    <3>4. PICK v : v = Cardinality(Within(wrong[n], t))
      OBVIOUS
    <3>5. PICK m : m = Cardinality(Recent(n, t))
      OBVIOUS
    <3>6. PICK k : k = Cardinality(Recent(n, t)')
      OBVIOUS
    <3>7. v \in Nat /\ 2 * v <= 2 * (FailureLimit - 1) + Pairs(m)
      <4>1. v \in Nat
        BY <1>0, <3>4, WithinSized
      <4> QED
        BY <3>3, <3>4, <3>5, <4>1 DEF GuessSound
    <3>8. m \in Nat /\ k \in Nat /\ m <= k
      <4>1. Recent(n, t)' \subseteq Handlers
        BY DEF Recent
      <4> QED
        BY <2>1, <3>5, <3>6, <4>1, HandlersSized
    <3>9. Pairs(m) \in Nat /\ Pairs(k) \in Nat /\ Pairs(m) <= Pairs(k)
      BY <3>8, PairsGrow
    <3>10. 2 * v <= 2 * (FailureLimit - 1) + Pairs(k)
      BY <3>7, <3>9, Limits
    <3>11. 2 * Cardinality(Within(wrong'[n], t)) <= 2 * (FailureLimit - 1) + Pairs(Cardinality(Recent(n, t)'))
      BY <1>0, <3>4, <3>6, <3>10
    <3> QED
      BY <1>0, <1>1, <3>11, GuessAdmitted
  <2> QED
    BY <2>2, <2>3
<1> QED
  BY <1>5, <1>6, <1>7, <1>8, LoginSteps

(* Every step keeps the invariant for the guesses. *)
LEMMA GuessStep == GuessInd /\ [Next]_vars => GuessInd'
<1> SUFFICES ASSUME GuessInd, [Next]_vars PROVE GuessInd'
  OBVIOUS
<1>0. /\ AuthInd /\ Shapes /\ wrong \in [Names -> Seq(Nat)] /\ clock \in Nat
      /\ \A n \in Names : WrongSound(n)
      /\ \A n \in Names : \A t \in 1 .. Horizon : GuessSound(n, t)
      /\ \A h \in Handlers : ReadingSound(h)
  BY DEF GuessInd, AuthInd, Shapes
<1>1. AuthInd'
  BY <1>0, NextSound
<1>2. CASE UNCHANGED vars
  <2>1. UNCHANGED <<wrong, cred, user, clock, job>>
    BY <1>2 DEF vars
  <2>2. ASSUME NEW n \in Names PROVE WrongSound(n)'
    BY <1>0, <2>1 DEF WrongSound
  <2>3. ASSUME NEW n \in Names, NEW t \in 1 .. Horizon PROVE GuessSound(n, t)'
    <3>1. GuessSound(n, t)
      BY <1>0
    <3> QED
      BY <2>1, <3>1 DEF GuessSound, Open, Pending, Recent
  <2>4. ASSUME NEW h \in Handlers PROVE ReadingSound(h)'
    BY <1>0, <2>1 DEF ReadingSound
  <2> QED
    BY <1>0, <1>1, <2>1, <2>2, <2>3, <2>4 DEF GuessInd
<1>3. CASE Next
  <2>1. clock' \in Nat /\ clock <= clock'
    BY <1>0, <1>3, HistoryGrows
  <2>2. ASSUME NEW n \in Names
        PROVE  FailuresKept(n) \/ FailuresCleared(n) \/ \E h \in Handlers : RecordFailure(h) /\ FailureOf(h, n)
    BY <1>0, <1>3, FailureSteps
  <2>3. ASSUME NEW n \in Names, user[n] # None PROVE user'[n] # None
    BY <1>0, <1>3, <2>3, UsersStay
  <2>4. ASSUME NEW n \in Names PROVE WrongSound(n)'
    <3>0. WrongSound(n)
      BY <1>0
    <3>1. CASE FailuresKept(n)
      BY <1>0, <2>1, <2>3, <3>0, <3>1 DEF WrongSound, FailuresKept
    <3>2. CASE FailuresCleared(n)
      BY <3>2 DEF WrongSound, FailuresCleared
    <3>3. ASSUME NEW h \in Handlers, FailureOf(h, n) PROVE WrongSound(n)'
      <4>1. /\ job[h].at \in Nat /\ job[h].at <= clock /\ user[n] # None
            /\ wrong'[n] = Append(wrong[n], job[h].at) /\ cred'[n].failed = cred[n].failed + 1
        BY <1>0, <3>3 DEF FailureOf, ReadingSound
      <4>2. user'[n] # None
        BY <2>3, <4>1
      <4>3. wrong'[n] \in Seq(Nat) /\ Len(wrong'[n]) = cred'[n].failed
        BY <3>0, <4>1 DEF WrongSound
      <4>4. ASSUME NEW i \in 1 .. Len(wrong'[n]) PROVE wrong'[n][i] <= clock'
        <5>1. wrong'[n][i] <= clock
          BY <3>0, <4>1 DEF WrongSound
        <5>2. wrong'[n][i] \in Nat
          BY <4>3
        <5> QED
          BY <1>0, <2>1, <5>1, <5>2
      <4> QED
        BY <4>2, <4>3, <4>4 DEF WrongSound
    <3> QED
      BY <2>2, <3>1, <3>2, <3>3
  <2>5. wrong' \in [Names -> Seq(Nat)]
    <3>1. \A n \in Names : wrong'[n] \in Seq(Nat)
      BY <2>4 DEF WrongSound
    <3>2. wrong' = wrong \/ \E m, d : wrong' = [wrong EXCEPT ![m] = d]
      BY <1>3, HistoryGrows
    <3> QED
      BY <1>0, <3>1, <3>2
  <2>6. ASSUME NEW n \in Names, NEW t \in 1 .. Horizon PROVE GuessSound(n, t)'
    <3>0. WrongSound(n) /\ GuessSound(n, t) /\ t \in Nat
      BY <1>0
    <3>1. CASE FailuresKept(n)
      BY <1>0, <1>1, <1>3, <3>0, <3>1, GuessKept
    <3>2. CASE FailuresCleared(n)
      <4>1. Within(wrong'[n], t) = {} /\ wrong'[n] \in Seq(Nat)
        BY <3>2 DEF Within, FailuresCleared
      <4>2. \A h \in Handlers : job'[h].at \in Nat
        <5>1. job' \in [Handlers -> Jobs]
          BY <1>1 DEF AuthInd, Shapes
        <5> QED
          BY <5>1 DEF Jobs
      <4> QED
        BY <3>0, <4>1, <4>2, GuessesNone
    <3>3. ASSUME NEW h \in Handlers, FailureOf(h, n) PROVE GuessSound(n, t)'
      <4>1. wrong[n] \in Seq(Nat) /\ Len(wrong[n]) = cred[n].failed
        BY <3>0 DEF WrongSound
      <4> QED
        BY <1>0, <3>0, <3>3, <4>1, GuessCounted
    <3> QED
      BY <2>2, <3>1, <3>2, <3>3
  <2>7. ASSUME NEW g \in Handlers PROVE ReadingSound(g)'
    <3>0. ReadingSound(g) /\ job[g].at \in Nat /\ job'[g].at \in Nat
      <4>1. job \in [Handlers -> Jobs] /\ job' \in [Handlers -> Jobs]
        BY <1>0, <1>1 DEF AuthInd, Shapes
      <4> QED
        BY <1>0, <4>1 DEF Jobs
    <3>1. ASSUME job'[g].at \in {job[g].at, 0, clock} PROVE job'[g].at <= clock'
      BY <1>0, <2>1, <3>0, <3>1 DEF ReadingSound
    <3>2. ASSUME job'[g].pc = "failure", job[g].pc = "failure", job'[g].req = job[g].req
          PROVE  user'[job'[g].req.user] # None
      <4>1. user[job[g].req.user] # None
        BY <3>0, <3>2 DEF ReadingSound
      <4>2. job[g].req.user \in Names
        <5>1. JobSound(g)
          BY <1>0 DEF AuthInd
        <5> QED
          BY <3>2, <5>1, RequestTyped DEF JobSound, Req
      <4> QED
        BY <2>3, <3>2, <4>1, <4>2
    <3>3. CASE job'[g] = job[g]
      BY <3>1, <3>2, <3>3 DEF ReadingSound
    <3>4. ASSUME NEW h \in Handlers, Elsewhere(h) PROVE ReadingSound(g)'
      <4>1. KeepsLogin(g) /\ job'[g].at \in {job[g].at, 0, clock}
        BY <1>0, <3>4, ElsewhereKeeps
      <4> QED
        BY <3>1, <3>2, <4>1 DEF KeepsLogin, ReadingSound
    <3>5. ASSUME NEW h \in Handlers, Allow(h) PROVE ReadingSound(g)'
      <4>1. job'[h].pc = "credential" /\ job'[h].at = clock /\ \A d \in Handlers \ {h} : job'[d] = job[d]
        BY <1>0, <3>5, AllowReads
      <4>2. CASE g = h
        BY <3>1, <4>1, <4>2 DEF ReadingSound
      <4>3. CASE g # h
        BY <3>3, <4>1, <4>3
      <4> QED
        BY <4>2, <4>3
    <3>6. ASSUME NEW h \in Handlers, Verify(h) PROVE ReadingSound(g)'
      <4>1. /\ job[h].pc = "credential" /\ \A d \in Handlers \ {h} : job'[d] = job[d]
            /\ \/ job'[h].pc \notin {"credential", "failure"} /\ job'[h].at \in {0, job[h].at}
               \/ /\ job'[h].pc = "failure" /\ job'[h].req = job[h].req /\ job'[h].at = job[h].at
                  /\ user[job[h].req.user] # None
        BY <1>0, <3>6, VerifyReads
      <4>2. CASE g = h
        <5>1. job'[g].at <= clock'
          BY <3>1, <4>1, <4>2
        <5>2. job'[g].pc = "failure" => user'[job'[g].req.user] # None
          <6>1. job[h].req.user \in Names
            <7>1. JobSound(h)
              BY <1>0 DEF AuthInd
            <7> QED
              BY <4>1, <7>1, RequestTyped DEF JobSound, Req
          <6> QED
            BY <2>3, <4>1, <4>2, <6>1
        <5> QED
          BY <5>1, <5>2 DEF ReadingSound
      <4>3. CASE g # h
        BY <3>3, <4>1, <4>3
      <4> QED
        BY <4>2, <4>3
    <3> QED
      BY <1>0, <1>3, <3>3, <3>4, <3>5, <3>6, LoginSteps
  <2> QED
    BY <1>1, <2>4, <2>5, <2>6, <2>7 DEF GuessInd
<1> QED
  BY <1>2, <1>3

(* The invariant for the guesses holds throughout. *)
THEOREM GuessIndHolds == Spec => []GuessInd
<1>1. Init => GuessInd
  <2> SUFFICES ASSUME Init PROVE GuessInd
    OBVIOUS
  <2>0. AuthInd
    BY InitSound
  <2>1. wrong = [n \in Names |-> <<>>] /\ job = [h \in Handlers |-> Blank] /\ clock = 1
    BY DEF Init
  <2>2. \A n \in Names : cred[n].failed = 0
    BY DEF Init, FreshCredential
  <2>3. wrong \in [Names -> Seq(Nat)] /\ \A n \in Names : wrong[n] = <<>>
    BY <2>1
  <2>4. \A h \in Handlers : job[h].at = 0 /\ job[h].pc = "idle"
    BY <2>1 DEF Blank
  <2>5. ASSUME NEW n \in Names PROVE WrongSound(n)
    BY <2>2, <2>3 DEF WrongSound
  <2>6. ASSUME NEW n \in Names, NEW t \in 1 .. Horizon PROVE GuessSound(n, t)
    <3>1. Cardinality(Within(wrong[n], t)) = 0
      <4>1. Within(wrong[n], t) = {}
        BY <2>3 DEF Within
      <4> QED
        BY <4>1, FS_EmptySet
    <3>2. Cardinality(Pending(n, t)) = 0
      <4>1. Pending(n, t) = {}
        BY <2>4 DEF Pending
      <4> QED
        BY <4>1, FS_EmptySet
    <3>3. PICK m : m = Cardinality(Recent(n, t))
      OBVIOUS
    <3>4. m \in Nat /\ m + 1 \in Nat
      <4>1. Recent(n, t) \subseteq Handlers
        BY DEF Recent
      <4>2. m \in Nat
        BY <3>3, <4>1, HandlersSized
      <4> QED
        BY <4>2
    <3>5. Pairs(m) \in Nat /\ Pairs(m + 1) \in Nat
      BY <3>4, PairsGrow
    <3>6. 2 * 0 <= 2 * (FailureLimit - 1) + Pairs(m) /\ 2 * (0 + 0) <= 2 * (FailureLimit - 1) + Pairs(m + 1)
      BY <3>5, Limits
    <3> QED
      BY <3>1, <3>2, <3>3, <3>6 DEF GuessSound
  <2>7. ASSUME NEW h \in Handlers PROVE ReadingSound(h)
    BY <2>1, <2>4 DEF ReadingSound
  <2> QED
    BY <2>0, <2>3, <2>5, <2>6, <2>7 DEF GuessInd
<1> QED
  BY <1>1, GuessStep, PTL DEF Spec

(* However many logins overlap, and in whatever order their failures are recorded,
   the wrong passwords counted for one account within a lockout stay within the
   limit and what the handlers had under way: for any number of handlers and
   guesses, any limit and any lockout. *)
THEOREM GuessesSafe == Spec => []GuessesBounded
<1>1. GuessInd => GuessesBounded
  <2> SUFFICES ASSUME GuessInd, NEW n \in Names, NEW t \in 1 .. Horizon
               PROVE  2 * Cardinality(Within(wrong[n], t))
                        <= 2 * (FailureLimit - 1) + Cardinality(Handlers) * (Cardinality(Handlers) + 1)
    BY DEF GuessesBounded
  <2>1. PICK v : v = Cardinality(Within(wrong[n], t))
    OBVIOUS
  <2>2. PICK p : p = Cardinality(Pending(n, t))
    OBVIOUS
  <2>3. PICK m : m = Cardinality(Recent(n, t))
    OBVIOUS
  <2>4. PICK k : k = Cardinality(Handlers)
    OBVIOUS
  <2>5. WrongSound(n) /\ GuessSound(n, t)
    BY DEF GuessInd
  <2>6. v \in Nat
    <3>1. wrong[n] \in Seq(Nat) /\ t \in Nat
      BY <2>5 DEF WrongSound
    <3> QED
      BY <2>1, <3>1, WithinSized
  <2>7. p \in Nat /\ m \in Nat /\ k \in Nat /\ m <= k
    <3>1. Pending(n, t) \subseteq Handlers /\ Recent(n, t) \subseteq Handlers
      BY DEF Pending, Recent
    <3> QED
      BY <2>2, <2>3, <2>4, <3>1, HandlersSized
  <2>8. 2 * (v + p) <= 2 * (FailureLimit - 1) + Pairs(m + 1)
    BY <2>1, <2>2, <2>3, <2>5 DEF GuessSound
  <2>9. Pairs(m + 1) \in Nat /\ Pairs(k + 1) \in Nat /\ Pairs(m + 1) <= Pairs(k + 1)
    <3>1. m + 1 \in Nat /\ k + 1 \in Nat /\ m + 1 <= k + 1
      BY <2>7
    <3> QED
      BY <3>1, PairsGrow
  <2>10. 2 * v <= 2 * (FailureLimit - 1) + Pairs(k + 1)
    BY <2>6, <2>7, <2>8, <2>9, Limits
  <2>11. Pairs(k + 1) = k * (k + 1)
    BY <2>7 DEF Pairs
  <2>12. 2 * v <= 2 * (FailureLimit - 1) + k * (k + 1)
    BY <2>10, <2>11
  <2> QED
    BY <2>1, <2>4, <2>12
<1> QED
  BY <1>1, GuessIndHolds, PTL
=============================================================================
