------------------------------ MODULE Accounts ------------------------------
(***************************************************************************)
(* The users of the daemon and their sessions: user records and settings in*)
(* BoltDB (internal/store/user.go, settings.go), sessions, their per-user  *)
(* index, attempt counters and locks in Redis (internal/auth/session.go),  *)
(* and the HTTP handlers that work on both.                                *)
(*                                                                         *)
(* Every request has a goroutine of its own, a Worker. A step is one       *)
(* transaction of BoltDB or one command of Redis; a read of something that *)
(* cannot change, and a read followed by a command that does nothing on    *)
(* what is gone, belong to the next step.                                  *)
(***************************************************************************)
EXTENDS Integers, FiniteSets, Functions

CONSTANTS
    User,            \* user names
    Token,           \* session tokens, each issued once
    Worker,          \* request goroutines
    Operator,        \* the name `griffino admin reset-password` looks for ("admin")
    Requests,        \* the requests that may come in
    TTL,             \* session lifetimes an administrator may set
    MaxAttempts,     \* failed logins until the account is locked
    MaxIds,          \* BOUND: user records created
    MaxRequests,     \* BOUND: requests accepted
    MaxFaults        \* BOUND: failed Redis commands and crashes

(***************************************************************************)
(* What a client may send: login and setup carry a name, every other       *)
(* request the token of a session, and what its handler reads of the body. *)
(***************************************************************************)
Request ==
    [op : {"login"}, name : User, right : BOOLEAN]
    \cup [op : {"setup"}, name : User]
    \cup [op : {"logout", "list", "action"}, token : Token]
    \cup [op : {"revoke"}, token : Token, other : Token]
    \cup [op : {"password"}, token : Token, right : BOOLEAN, name : User]
    \cup [op : {"create", "profile", "delete"}, token : Token, name : User]
    \cup [op : {"update"}, token : Token, name : User,
          change : SUBSET {"disable", "enable", "promote", "demote", "reset"}]
    \cup [op : {"policy"}, token : Token, ttl : TTL]
    \cup [op : {"flag"}, token : Token, done : BOOLEAN]

ASSUME AccountsAssumption ==
    /\ TTL \subseteq Nat \ {0} /\ \E n \in TTL : \A k \in TTL : k <= n
    /\ MaxAttempts \in Nat \ {0}
    /\ {MaxIds, MaxRequests, MaxFaults} \subseteq Nat
    /\ IsFiniteSet(User) /\ Operator \in User
    /\ Cardinality(User) <= MaxIds
    /\ Injection(User, Token) # {}
    /\ Requests \subseteq Request

VARIABLES
    users,       \* the user bucket
    ids,         \* user records created so far
    ttl,         \* the session lifetime of the security policy
    setupDone,   \* the setup-completed flag
    sessions,    \* session keys, with the time they have left
    index,       \* user_sessions:<id>, with the time it has left
    attempts,    \* login:attempts:<name>: failures, and whether the key expires
    locked,      \* names with a login:lock key, which always expires
    limited,     \* ratelimit:action key: the same as attempts
    worker,      \* the request each goroutine is at, and where
    accepted,    \* requests so far
    faults,      \* faults so far
    overlapped,  \* auxiliary: two requests were changing users at once
    repoliced    \* auxiliary: the session lifetime was changed

redisVars == <<sessions, index, attempts, locked, limited>>
boltVars == <<users, ids, ttl, setupDone>>
boundVars == <<accepted, faults>>
auxVars == <<overlapped, repoliced>>
vars == <<boltVars, redisVars, worker, boundVars, auxVars>>

Id == 1..MaxIds
Forever == 1 + CHOOSE n \in TTL : \A k \in TTL : k <= n
NoUser == [id |-> 0, role |-> "user", disabled |-> FALSE, password |-> 0]
NoCounter == [n |-> 0, expires |-> FALSE]
NoIndex == [tokens |-> {}, left |-> 0]
FreeToken == [state |-> "free", id |-> 0, name |-> Operator, role |-> "user", left |-> 0]
IdleWorker == [pc |-> "idle"]

Exists(u) == users[u].id # 0
Live(t) == sessions[t].state = "live"
ActiveAdmins == {u \in User : Exists(u) /\ users[u].role = "admin" /\ ~users[u].disabled}

-----------------------------------------------------------------------------
(***************************************************************************)
(* The goroutine of a request: `req` is the request, `by` the session data *)
(* the middleware found, `copy` a user record that was read, `n` a counter *)
(* that was read, `ttl` the policy as it was read, `tokens` those it works *)
(* on.                                                                     *)
(***************************************************************************)
Goto(w, pc) ==
    worker' = [worker EXCEPT ![w] = IF pc = "idle" THEN IdleWorker ELSE [@ EXCEPT !.pc = pc]]
Done(w) == Goto(w, "idle")
At(w, pc) == worker[w].pc = pc
Req(w) == worker[w].req

UserEdits == {"setup", "create", "update", "profile", "delete", "password"}
Editing(w) == worker[w].pc # "idle" /\ Req(w).op \in UserEdits

FirstStep(req) ==
    CASE req.op = "login" -> "checkLock"
      [] req.op = "setup" -> "hasAnyUser"
      [] OTHER -> "auth"

\* The session lifetime that was set, or the default, read anew by each request. (Attempts
\* and the duration of a lockout are the same throughout a run.)
GetSecurityPolicies == ttl

Accept(w, req) ==
    /\ At(w, "idle")
    /\ accepted < MaxRequests
    /\ accepted' = accepted + 1
    /\ req.op \notin {"login", "setup"} => sessions[req.token].state # "free"
    /\ worker' = [worker EXCEPT ![w] =
          [pc |-> FirstStep(req), req |-> req, by |-> FreeToken, copy |-> NoUser, n |-> 0,
           ttl |-> GetSecurityPolicies, tokens |-> IF req.op = "logout" THEN {req.token} ELSE {}]]
    /\ overlapped' = (overlapped \/ (req.op \in UserEdits /\ \E v \in Worker : Editing(v)))
    /\ UNCHANGED <<boltVars, redisVars, faults, repoliced>>

(***************************************************************************)
(* authMiddleware and adminOnly: the session is looked up, its key and the *)
(* index of its user get the lifetime of the current policy, and the role  *)
(* stored in the session decides about administrators' requests.           *)
(***************************************************************************)
Authenticate(w) ==
    /\ At(w, "auth")
    /\ IF Live(Req(w).token)
       THEN worker' = [worker EXCEPT ![w].pc = "refresh", ![w].by = sessions[Req(w).token],
                                     ![w].ttl = GetSecurityPolicies]
       ELSE Done(w)
    /\ UNCHANGED <<boltVars, redisVars, boundVars, auxVars>>

\* Expire does nothing on a key that is gone.
RefreshSession(w) ==
    /\ At(w, "refresh")
    /\ sessions' = IF Live(Req(w).token)
                   THEN [sessions EXCEPT ![Req(w).token].left = worker[w].ttl] ELSE sessions
    /\ Goto(w, "refreshIndex")
    /\ UNCHANGED <<boltVars, index, attempts, locked, limited, boundVars, auxVars>>

\* MUTANT: renewing a session forgets its index.
LeavesIndex(id, time) == index

ExpireIndex(id, time) ==
    IF index[id].left = 0 THEN index ELSE [index EXCEPT ![id].left = time]

AdminOnly == {"create", "update", "profile", "delete", "policy", "flag"}

Handler(w) ==
    IF Req(w).op \in AdminOnly /\ worker[w].by.role # "admin" THEN "idle"
    ELSE CASE Req(w).op = "logout" -> "removeFromIndex"
           [] Req(w).op \in {"update", "profile", "delete"} -> "read"
           [] OTHER -> Req(w).op

RefreshIndex(w) ==
    /\ At(w, "refreshIndex")
    /\ index' = ExpireIndex(worker[w].by.id, worker[w].ttl)
    /\ Goto(w, Handler(w))
    /\ UNCHANGED <<boltVars, sessions, attempts, locked, limited, boundVars, auxVars>>

-----------------------------------------------------------------------------
(***************************************************************************)
(* handleLogin. An unreadable lock counts as none.                         *)
(***************************************************************************)
CheckLock(w) ==
    /\ At(w, "checkLock")
    /\ IF Req(w).name \in locked THEN Done(w) ELSE Goto(w, "verify")
    /\ UNCHANGED <<boltVars, redisVars, boundVars, auxVars>>

\* VerifyPassword: the user is there, is enabled and the password is right.
Verified(w) == Exists(Req(w).name) /\ ~users[Req(w).name].disabled /\ Req(w).right

Verify(w) ==
    /\ At(w, "verify")
    /\ worker' = [worker EXCEPT ![w].pc = IF Verified(w) THEN "clearAttempts" ELSE "countFailure",
                                ![w].copy = users[Req(w).name], ![w].ttl = GetSecurityPolicies]
    /\ UNCHANGED <<boltVars, redisVars, boundVars, auxVars>>

Incremented(c) == [c EXCEPT !.n = @ + 1]

\* The first failure sets the window; the last one allowed locks the account.
AfterFailure(n) ==
    IF n = 1 THEN "startWindow" ELSE IF n >= MaxAttempts THEN "lock" ELSE "idle"

CountFailure(w) ==
    LET c == Incremented(attempts[Req(w).name])
    IN  /\ At(w, "countFailure")
        /\ attempts' = [attempts EXCEPT ![Req(w).name] = c]
        /\ worker' = IF AfterFailure(c.n) = "idle" THEN [worker EXCEPT ![w] = IdleWorker]
                     ELSE [worker EXCEPT ![w].pc = AfterFailure(c.n), ![w].n = c.n]
        /\ UNCHANGED <<boltVars, sessions, index, locked, limited, boundVars, auxVars>>

\* MUTANT: the expiry makes a key of its own where there is none.
TimesNothing(c) == [c EXCEPT !.expires = TRUE]

Timed(c) == IF c.n = 0 THEN c ELSE [c EXCEPT !.expires = TRUE]

StartWindow(w) ==
    /\ At(w, "startWindow")
    /\ attempts' = [attempts EXCEPT ![Req(w).name] = Timed(@)]
    /\ Goto(w, IF worker[w].n >= MaxAttempts THEN "lock" ELSE "idle")
    /\ UNCHANGED <<boltVars, sessions, index, locked, limited, boundVars, auxVars>>

Lock(w) ==
    /\ At(w, "lock")
    /\ locked' = locked \cup {Req(w).name}
    /\ Goto(w, "dropAttempts")
    /\ UNCHANGED <<boltVars, sessions, index, attempts, limited, boundVars, auxVars>>

\* The counter goes, when the account is locked and when a login succeeds.
DropAttempts(w) ==
    /\ worker[w].pc \in {"dropAttempts", "clearAttempts"}
    /\ attempts' = [attempts EXCEPT ![Req(w).name] = NoCounter]
    /\ Goto(w, IF At(w, "dropAttempts") THEN "idle" ELSE "createSession")
    /\ UNCHANGED <<boltVars, sessions, index, locked, limited, boundVars, auxVars>>

\* SessionManager.Create: the session's key, the index, the index's lifetime.
CreateSession(w, t) ==
    /\ At(w, "createSession")
    /\ sessions[t].state = "free"
    /\ sessions' = [sessions EXCEPT ![t] =
          [state |-> "live", id |-> worker[w].copy.id, name |-> Req(w).name,
           role |-> worker[w].copy.role, left |-> worker[w].ttl]]
    /\ worker' = [worker EXCEPT ![w].pc = "addToIndex", ![w].by = sessions'[t],
                                ![w].tokens = {t}]
    /\ UNCHANGED <<boltVars, index, attempts, locked, limited, boundVars, auxVars>>

AddToIndex(w) ==
    /\ At(w, "addToIndex")
    /\ index' = [index EXCEPT ![worker[w].by.id] =
          [tokens |-> @.tokens \cup worker[w].tokens,
           left |-> IF @.left = 0 THEN Forever ELSE @.left]]
    /\ Goto(w, "expireIndex")
    /\ UNCHANGED <<boltVars, sessions, attempts, locked, limited, boundVars, auxVars>>

NewSessionExpiry(w) ==
    /\ At(w, "expireIndex")
    /\ index' = ExpireIndex(worker[w].by.id, worker[w].ttl)
    /\ Done(w)
    /\ UNCHANGED <<boltVars, sessions, attempts, locked, limited, boundVars, auxVars>>

-----------------------------------------------------------------------------
(***************************************************************************)
(* Sessions: logout, listing and revoking.                                 *)
(***************************************************************************)
Without(id, tokens) ==
    IF index[id].tokens \subseteq tokens THEN [index EXCEPT ![id] = NoIndex]
    ELSE [index EXCEPT ![id].tokens = @ \ tokens]

\* DeleteByUserSessionID: only a session the user's index holds is found.
Revoke(w) ==
    /\ At(w, "revoke")
    /\ IF Req(w).other \in index[worker[w].by.id].tokens
       THEN worker' = [worker EXCEPT ![w].pc = "removeFromIndex", ![w].tokens = {Req(w).other}]
       ELSE Done(w)
    /\ UNCHANGED <<boltVars, redisVars, boundVars, auxVars>>

\* SessionManager.Delete: out of the index first, if the session is there; then the key.
RemoveFromIndex(w) ==
    /\ At(w, "removeFromIndex")
    /\ index' = IF \E t \in worker[w].tokens : Live(t)
                THEN Without(worker[w].by.id, worker[w].tokens) ELSE index
    /\ Goto(w, "deleteKey")
    /\ UNCHANGED <<boltVars, sessions, attempts, locked, limited, boundVars, auxVars>>

DeleteKey(w) ==
    /\ At(w, "deleteKey")
    /\ sessions' = [t \in Token |-> IF t \in worker[w].tokens
                                    THEN [FreeToken EXCEPT !.state = "over"] ELSE sessions[t]]
    /\ Done(w)
    /\ UNCHANGED <<boltVars, index, attempts, locked, limited, boundVars, auxVars>>

\* ListByUser: the members of the index, and those whose session is over.
Stale(id) == {t \in index[id].tokens : ~Live(t)}

ListSessions(w) ==
    /\ At(w, "list")
    /\ worker' = IF Stale(worker[w].by.id) = {} THEN [worker EXCEPT ![w] = IdleWorker]
                 ELSE [worker EXCEPT ![w].pc = "prune", ![w].tokens = Stale(worker[w].by.id)]
    /\ UNCHANGED <<boltVars, redisVars, boundVars, auxVars>>

PruneIndex(w) ==
    /\ At(w, "prune")
    /\ index' = Without(worker[w].by.id, worker[w].tokens)
    /\ Done(w)
    /\ UNCHANGED <<boltVars, sessions, attempts, locked, limited, boundVars, auxVars>>

\* handleTriggerAction: the first call of a window sets its end, later ones are refused. That
\* the plugin runs and has the action, and the message to it, touch nothing of this module.
LimitAction(w) ==
    /\ At(w, "action")
    /\ limited' = Incremented(limited)
    /\ Goto(w, IF limited.n = 0 THEN "startLimit" ELSE "idle")
    /\ UNCHANGED <<boltVars, sessions, index, attempts, locked, boundVars, auxVars>>

StartLimit(w) ==
    /\ At(w, "startLimit")
    /\ limited' = Timed(limited)
    /\ Done(w)
    /\ UNCHANGED <<boltVars, sessions, index, attempts, locked, boundVars, auxVars>>

-----------------------------------------------------------------------------
(***************************************************************************)
(* Users. A record is read, changed in memory and saved as a whole.        *)
(***************************************************************************)
HasAnyUser(w) ==
    /\ At(w, "hasAnyUser")
    /\ Goto(w, IF \E u \in User : Exists(u) THEN "idle" ELSE "insert")
    /\ UNCHANGED <<boltVars, redisVars, boundVars, auxVars>>

CheckName(w) ==
    /\ At(w, "create")
    /\ Goto(w, IF Exists(Req(w).name) THEN "idle" ELSE "insert")
    /\ UNCHANGED <<boltVars, redisVars, boundVars, auxVars>>

\* CreateUser puts a new record under the name, whatever is there by now.
CreateUser(w) ==
    /\ At(w, "insert")
    /\ ids < MaxIds
    /\ ids' = ids + 1
    /\ users' = [users EXCEPT ![Req(w).name] =
          [NoUser EXCEPT !.id = ids + 1, !.role = IF Req(w).op = "setup" THEN "admin" ELSE "user"]]
    /\ Done(w)
    /\ UNCHANGED <<ttl, setupDone, redisVars, boundVars, auxVars>>

Wants(w, change) == Req(w).op = "update" /\ change \in Req(w).change
Self(w) == Req(w).name = worker[w].by.name

\* What each handler does with the record it read: the guards before the save.
RoleStep(w, copy) ==
    IF Self(w) /\ (Wants(w, "promote") \/ Wants(w, "demote")) THEN "idle"
    ELSE IF Wants(w, "demote") /\ copy.role = "admin" THEN "countForRole" ELSE "save"

\* MUTANT: a request that disables an administrator is checked as if it only changed roles.
ForgetsDisable(w, copy) ==
    CASE Req(w).op = "profile" -> "save"
      [] Req(w).op = "delete" -> IF Self(w) THEN "idle"
                                 ELSE IF copy.role = "admin" THEN "countForDelete" ELSE "erase"
      [] OTHER -> RoleStep(w, copy)

AfterRead(w, copy) ==
    CASE Req(w).op = "profile" -> "save"
      [] Req(w).op = "delete" -> IF Self(w) THEN "idle"
                                 ELSE IF copy.role = "admin" THEN "countForDelete" ELSE "erase"
      [] OTHER -> IF Self(w) /\ (Wants(w, "disable") \/ Wants(w, "enable")) THEN "idle"
                  ELSE IF Wants(w, "disable") /\ copy.role = "admin" THEN "countForDisable"
                  ELSE RoleStep(w, copy)

ReadUser(w) ==
    LET copy == users[Req(w).name]
        next == AfterRead(w, copy)
    IN  /\ At(w, "read")
        /\ worker' = IF ~Exists(Req(w).name) \/ next = "idle"
                     THEN [worker EXCEPT ![w] = IdleWorker]
                     ELSE [worker EXCEPT ![w].pc = next, ![w].copy = copy]
        /\ UNCHANGED <<boltVars, redisVars, boundVars, auxVars>>

\* The last administrator who can log in is not disabled, demoted or deleted.
CountAdmins(w) ==
    /\ worker[w].pc \in {"countForDisable", "countForRole", "countForDelete"}
    /\ Goto(w, IF Cardinality(ActiveAdmins) <= 1 THEN "idle"
               ELSE CASE At(w, "countForDisable") -> RoleStep(w, worker[w].copy)
                      [] At(w, "countForRole") -> "save"
                      [] OTHER -> "erase")
    /\ UNCHANGED <<boltVars, redisVars, boundVars, auxVars>>

\* MUTANT: saving anything enables the account.
Reenables(w) == [worker[w].copy EXCEPT !.disabled = Wants(w, "disable"),
                                       !.role = IF Wants(w, "promote") THEN "admin"
                                                ELSE IF Wants(w, "demote") THEN "user" ELSE @]

\* The record as the request wants it, made from the copy that was read.
Changed(w) ==
    LET c == worker[w].copy
    IN  [c EXCEPT !.role = IF Wants(w, "promote") THEN "admin"
                           ELSE IF Wants(w, "demote") THEN "user" ELSE @,
                  !.disabled = IF Wants(w, "disable") THEN TRUE
                               ELSE IF Wants(w, "enable") THEN FALSE ELSE @,
                  !.password = IF Wants(w, "reset") \/ Req(w).op = "password" THEN @ + 1 ELSE @]

SaveUser(w) ==
    /\ At(w, "save")
    /\ users' = [users EXCEPT ![Req(w).name] = Changed(w)]
    /\ Done(w)
    /\ UNCHANGED <<ids, ttl, setupDone, redisVars, boundVars, auxVars>>

DeleteUser(w) ==
    /\ At(w, "erase")
    /\ users' = [users EXCEPT ![Req(w).name] = NoUser]
    /\ Done(w)
    /\ UNCHANGED <<ids, ttl, setupDone, redisVars, boundVars, auxVars>>

\* handleChangePassword: the caller's own record, if the old password is right.
ChangePassword(w) ==
    LET name == worker[w].by.name
    IN  /\ At(w, "password")
        /\ worker' = IF Exists(name) /\ ~users[name].disabled /\ Req(w).right
                     THEN [worker EXCEPT ![w].pc = "save", ![w].copy = users[name],
                                         ![w].req.name = name]
                     ELSE [worker EXCEPT ![w] = IdleWorker]
        /\ UNCHANGED <<boltVars, redisVars, boundVars, auxVars>>

StoreSecurityPolicies(hours) == ttl' = hours

SetSecurityPolicies(w) ==
    /\ At(w, "policy")
    /\ StoreSecurityPolicies(Req(w).ttl)
    /\ repoliced' = (repoliced \/ Req(w).ttl # ttl)
    /\ Done(w)
    /\ UNCHANGED <<users, ids, setupDone, redisVars, boundVars, overlapped>>

SetSetupCompleted(w) ==
    /\ At(w, "flag")
    /\ setupDone' = Req(w).done
    /\ Done(w)
    /\ UNCHANGED <<users, ids, ttl, redisVars, boundVars, auxVars>>

\* A boot that finds no user: in mode "cli" and "unattended" it creates the administrator,
\* "admin" or the name it is given, before the API serves; in "web" it leaves that to "setup".
BootstrapAdmin ==
    /\ \A w \in Worker : At(w, "idle")
    /\ \A u \in User : ~Exists(u)
    /\ ids < MaxIds /\ ids' = ids + 1
    /\ \E u \in User : users' = [users EXCEPT ![u] = [NoUser EXCEPT !.id = ids', !.role = "admin"]]
    /\ UNCHANGED <<ttl, setupDone, redisVars, worker, boundVars, auxVars>>

\* `griffino admin reset-password` opens the database itself, so the daemon is down.
ResetPassword ==
    /\ \A w \in Worker : At(w, "idle")
    /\ accepted < MaxRequests
    /\ accepted' = accepted + 1
    /\ Exists(Operator)
    /\ users' = [users EXCEPT ![Operator].password = @ + 1]
    /\ UNCHANGED <<ids, ttl, setupDone, redisVars, worker, faults, auxVars>>

-----------------------------------------------------------------------------
(***************************************************************************)
(* Time and faults. A lifetime is counted in hours and a request takes     *)
(* milliseconds: an hour passes between requests.                          *)
(***************************************************************************)
Aged(left) == IF left \in {0, Forever} THEN left ELSE left - 1

Hour ==
    /\ \A w \in Worker : At(w, "idle")
    /\ \E t \in Token : Live(t)
    /\ sessions' = [t \in Token |->
          IF ~Live(t) THEN sessions[t]
          ELSE IF sessions[t].left = 1 THEN [FreeToken EXCEPT !.state = "over"]
          ELSE [sessions[t] EXCEPT !.left = @ - 1]]
    /\ index' = [i \in Id |-> IF Aged(index[i].left) = 0 THEN NoIndex
                              ELSE [index[i] EXCEPT !.left = Aged(@)]]
    /\ UNCHANGED <<boltVars, attempts, locked, limited, worker, boundVars, auxVars>>

\* The minutes and seconds of the other keys pass at any moment.
LockEnds(u) ==
    /\ u \in locked
    /\ locked' = locked \ {u}
    /\ UNCHANGED <<boltVars, sessions, index, attempts, limited, worker, boundVars, auxVars>>

WindowEnds(u) ==
    /\ attempts[u].expires
    /\ attempts' = [attempts EXCEPT ![u] = NoCounter]
    /\ UNCHANGED <<boltVars, sessions, index, locked, limited, worker, boundVars, auxVars>>

LimitEnds ==
    /\ limited.expires
    /\ limited' = NoCounter
    /\ UNCHANGED <<boltVars, sessions, index, attempts, locked, worker, boundVars, auxVars>>

\* Where a handler goes on after a Redis command that failed.
AfterError(w) ==
    CASE worker[w].pc \in {"refresh", "refreshIndex"} -> Handler(w)
      [] At(w, "checkLock") -> "verify"
      [] At(w, "startWindow") -> IF worker[w].n >= MaxAttempts THEN "lock" ELSE "idle"
      [] At(w, "lock") -> "dropAttempts"
      [] At(w, "clearAttempts") -> "createSession"
      [] At(w, "addToIndex") -> "expireIndex"
      [] At(w, "removeFromIndex") -> "deleteKey"
      [] OTHER -> "idle"

RedisSteps == {"auth", "refresh", "refreshIndex", "checkLock", "countFailure", "startWindow",
               "lock", "dropAttempts", "clearAttempts", "createSession", "addToIndex",
               "expireIndex", "revoke", "removeFromIndex", "deleteKey", "list", "prune",
               "action", "startLimit"}

RedisFails(w) ==
    /\ worker[w].pc \in RedisSteps
    /\ faults < MaxFaults
    /\ faults' = faults + 1
    /\ Goto(w, AfterError(w))
    /\ UNCHANGED <<boltVars, redisVars, accepted, auxVars>>

\* The daemon dies with the requests it was at.
Crash ==
    /\ \E w \in Worker : ~At(w, "idle")
    /\ faults < MaxFaults
    /\ faults' = faults + 1
    /\ worker' = [w \in Worker |-> IdleWorker]
    /\ UNCHANGED <<boltVars, redisVars, accepted, auxVars>>
-----------------------------------------------------------------------------

\* A fresh installation, or one set up with these administrators, each with a session
\* of the current lifetime.
Fresh ==
    /\ users = [u \in User |-> NoUser] /\ ids = 0
    /\ sessions = [t \in Token |-> FreeToken]
    /\ index = [i \in Id |-> NoIndex]

InUse ==
    LET id == CHOOSE f \in Injection(User, 1..Cardinality(User)) : TRUE
        token == CHOOSE f \in Injection(User, Token) : TRUE
        Of(i) == {u \in User : id[u] = i}
    IN  /\ ids = Cardinality(User)
        /\ users = [u \in User |-> [NoUser EXCEPT !.id = id[u], !.role = "admin"]]
        /\ sessions = [t \in Token |->
              IF \E u \in User : token[u] = t
              THEN LET u == CHOOSE v \in User : token[v] = t
                   IN  [state |-> "live", id |-> id[u], name |-> u, role |-> "admin", left |-> ttl]
              ELSE FreeToken]
        /\ index = [i \in Id |-> IF Of(i) = {} THEN NoIndex
                                 ELSE [tokens |-> {token[u] : u \in Of(i)}, left |-> ttl]]

Init ==
    /\ ttl \in TTL
    /\ setupDone = FALSE
    /\ attempts = [u \in User |-> NoCounter]
    /\ locked = {}
    /\ limited = NoCounter
    /\ worker = [w \in Worker |-> IdleWorker]
    /\ accepted = 0 /\ faults = 0
    /\ overlapped = FALSE /\ repoliced = FALSE
    /\ Fresh \/ InUse

Login(w) ==
    \/ CheckLock(w) \/ Verify(w) \/ CountFailure(w) \/ StartWindow(w) \/ Lock(w) \/ DropAttempts(w)
    \/ (\E t \in Token : CreateSession(w, t)) \/ AddToIndex(w) \/ NewSessionExpiry(w)

SessionStep(w) ==
    \/ Authenticate(w) \/ RefreshSession(w) \/ RefreshIndex(w) \/ Revoke(w) \/ RemoveFromIndex(w)
    \/ DeleteKey(w) \/ ListSessions(w) \/ PruneIndex(w) \/ LimitAction(w) \/ StartLimit(w)

UserStep(w) ==
    \/ HasAnyUser(w) \/ CheckName(w) \/ CreateUser(w) \/ ReadUser(w) \/ CountAdmins(w)
    \/ SaveUser(w) \/ DeleteUser(w) \/ ChangePassword(w) \/ SetSecurityPolicies(w)
    \/ SetSetupCompleted(w)

Time == Hour \/ LimitEnds \/ \E u \in User : LockEnds(u) \/ WindowEnds(u)

Next ==
    \/ \E w \in Worker : \/ \E req \in Requests : Accept(w, req)
                         \/ Login(w) \/ SessionStep(w) \/ UserStep(w) \/ RedisFails(w)
    \/ BootstrapAdmin \/ ResetPassword \/ Time \/ Crash

Spec == Init /\ [][Next]_vars

-----------------------------------------------------------------------------
TypeOK ==
    /\ users \in [User -> [id : 0..MaxIds, role : {"admin", "user"}, disabled : BOOLEAN,
                           password : Nat]]
    /\ ids \in 0..MaxIds /\ ttl \in TTL /\ setupDone \in BOOLEAN
    /\ \A t \in Token : /\ sessions[t].state \in {"free", "live", "over"}
                        /\ sessions[t].left \in 0..Forever - 1
                        /\ Live(t) <=> sessions[t].left > 0
    /\ \A i \in Id : /\ index[i].tokens \subseteq Token
                     /\ index[i].left \in 0..Forever
                     /\ index[i].left = 0 <=> index[i].tokens = {}
    /\ \A u \in User : attempts[u].n = 0 => ~attempts[u].expires
    /\ locked \subseteq User
    /\ \A w \in Worker : worker[w].pc = "idle" <=> worker[w] = IdleWorker
    /\ accepted \in 0..MaxRequests /\ faults \in 0..MaxFaults

(***************************************************************************)
(* Every live session can be listed and revoked: it is in its user's index *)
(* (auth/session.go: Create, Refresh, Delete, ListByUser, each of them     *)
(* several commands). Excepted are a session that is being created or      *)
(* deleted, a failed command or a crash in between, and a changed lifetime:*)
(* a renewal by the shorter one, be it the new one or one read before the  *)
(* change, cuts the index below what another session has left.             *)
(***************************************************************************)
InHand(t) ==
    \E w \in Worker : /\ worker[w].pc \in {"addToIndex", "deleteKey"}
                      /\ t \in worker[w].tokens

LiveIsListed ==
    \A t \in Token :
        \/ ~Live(t) \/ t \in index[sessions[t].id].tokens
        \/ InHand(t) \/ faults > 0 \/ repoliced

(***************************************************************************)
(* As long as no two requests change users at the same time, there is an   *)
(* administrator who can log in once the system has been set up            *)
(* (handleUpdateUser, handleDeleteUser: "avoid locking out the last active *)
(* admin").                                                                *)
(***************************************************************************)
LastAdmin == overlapped \/ ActiveAdmins # {} \/ \A u \in User : ~Exists(u)

(***************************************************************************)
(* A save puts back a whole record that was read earlier. When requests    *)
(* come one at a time it changes only what its request is about: no        *)
(* password returns to an older one, no account is enabled or given a role *)
(* again, no deleted user comes back (store.UpdateUser).                   *)
(***************************************************************************)
SavesOnlyItsChange ==
    [][\A w \in Worker :
          (At(w, "save") /\ worker'[w].pc = "idle" /\ ~overlapped /\ faults' = faults) =>
              LET was == users[Req(w).name]
                  is == users'[Req(w).name]
              IN  /\ is.id = was.id
                  /\ is.password >= was.password
                  /\ is.disabled = was.disabled \/ Wants(w, "disable") \/ Wants(w, "enable")
                  /\ is.role = was.role \/ Wants(w, "promote") \/ Wants(w, "demote")]_vars
=============================================================================
