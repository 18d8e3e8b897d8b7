---------------------------- MODULE AccountsProofs ----------------------------
(***************************************************************************)
(* What users and sessions promise, proved for any users, tokens, request  *)
(* goroutines and session lifetimes and any number of requests and faults: *)
(* there is an administrator who can log in, a save changes what its       *)
(* request is about, and a live session can be listed and revoked.         *)
(***************************************************************************)
EXTENDS Accounts, TLAPS, FiniteSetTheorems, FunctionTheorems

Role    == {"admin", "user"}
Account == [id : 0..MaxIds, role : Role, disabled : BOOLEAN, password : Nat]
Session == [state : {"free", "live", "over"}, id : 0..MaxIds, name : User, role : Role,
            left : 0..Forever - 1]
Members == [tokens : SUBSET Token, left : 0..Forever]
Counter == [n : Nat, expires : BOOLEAN]

LoginSteps == {"checkLock", "verify", "countFailure", "startWindow", "lock", "dropAttempts",
               "clearAttempts", "createSession", "addToIndex", "expireIndex"}
LoggedIn   == {"logout", "list", "action", "revoke", "password", "create", "profile", "delete",
               "update", "policy", "flag"}

\* The requests a goroutine may be at a step for.
OpsAt(pc) ==
  CASE pc \in LoginSteps -> {"login"}
    [] pc = "hasAnyUser" -> {"setup"}
    [] pc = "insert" -> {"setup", "create"}
    [] pc \in {"auth", "refresh", "refreshIndex"} -> LoggedIn
    [] pc \in {"removeFromIndex", "deleteKey"} -> {"logout", "revoke"}
    [] pc \in {"revoke", "password", "create", "policy", "flag"} -> {pc}
    [] pc \in {"list", "prune"} -> {"list"}
    [] pc \in {"action", "startLimit"} -> {"action"}
    [] pc = "read" -> {"update", "profile", "delete"}
    [] pc \in {"countForDisable", "countForRole"} -> {"update"}
    [] pc \in {"countForDelete", "erase"} -> {"delete"}
    [] pc = "save" -> {"update", "profile", "password"}
    [] OTHER -> {}

Fields == {"pc", "req", "by", "copy", "n", "ttl", "tokens"}

IsJob(j) ==
  /\ DOMAIN j = Fields
  /\ j.req \in Request /\ j.by \in Session /\ j.copy \in Account
  /\ j.n \in Nat /\ j.ttl \in TTL /\ j.tokens \subseteq Token
  /\ j.req.op \in OpsAt(j.pc)

WorkerTypes == DOMAIN worker = Worker /\ \A w \in Worker : worker[w] = IdleWorker \/ IsJob(worker[w])

BoltTypes ==
  /\ users \in [User -> Account] /\ ids \in 0..MaxIds /\ ttl \in TTL /\ setupDone \in BOOLEAN

RedisTypes ==
  /\ sessions \in [Token -> Session] /\ index \in [Id -> Members]
  /\ attempts \in [User -> Counter] /\ limited \in Counter /\ locked \subseteq User

BoundTypes ==
  /\ accepted \in 0..MaxRequests /\ faults \in 0..MaxFaults
  /\ overlapped \in BOOLEAN /\ repoliced \in BOOLEAN

Types == WorkerTypes /\ BoltTypes /\ RedisTypes /\ BoundTypes

\* A token that was issued, and to no other user.
IsOf(t, id) == sessions[t].state # "free" /\ (Live(t) => sessions[t].id = id)

\* What a goroutine has in hand at each step.
BeforeLogin == {"idle", "auth", "checkLock", "verify", "countFailure", "startWindow", "lock",
                "dropAttempts", "clearAttempts", "createSession", "hasAnyUser", "insert"}

JobSound(w) ==
  /\ worker[w].pc \notin BeforeLogin => worker[w].by.id # 0
  /\ worker[w].pc \in {"clearAttempts", "createSession"} => worker[w].copy.id # 0
  /\ worker[w].pc = "addToIndex" => worker[w].tokens # {} /\ \A t \in worker[w].tokens : IsOf(t, worker[w].by.id)
  /\ worker[w].pc = "prune" => \A t \in worker[w].tokens : sessions[t].state = "over"
  /\ worker[w].pc = "refresh" => IsOf(Req(w).token, worker[w].by.id)

JobInOrder == \A w \in Worker : JobSound(w)

\* The index of a user has only tokens of that user, and none before it is issued.
SessionsInOrder ==
  /\ \A t \in Token : (Live(t) <=> sessions[t].left > 0) /\ (Live(t) => sessions[t].id # 0)
  /\ \A i \in Id : /\ index[i].left = 0 <=> index[i].tokens = {}
                   /\ \A t \in index[i].tokens : IsOf(t, i)
  /\ \A u \in User : attempts[u].n = 0 => ~attempts[u].expires

\* Before there is a user nobody is logged in.
NoUsers == \A u \in User : ~Exists(u)

Verifying == {"clearAttempts", "createSession", "addToIndex", "expireIndex"}

Unused ==
  NoUsers => /\ \A t \in Token : sessions[t].state = "free"
             /\ \A w \in Worker : worker[w].pc # "idle" =>
                   Req(w).op \in {"login", "setup"} /\ worker[w].pc \notin Verifying

\* A request that changes users has the record as it is, and what it takes away another has too.
WithCopy == {"countForDisable", "countForRole", "countForDelete", "save", "erase"}

Another(w) == ActiveAdmins \ {Req(w).name} # {}

EditInOrder(w) ==
  /\ worker[w].pc \in WithCopy => worker[w].copy = users[Req(w).name] /\ worker[w].copy.id # 0
  /\ worker[w].pc = "save" /\ worker[w].copy.role = "admin" /\ (Wants(w, "disable") \/ Wants(w, "demote"))
       => Another(w)
  /\ worker[w].pc = "erase" /\ worker[w].copy.role = "admin" => Another(w)
  /\ worker[w].pc = "insert" => IF Req(w).op = "create" THEN ~Exists(Req(w).name) ELSE NoUsers

OneEditor == \A v, w \in Worker : Editing(v) /\ Editing(w) => v = w

UsersInOrder ==
  ~overlapped => /\ OneEditor
                 /\ \A w \in Worker : EditInOrder(w)
                 /\ Unused
                 /\ NoUsers \/ ActiveAdmins # {}

\* A live session is in the index of its user and does not outlive it, but for what a goroutine
\* is about to do.
RenewSteps == {"refreshIndex", "addToIndex", "expireIndex"}
Renewing(i) == \E w \in Worker : worker[w].pc \in RenewSteps /\ worker[w].by.id = i
Listed(t) == t \in index[sessions[t].id].tokens

ListedInTime(t) ==
  Live(t) => /\ sessions[t].left <= ttl
             /\ Listed(t) \/ InHand(t)
             /\ Listed(t) => sessions[t].left <= index[sessions[t].id].left \/ Renewing(sessions[t].id)

ListsInOrder ==
  faults = 0 /\ ~repoliced => /\ \A w \in Worker : worker[w].pc # "idle" => worker[w].ttl = ttl
                              /\ \A t \in Token : ListedInTime(t)

IInv == Types /\ JobInOrder /\ SessionsInOrder /\ UsersInOrder /\ ListsInOrder

-----------------------------------------------------------------------------
(* Requests, lifetimes and steps. *)

\* The fields a request has.
LEMMA RequestFields ==
  ASSUME NEW r \in Request
  PROVE  /\ r.op \in LoggedIn \cup {"login", "setup"}
         /\ r.op \in LoggedIn => r.token \in Token
         /\ r.op \in {"login", "setup"} \cup UserEdits => r.name \in User
         /\ r.op = "policy" => r.ttl \in TTL
         /\ r.op = "flag" => r.done \in BOOLEAN
BY DEF Request, LoggedIn, UserEdits

\* The name of a password change is the caller's.
LEMMA RenamedRequest ==
  ASSUME NEW r \in Request, r.op = "password", NEW u \in User
  PROVE  [r EXCEPT !.name = u] \in Request /\ [r EXCEPT !.name = u].op = "password"
<1>1. r \in [op : {"password"}, token : Token, right : BOOLEAN, name : User]
  BY DEF Request
<1>2. [r EXCEPT !.name = u] \in [op : {"password"}, token : Token, right : BOOLEAN, name : User]
  BY <1>1
<1>3. QED
  BY <1>2 DEF Request

\* A lifetime ends before Forever.
LEMMA Lifetimes ==
  /\ Forever \in Nat /\ Forever >= 2
  /\ \A n \in TTL : n \in 1..Forever - 1
  /\ MaxIds \in Nat /\ MaxRequests \in Nat /\ MaxFaults \in Nat
<1>1. PICK n \in TTL : \A k \in TTL : k <= n
  BY AccountsAssumption
<1> DEFINE Longest == CHOOSE m \in TTL : \A k \in TTL : k <= m
<1>2. Longest \in TTL /\ \A k \in TTL : k <= Longest
  BY <1>1
<1>3. Forever = 1 + Longest
  BY DEF Forever
<1> HIDE DEF Longest
<1>4. TTL \subseteq Nat \ {0}
  BY AccountsAssumption
<1>5. QED
  BY <1>2, <1>3, <1>4, AccountsAssumption

\* The steps of each kind of request.
LEMMA OpsTable ==
  /\ OpsAt("idle") = {}
  /\ \A pc \in LoginSteps : OpsAt(pc) = {"login"}
  /\ OpsAt("hasAnyUser") = {"setup"} /\ OpsAt("insert") = {"setup", "create"}
  /\ OpsAt("auth") = LoggedIn /\ OpsAt("refresh") = LoggedIn /\ OpsAt("refreshIndex") = LoggedIn
  /\ OpsAt("removeFromIndex") = {"logout", "revoke"} /\ OpsAt("deleteKey") = {"logout", "revoke"}
  /\ OpsAt("revoke") = {"revoke"} /\ OpsAt("password") = {"password"} /\ OpsAt("create") = {"create"}
  /\ OpsAt("policy") = {"policy"} /\ OpsAt("flag") = {"flag"}
  /\ OpsAt("list") = {"list"} /\ OpsAt("prune") = {"list"}
  /\ OpsAt("action") = {"action"} /\ OpsAt("startLimit") = {"action"}
  /\ OpsAt("read") = {"update", "profile", "delete"}
  /\ OpsAt("countForDisable") = {"update"} /\ OpsAt("countForRole") = {"update"}
  /\ OpsAt("countForDelete") = {"delete"} /\ OpsAt("erase") = {"delete"}
  /\ OpsAt("save") = {"update", "profile", "password"}
BY DEF OpsAt, LoginSteps

\* A goroutine that is not idle has a job.
LEMMA JobIs ==
  ASSUME Types, NEW w \in Worker, worker[w].pc # "idle"
  PROVE  IsJob(worker[w])
BY DEF Types, WorkerTypes, IdleWorker

-----------------------------------------------------------------------------
(* What a step does to the goroutines. *)

\* The goroutine w takes a step, and the others none.
OthersKeep(w) == DOMAIN worker' = Worker /\ \A v \in Worker \ {w} : worker'[v] = worker[v]

Ends(w) == OthersKeep(w) /\ worker'[w] = IdleWorker

\* It goes on with what it has in hand, or with something else in hand.
Takes(w, pc, by, copy, n, time, tokens) ==
  /\ OthersKeep(w) /\ DOMAIN worker'[w] = Fields /\ worker'[w].req = worker[w].req
  /\ worker'[w].pc = pc /\ worker'[w].by = by /\ worker'[w].copy = copy /\ worker'[w].n = n
  /\ worker'[w].ttl = time /\ worker'[w].tokens = tokens

Moves(w, pc) ==
  Takes(w, pc, worker[w].by, worker[w].copy, worker[w].n, worker[w].ttl, worker[w].tokens)

\* What Goto does.
LEMMA GotoEffect ==
  ASSUME Types, NEW w \in Worker, worker[w].pc # "idle", NEW pc, Goto(w, pc)
  PROVE  (pc = "idle" => Ends(w)) /\ (pc # "idle" => Moves(w, pc))
<1>1. DOMAIN worker = Worker /\ DOMAIN worker[w] = Fields
  BY JobIs DEF IsJob, Types, WorkerTypes
<1>2. CASE pc = "idle"
  BY <1>1, <1>2 DEF Goto, Ends, OthersKeep
<1>3. CASE pc # "idle"
  <2>1. worker' = [worker EXCEPT ![w] = [@ EXCEPT !.pc = pc]]
    BY <1>3 DEF Goto
  <2>2. OthersKeep(w)
    BY <1>1, <2>1 DEF OthersKeep
  <2>3. worker'[w] = [worker[w] EXCEPT !.pc = pc]
    BY <1>1, <2>1
  <2>4. QED
    BY <1>1, <1>3, <2>2, <2>3 DEF Moves, Takes, Fields
<1>4. QED
  BY <1>2, <1>3

\* A goroutine that takes what is of the right type, at a step of its request, has a job.
LEMMA TakesJob ==
  ASSUME Types, NEW w \in Worker, worker[w].pc # "idle", NEW pc, NEW by \in Session,
         NEW copy \in Account, NEW n \in Nat, NEW time \in TTL, NEW tokens \in SUBSET Token,
         Takes(w, pc, by, copy, n, time, tokens), Req(w).op \in OpsAt(pc)
  PROVE  IsJob(worker'[w])
BY JobIs DEF IsJob, Takes, Req

\* The same for one that only moves.
LEMMA MovesJob ==
  ASSUME Types, NEW w \in Worker, worker[w].pc # "idle", NEW pc, Moves(w, pc), Req(w).op \in OpsAt(pc)
  PROVE  IsJob(worker'[w])
BY JobIs DEF IsJob, Moves, Takes, Req

\* The request of a goroutine that is at a step for it.
LEMMA AtStep ==
  ASSUME Types, NEW w \in Worker, worker[w].pc # "idle"
  PROVE  Req(w) \in Request /\ Req(w).op \in OpsAt(worker[w].pc)
BY JobIs DEF IsJob, Req

\* authMiddleware finds the session, or ends the request.
LEMMA AuthenticateEffect ==
  ASSUME Types, NEW w \in Worker, Authenticate(w)
  PROVE  /\ worker[w].pc = "auth" /\ Req(w).token \in Token
         /\ ~Live(Req(w).token) => Ends(w)
         /\ Live(Req(w).token) => Takes(w, "refresh", sessions[Req(w).token], worker[w].copy, worker[w].n,
                                      ttl, worker[w].tokens)
         /\ UNCHANGED <<boltVars, redisVars, boundVars, auxVars>>
<1>1. worker[w].pc = "auth"
  BY DEF Authenticate, At
<1>2. DOMAIN worker = Worker /\ DOMAIN worker[w] = Fields
  BY <1>1, JobIs DEF IsJob, Types, WorkerTypes
<1>3. Req(w).token \in Token
  BY <1>1, AtStep, RequestFields, OpsTable
<1>4. CASE ~Live(Req(w).token)
  BY <1>1, <1>3, <1>4, GotoEffect DEF Authenticate, Done
<1>5. CASE Live(Req(w).token)
  <2>1. worker' = [worker EXCEPT ![w].pc = "refresh", ![w].by = sessions[Req(w).token],
                                 ![w].ttl = ttl]
    BY <1>5 DEF Authenticate, GetSecurityPolicies
  <2>2. QED
    BY <1>1, <1>2, <1>3, <1>5, <2>1 DEF Takes, OthersKeep, Fields, Authenticate
<1>6. QED
  BY <1>1, <1>3, <1>4, <1>5 DEF Authenticate

\* The password is checked, and the record and the policy are read.
LEMMA VerifyEffect ==
  ASSUME Types, NEW w \in Worker, Verify(w)
  PROVE  /\ worker[w].pc = "verify" /\ Req(w).name \in User
         /\ Takes(w, IF Verified(w) THEN "clearAttempts" ELSE "countFailure", worker[w].by,
                  users[Req(w).name], worker[w].n, ttl, worker[w].tokens)
         /\ UNCHANGED <<boltVars, redisVars, boundVars, auxVars>>
<1>1. worker[w].pc = "verify"
  BY DEF Verify, At
<1>2. DOMAIN worker = Worker /\ DOMAIN worker[w] = Fields
  BY <1>1, JobIs DEF IsJob, Types, WorkerTypes
<1>3. Req(w).name \in User
  BY <1>1, AtStep, RequestFields, OpsTable DEF LoginSteps
<1> DEFINE pc == IF Verified(w) THEN "clearAttempts" ELSE "countFailure"
<1>4. worker' = [worker EXCEPT ![w].pc = pc, ![w].copy = users[Req(w).name], ![w].ttl = ttl]
  BY DEF Verify, GetSecurityPolicies
<1> HIDE DEF pc
<1>5. Takes(w, pc, worker[w].by, users[Req(w).name], worker[w].n, ttl, worker[w].tokens)
  BY <1>2, <1>4 DEF Takes, OthersKeep, Fields
<1>6. QED
  BY <1>1, <1>3, <1>5 DEF Verify, pc

\* A failure is counted, and the first and the last one allowed do more.
LEMMA CountFailureEffect ==
  ASSUME Types, NEW w \in Worker, CountFailure(w)
  PROVE  /\ worker[w].pc = "countFailure" /\ Req(w).name \in User
         /\ \/ Ends(w)
            \/ \E pc \in {"startWindow", "lock"} : Takes(w, pc, worker[w].by, worker[w].copy,
                  attempts[Req(w).name].n + 1, worker[w].ttl, worker[w].tokens)
         /\ attempts' = [attempts EXCEPT ![Req(w).name] = Incremented(@)]
         /\ UNCHANGED <<boltVars, sessions, index, locked, limited, boundVars, auxVars>>
<1>1. worker[w].pc = "countFailure"
  BY DEF CountFailure, At
<1>2. DOMAIN worker = Worker /\ DOMAIN worker[w] = Fields
  BY <1>1, JobIs DEF IsJob, Types, WorkerTypes
<1>3. Req(w).name \in User
  BY <1>1, AtStep, RequestFields, OpsTable DEF LoginSteps
<1> DEFINE c == Incremented(attempts[Req(w).name])
           pc == AfterFailure(c.n)
<1>4. attempts[Req(w).name] \in Counter /\ c.n = attempts[Req(w).name].n + 1
  BY <1>3 DEF Types, RedisTypes, Counter, Incremented
<1>5. pc \in {"startWindow", "lock", "idle"}
  BY DEF AfterFailure
<1>6. worker' = IF pc = "idle" THEN [worker EXCEPT ![w] = IdleWorker]
                ELSE [worker EXCEPT ![w].pc = pc, ![w].n = c.n]
  BY DEF CountFailure
<1>7. attempts' = [attempts EXCEPT ![Req(w).name] = Incremented(@)]
  BY <1>3 DEF CountFailure, Types, RedisTypes
<1> HIDE DEF c, pc
<1>8. CASE pc = "idle"
  BY <1>1, <1>2, <1>3, <1>6, <1>7, <1>8 DEF Ends, OthersKeep, CountFailure
<1>9. CASE pc # "idle"
  <2>1. Takes(w, pc, worker[w].by, worker[w].copy, c.n, worker[w].ttl, worker[w].tokens)
    BY <1>2, <1>6, <1>9 DEF Takes, OthersKeep, Fields
  <2>2. QED
    BY <1>1, <1>3, <1>4, <1>5, <1>7, <1>9, <2>1 DEF CountFailure
<1>10. QED
  BY <1>8, <1>9

\* A session of the user that was verified gets a token nobody had.
LEMMA CreateSessionEffect ==
  ASSUME Types, JobInOrder, NEW w \in Worker, NEW t \in Token, CreateSession(w, t)
  PROVE  /\ worker[w].pc = "createSession" /\ worker[w].copy.id # 0 /\ sessions[t].state = "free"
         /\ sessions' \in [Token -> Session] /\ \A k \in Token \ {t} : sessions'[k] = sessions[k]
         /\ sessions'[t].state = "live" /\ sessions'[t].id = worker[w].copy.id
         /\ sessions'[t].left = worker[w].ttl
         /\ Takes(w, "addToIndex", sessions'[t], worker[w].copy, worker[w].n, worker[w].ttl, {t})
         /\ UNCHANGED <<boltVars, index, attempts, locked, limited, boundVars, auxVars>>
<1>1. worker[w].pc = "createSession"
  BY DEF CreateSession, At
<1>2. DOMAIN worker = Worker /\ DOMAIN worker[w] = Fields /\ worker[w].copy \in Account /\ worker[w].ttl \in TTL
  BY <1>1, JobIs DEF IsJob, Types, WorkerTypes
<1>3. Req(w).name \in User
  BY <1>1, AtStep, RequestFields, OpsTable DEF LoginSteps
<1> DEFINE new == [state |-> "live", id |-> worker[w].copy.id, name |-> Req(w).name,
                   role |-> worker[w].copy.role, left |-> worker[w].ttl]
<1>4. new \in Session
  BY <1>2, <1>3, Lifetimes DEF Session, Account
<1>5. new.state = "live" /\ new.id = worker[w].copy.id /\ new.left = worker[w].ttl
  OBVIOUS
<1>6. sessions' = [sessions EXCEPT ![t] = new]
  BY DEF CreateSession
<1> HIDE DEF new
<1>7. sessions' \in [Token -> Session] /\ sessions'[t] = new /\ \A k \in Token \ {t} : sessions'[k] = sessions[k]
  BY <1>4, <1>6 DEF Types, RedisTypes
<1>8. worker' = [worker EXCEPT ![w].pc = "addToIndex", ![w].by = sessions'[t], ![w].tokens = {t}]
  BY DEF CreateSession
<1>9. Takes(w, "addToIndex", sessions'[t], worker[w].copy, worker[w].n, worker[w].ttl, {t})
  BY <1>2, <1>8 DEF Takes, OthersKeep, Fields
<1>10. QED
  BY <1>1, <1>5, <1>7, <1>9 DEF CreateSession, JobInOrder, JobSound

\* Only a session in the caller's index is revoked.
LEMMA RevokeEffect ==
  ASSUME Types, JobInOrder, NEW w \in Worker, Revoke(w)
  PROVE  /\ worker[w].pc = "revoke" /\ worker[w].by.id \in Id
         /\ \/ Ends(w)
            \/ \E t \in index[worker[w].by.id].tokens :
                  Takes(w, "removeFromIndex", worker[w].by, worker[w].copy, worker[w].n, worker[w].ttl, {t})
         /\ UNCHANGED <<boltVars, redisVars, boundVars, auxVars>>
<1>1. worker[w].pc = "revoke"
  BY DEF Revoke, At
<1>2. DOMAIN worker = Worker /\ DOMAIN worker[w] = Fields /\ worker[w].by \in Session
  BY <1>1, JobIs DEF IsJob, Types, WorkerTypes
<1>3. worker[w].by.id \in Id
  BY <1>1, <1>2, Lifetimes DEF JobInOrder, JobSound, BeforeLogin, Session, Id
<1>4. CASE Req(w).other \in index[worker[w].by.id].tokens
  <2>1. worker' = [worker EXCEPT ![w].pc = "removeFromIndex", ![w].tokens = {Req(w).other}]
    BY <1>4 DEF Revoke
  <2>2. Takes(w, "removeFromIndex", worker[w].by, worker[w].copy, worker[w].n, worker[w].ttl, {Req(w).other})
    BY <1>2, <2>1 DEF Takes, OthersKeep, Fields
  <2>3. QED
    BY <1>1, <1>3, <1>4, <2>2 DEF Revoke
<1>5. CASE Req(w).other \notin index[worker[w].by.id].tokens
  BY <1>1, <1>3, <1>5, GotoEffect DEF Revoke, Done
<1>6. QED
  BY <1>4, <1>5

\* What is listed and is over is pruned next.
LEMMA ListSessionsEffect ==
  ASSUME Types, JobInOrder, NEW w \in Worker, ListSessions(w)
  PROVE  /\ worker[w].pc = "list" /\ worker[w].by.id \in Id
         /\ \/ Ends(w)
            \/ Takes(w, "prune", worker[w].by, worker[w].copy, worker[w].n, worker[w].ttl, Stale(worker[w].by.id))
         /\ UNCHANGED <<boltVars, redisVars, boundVars, auxVars>>
<1>1. worker[w].pc = "list"
  BY DEF ListSessions, At
<1>2. DOMAIN worker = Worker /\ DOMAIN worker[w] = Fields /\ worker[w].by \in Session
  BY <1>1, JobIs DEF IsJob, Types, WorkerTypes
<1>3. worker[w].by.id \in Id
  BY <1>1, <1>2, Lifetimes DEF JobInOrder, JobSound, BeforeLogin, Session, Id
<1>4. CASE Stale(worker[w].by.id) = {}
  <2>1. worker' = [worker EXCEPT ![w] = IdleWorker]
    BY <1>4 DEF ListSessions
  <2>2. QED
    BY <1>1, <1>2, <1>3, <2>1 DEF Ends, OthersKeep, ListSessions
<1>5. CASE Stale(worker[w].by.id) # {}
  <2>1. worker' = [worker EXCEPT ![w].pc = "prune", ![w].tokens = Stale(worker[w].by.id)]
    BY <1>5 DEF ListSessions
  <2>2. Takes(w, "prune", worker[w].by, worker[w].copy, worker[w].n, worker[w].ttl, Stale(worker[w].by.id))
    BY <1>2, <2>1 DEF Takes, OthersKeep, Fields
  <2>3. QED
    BY <1>1, <1>3, <2>2 DEF ListSessions
<1>6. QED
  BY <1>4, <1>5

\* The record that was read decides what is checked before it is written.
LEMMA ReadUserEffect ==
  ASSUME Types, NEW w \in Worker, ReadUser(w)
  PROVE  /\ worker[w].pc = "read" /\ Req(w).name \in User
         /\ \/ Ends(w)
            \/ /\ Exists(Req(w).name) /\ AfterRead(w, users[Req(w).name]) # "idle"
               /\ Takes(w, AfterRead(w, users[Req(w).name]), worker[w].by, users[Req(w).name], worker[w].n,
                        worker[w].ttl, worker[w].tokens)
         /\ UNCHANGED <<boltVars, redisVars, boundVars, auxVars>>
<1>1. worker[w].pc = "read"
  BY DEF ReadUser, At
<1>2. DOMAIN worker = Worker /\ DOMAIN worker[w] = Fields
  BY <1>1, JobIs DEF IsJob, Types, WorkerTypes
<1>3. Req(w).name \in User
  BY <1>1, AtStep, RequestFields, OpsTable DEF UserEdits
<1> DEFINE copy == users[Req(w).name]
           next == AfterRead(w, copy)
<1>4. worker' = IF ~Exists(Req(w).name) \/ next = "idle" THEN [worker EXCEPT ![w] = IdleWorker]
                ELSE [worker EXCEPT ![w].pc = next, ![w].copy = copy]
  BY DEF ReadUser
<1>5. UNCHANGED <<boltVars, redisVars, boundVars, auxVars>>
  BY DEF ReadUser
<1> HIDE DEF next
<1>6. CASE ~Exists(Req(w).name) \/ next = "idle"
  BY <1>1, <1>2, <1>3, <1>4, <1>5, <1>6 DEF Ends, OthersKeep
<1>7. CASE Exists(Req(w).name) /\ next # "idle"
  <2>1. Takes(w, next, worker[w].by, copy, worker[w].n, worker[w].ttl, worker[w].tokens)
    BY <1>2, <1>4, <1>7 DEF Takes, OthersKeep, Fields
  <2>2. QED
    BY <1>1, <1>3, <1>5, <1>7, <2>1 DEF next
<1>8. QED
  BY <1>6, <1>7

\* A password change writes to the caller's own record.
LEMMA ChangePasswordEffect ==
  ASSUME Types, NEW w \in Worker, ChangePassword(w)
  PROVE  /\ worker[w].pc = "password" /\ worker[w].by.name \in User
         /\ \/ Ends(w)
            \/ /\ OthersKeep(w) /\ DOMAIN worker'[w] = Fields /\ Exists(worker[w].by.name)
               /\ worker'[w].pc = "save" /\ worker'[w].copy = users[worker[w].by.name]
               /\ worker'[w].req \in Request /\ worker'[w].req.op = "password"
               /\ worker'[w].req.name = worker[w].by.name
               /\ worker'[w].by = worker[w].by /\ worker'[w].n = worker[w].n
               /\ worker'[w].ttl = worker[w].ttl /\ worker'[w].tokens = worker[w].tokens
         /\ UNCHANGED <<boltVars, redisVars, boundVars, auxVars>>
<1>1. worker[w].pc = "password"
  BY DEF ChangePassword, At
<1>2. DOMAIN worker = Worker /\ DOMAIN worker[w] = Fields /\ worker[w].by \in Session
  BY <1>1, JobIs DEF IsJob, Types, WorkerTypes
<1> DEFINE name == worker[w].by.name
<1>3. name \in User
  BY <1>2 DEF Session
<1>4. worker[w].req \in Request /\ worker[w].req.op = "password"
  BY <1>1, AtStep, OpsTable DEF Req
<1>5. UNCHANGED <<boltVars, redisVars, boundVars, auxVars>>
  BY DEF ChangePassword
<1>6. CASE Exists(name) /\ ~users[name].disabled /\ Req(w).right
  <2>1. worker' = [worker EXCEPT ![w].pc = "save", ![w].copy = users[name], ![w].req.name = name]
    BY <1>6 DEF ChangePassword
  <2> DEFINE r == [worker[w].req EXCEPT !.name = name]
  <2>2. r \in Request /\ r.op = "password" /\ r.name = name
    <3>1. "name" \in DOMAIN worker[w].req
      BY <1>4 DEF Request
    <3>2. QED
      BY <1>3, <1>4, <3>1, RenamedRequest
  <2>3. worker'[w].req = r
    BY <1>2, <2>1 DEF Fields
  <2> HIDE DEF r, name
  <2>4. /\ OthersKeep(w) /\ DOMAIN worker'[w] = Fields
        /\ worker'[w].pc = "save" /\ worker'[w].copy = users[name]
        /\ worker'[w].by = worker[w].by /\ worker'[w].n = worker[w].n
        /\ worker'[w].ttl = worker[w].ttl /\ worker'[w].tokens = worker[w].tokens
    BY <1>2, <2>1 DEF OthersKeep, Fields
  <2>5. QED
    BY <1>1, <1>3, <1>5, <1>6, <2>2, <2>3, <2>4 DEF name
<1>7. CASE ~(Exists(name) /\ ~users[name].disabled /\ Req(w).right)
  <2>1. worker' = [worker EXCEPT ![w] = IdleWorker]
    BY <1>7 DEF ChangePassword
  <2>2. QED
    BY <1>1, <1>2, <1>3, <1>5, <2>1 DEF Ends, OthersKeep
<1>8. QED
  BY <1>6, <1>7

\* Where a handler begins, with the request it is for.
LEMMA HandlerIs ==
  ASSUME Types, NEW w \in Worker, worker[w].pc \in {"refresh", "refreshIndex"}
  PROVE  /\ Handler(w) \in {"idle", "removeFromIndex", "read", "list", "action", "revoke", "password",
                            "create", "policy", "flag"}
         /\ Handler(w) # "idle" => Req(w).op \in OpsAt(Handler(w))
<1>1. Req(w).op \in LoggedIn
  BY AtStep, OpsTable
<1>2. QED
  BY <1>1, OpsTable DEF Handler, LoggedIn

\* Where it goes on after a Redis command that failed.
LEMMA AfterErrorIs ==
  ASSUME Types, NEW w \in Worker, worker[w].pc \in RedisSteps
  PROVE  AfterError(w) # "idle" => Req(w).op \in OpsAt(AfterError(w))
<1>1. CASE worker[w].pc \in {"refresh", "refreshIndex"}
  BY <1>1, HandlerIs DEF AfterError, At
<1>2. CASE worker[w].pc \notin {"refresh", "refreshIndex"}
  <2>1. Req(w).op \in OpsAt(worker[w].pc)
    BY AtStep, OpsTable DEF RedisSteps
  <2>2. AfterError(w) \in {"verify", "lock", "idle", "dropAttempts", "createSession", "expireIndex"}
          \/ (AfterError(w) = "deleteKey" /\ worker[w].pc = "removeFromIndex")
    BY <1>2 DEF AfterError, At
  <2>3. AfterError(w) \in {"verify", "lock", "dropAttempts", "createSession", "expireIndex"} =>
          worker[w].pc \in LoginSteps
    BY <1>2 DEF AfterError, At, LoginSteps
  <2>4. QED
    BY <2>1, <2>2, <2>3, OpsTable DEF LoginSteps
<1>3. QED
  BY <1>1, <1>2

\* What every step of a goroutine does to it.
Steps(w) ==
  /\ worker[w].pc # "idle" /\ OthersKeep(w)
  /\ \/ worker'[w] = IdleWorker
     \/ /\ IsJob(worker'[w]) /\ worker'[w].req.op = Req(w).op
        /\ worker'[w].ttl \in {worker[w].ttl, ttl}

\* Those that only go somewhere.
LEMMA GotoSteps ==
  ASSUME Types, NEW w \in Worker, worker[w].pc # "idle", NEW pc, Goto(w, pc),
         pc # "idle" => Req(w).op \in OpsAt(pc)
  PROVE  Steps(w)
BY GotoEffect, MovesJob DEF Steps, Ends, Moves, Takes, Req

\* The steps of a login.
LEMMA LoginSteps1 ==
  ASSUME Types, JobInOrder, NEW w \in Worker, Login(w)
  PROVE  Steps(w)
<1> USE DEF At
<1>1. worker[w].pc \in LoginSteps => Req(w).op = "login"
  BY AtStep, OpsTable DEF LoginSteps
<1>2. CASE CheckLock(w)
  BY <1>1, <1>2, GotoSteps, OpsTable DEF CheckLock, Done, LoginSteps
<1>3. CASE Verify(w)
  <2>1. Req(w).op = "login"
    BY <1>1, <1>3, VerifyEffect DEF LoginSteps
  <2>2. worker[w].by \in Session /\ users[Req(w).name] \in Account /\ worker[w].n \in Nat /\ ttl \in TTL
        /\ worker[w].tokens \in SUBSET Token /\ worker[w].pc # "idle"
    BY <1>3, VerifyEffect, JobIs DEF IsJob, Types, BoltTypes
  <2>3. PICK pc \in {"clearAttempts", "countFailure"} :
          Takes(w, pc, worker[w].by, users[Req(w).name], worker[w].n, ttl, worker[w].tokens)
    BY <1>3, VerifyEffect
  <2>4. Req(w).op \in OpsAt(pc)
    BY <2>1, OpsTable DEF LoginSteps
  <2>5. IsJob(worker'[w])
    BY <2>2, <2>3, <2>4, TakesJob
  <2>6. QED
    BY <2>2, <2>3, <2>5 DEF Steps, Takes, Req
<1>4. CASE CountFailure(w)
  <2>1. Req(w).op = "login" /\ worker[w].pc # "idle"
    BY <1>1, <1>4, CountFailureEffect DEF LoginSteps
  <2>2. worker[w].by \in Session /\ worker[w].copy \in Account /\ worker[w].ttl \in TTL
        /\ worker[w].tokens \in SUBSET Token
    BY <2>1, JobIs DEF IsJob
  <2>3. attempts[Req(w).name].n + 1 \in Nat
    BY <1>4, CountFailureEffect DEF Types, RedisTypes, Counter
  <2>4. CASE Ends(w)
    BY <2>1, <2>4 DEF Ends, Steps
  <2>5. CASE ~Ends(w)
    <3>1. PICK pc \in {"startWindow", "lock"} : Takes(w, pc, worker[w].by, worker[w].copy,
                 attempts[Req(w).name].n + 1, worker[w].ttl, worker[w].tokens)
      BY <1>4, <2>5, CountFailureEffect
    <3>2. Req(w).op \in OpsAt(pc)
      BY <2>1, OpsTable DEF LoginSteps
    <3>3. IsJob(worker'[w])
      BY <2>1, <2>2, <2>3, <3>1, <3>2, TakesJob
    <3>4. QED
      BY <2>1, <3>1, <3>3 DEF Steps, Takes, Req
  <2>6. QED
    BY <2>4, <2>5
<1>5. CASE StartWindow(w) \/ Lock(w) \/ DropAttempts(w) \/ AddToIndex(w) \/ NewSessionExpiry(w)
  BY <1>1, <1>5, GotoSteps, OpsTable
    DEF StartWindow, Lock, DropAttempts, AddToIndex, NewSessionExpiry, Done, LoginSteps
<1>6. ASSUME NEW t \in Token, CreateSession(w, t) PROVE Steps(w)
  <2>1. Req(w).op = "login" /\ worker[w].pc # "idle" /\ sessions'[t] \in Session
    BY <1>1, <1>6, CreateSessionEffect DEF LoginSteps
  <2>2. worker[w].copy \in Account /\ worker[w].n \in Nat /\ worker[w].ttl \in TTL
    BY <2>1, JobIs DEF IsJob
  <2>3. Takes(w, "addToIndex", sessions'[t], worker[w].copy, worker[w].n, worker[w].ttl, {t})
    BY <1>6, CreateSessionEffect
  <2>4. Req(w).op \in OpsAt("addToIndex")
    BY <2>1, OpsTable DEF LoginSteps
  <2>5. IsJob(worker'[w])
    BY <2>1, <2>2, <2>3, <2>4, TakesJob
  <2>6. QED
    BY <2>1, <2>3, <2>5 DEF Steps, Takes, Req
<1>7. QED
  BY <1>2, <1>3, <1>4, <1>5, <1>6 DEF Login

\* The steps on sessions.
LEMMA SessionSteps1 ==
  ASSUME Types, JobInOrder, NEW w \in Worker, SessionStep(w)
  PROVE  Steps(w)
<1> USE DEF At
<1>1. CASE Authenticate(w)
  <2>1. worker[w].pc # "idle" /\ Req(w).op \in OpsAt("refresh")
    BY <1>1, AuthenticateEffect, AtStep, OpsTable
  <2>2. sessions[Req(w).token] \in Session /\ ttl \in TTL
    BY <1>1, AuthenticateEffect DEF Types, RedisTypes, BoltTypes
  <2>3. worker[w].copy \in Account /\ worker[w].n \in Nat /\ worker[w].tokens \in SUBSET Token
    BY <2>1, JobIs DEF IsJob
  <2>4. CASE Ends(w)
    BY <2>1, <2>4 DEF Ends, Steps
  <2>5. CASE ~Ends(w)
    <3>1. Takes(w, "refresh", sessions[Req(w).token], worker[w].copy, worker[w].n, ttl, worker[w].tokens)
      BY <1>1, <2>5, AuthenticateEffect
    <3>2. IsJob(worker'[w])
      BY <2>1, <2>2, <2>3, <3>1, TakesJob
    <3>3. QED
      BY <2>1, <3>1, <3>2 DEF Steps, Takes, Req
  <2>6. QED
    BY <2>4, <2>5
<1>2. CASE RefreshSession(w)
  BY <1>2, GotoSteps, AtStep, OpsTable DEF RefreshSession
<1>3. CASE RefreshIndex(w)
  BY <1>3, GotoSteps, HandlerIs DEF RefreshIndex
<1>4. CASE Revoke(w)
  <2>1. /\ worker[w].pc # "idle" /\ Req(w).op = "revoke" /\ index[worker[w].by.id].tokens \in SUBSET Token
    BY <1>4, RevokeEffect, AtStep, OpsTable DEF Types, RedisTypes, Members
  <2>2. /\ worker[w].by \in Session /\ worker[w].copy \in Account /\ worker[w].n \in Nat
        /\ worker[w].ttl \in TTL
    BY <2>1, JobIs DEF IsJob
  <2>3. CASE Ends(w)
    BY <2>1, <2>3 DEF Ends, Steps
  <2>4. CASE ~Ends(w)
    <3>1. PICK t \in Token : Takes(w, "removeFromIndex", worker[w].by, worker[w].copy, worker[w].n, worker[w].ttl, {t})
      BY <1>4, <2>1, <2>4, RevokeEffect
    <3>2. Req(w).op \in OpsAt("removeFromIndex")
      BY <2>1, OpsTable
    <3>3. IsJob(worker'[w])
      BY <2>1, <2>2, <3>1, <3>2, TakesJob
    <3>4. QED
      BY <2>1, <3>1, <3>3 DEF Steps, Takes, Req
  <2>5. QED
    BY <2>3, <2>4
<1>5. CASE ListSessions(w)
  <2>1. /\ worker[w].pc # "idle" /\ Req(w).op = "list" /\ Stale(worker[w].by.id) \in SUBSET Token
    BY <1>5, ListSessionsEffect, AtStep, OpsTable DEF Types, RedisTypes, Members, Stale
  <2>2. /\ worker[w].by \in Session /\ worker[w].copy \in Account /\ worker[w].n \in Nat
        /\ worker[w].ttl \in TTL
    BY <2>1, JobIs DEF IsJob
  <2>3. CASE Ends(w)
    BY <2>1, <2>3 DEF Ends, Steps
  <2>4. CASE ~Ends(w)
    <3>1. Takes(w, "prune", worker[w].by, worker[w].copy, worker[w].n, worker[w].ttl, Stale(worker[w].by.id))
      BY <1>5, <2>4, ListSessionsEffect
    <3>2. Req(w).op \in OpsAt("prune")
      BY <2>1, OpsTable
    <3>3. IsJob(worker'[w])
      BY <2>1, <2>2, <3>1, <3>2, TakesJob
    <3>4. QED
      BY <2>1, <3>1, <3>3 DEF Steps, Takes, Req
  <2>5. QED
    BY <2>3, <2>4
<1>6. CASE RemoveFromIndex(w)
  BY <1>6, GotoSteps, AtStep, OpsTable DEF RemoveFromIndex
<1>7. CASE LimitAction(w)
  BY <1>7, GotoSteps, AtStep, OpsTable DEF LimitAction
<1>8. CASE DeleteKey(w) \/ PruneIndex(w) \/ StartLimit(w)
  BY <1>8, GotoSteps DEF DeleteKey, PruneIndex, StartLimit, Done
<1>9. QED
  BY <1>1, <1>2, <1>3, <1>4, <1>5, <1>6, <1>7, <1>8 DEF SessionStep

\* What a handler does with the record that was read, by the kind of request.
LEMMA AfterReadIs ==
  ASSUME NEW w \in Worker, NEW copy, Req(w).op \in {"update", "profile", "delete"}
  PROVE  /\ RoleStep(w, copy) \in {"idle", "countForRole", "save"}
         /\ AfterRead(w, copy) # "idle" => Req(w).op \in OpsAt(AfterRead(w, copy))
         /\ Req(w).op = "update" /\ RoleStep(w, copy) # "idle" => "update" \in OpsAt(RoleStep(w, copy))
BY OpsTable DEF RoleStep, AfterRead

\* The steps on users.
LEMMA UserSteps1 ==
  ASSUME Types, JobInOrder, NEW w \in Worker, UserStep(w)
  PROVE  Steps(w)
<1> USE DEF At
<1>1. CASE HasAnyUser(w) \/ CheckName(w)
  BY <1>1, GotoSteps, AtStep, OpsTable DEF HasAnyUser, CheckName
<1>2. CASE CreateUser(w) \/ SaveUser(w) \/ DeleteUser(w) \/ SetSecurityPolicies(w) \/ SetSetupCompleted(w)
  BY <1>2, GotoSteps DEF CreateUser, SaveUser, DeleteUser, SetSecurityPolicies, SetSetupCompleted, Done
<1>3. CASE ReadUser(w)
  <2>1. worker[w].pc # "idle" /\ Req(w).op \in {"update", "profile", "delete"} /\ users[Req(w).name] \in Account
    BY <1>3, ReadUserEffect, AtStep, OpsTable DEF Types, BoltTypes
  <2>2. worker[w].by \in Session /\ worker[w].n \in Nat /\ worker[w].ttl \in TTL /\ worker[w].tokens \in SUBSET Token
    BY <2>1, JobIs DEF IsJob
  <2>3. CASE Ends(w)
    BY <2>1, <2>3 DEF Ends, Steps
  <2>4. CASE ~Ends(w)
    <3>1. /\ AfterRead(w, users[Req(w).name]) # "idle"
          /\ Takes(w, AfterRead(w, users[Req(w).name]), worker[w].by, users[Req(w).name], worker[w].n,
                   worker[w].ttl, worker[w].tokens)
      BY <1>3, <2>4, ReadUserEffect
    <3>2. Req(w).op \in OpsAt(AfterRead(w, users[Req(w).name]))
      BY <2>1, <3>1, AfterReadIs
    <3>3. IsJob(worker'[w])
      BY <2>1, <2>2, <3>1, <3>2, TakesJob
    <3>4. QED
      BY <2>1, <3>1, <3>3 DEF Steps, Takes, Req
  <2>5. QED
    BY <2>3, <2>4
<1>4. CASE CountAdmins(w)
  <2>1. PICK pc : /\ Goto(w, pc)
                  /\ pc \in {"idle", "save", "erase", RoleStep(w, worker[w].copy)}
                  /\ pc = "save" => worker[w].pc # "countForDelete"
                  /\ pc = "erase" => worker[w].pc = "countForDelete"
                  /\ worker[w].pc = "countForDelete" => pc \in {"idle", "erase"}
                  /\ worker[w].pc \in {"countForDisable", "countForRole", "countForDelete"}
    <3>1. Goto(w, "idle") \/ Goto(w, CASE worker[w].pc = "countForDisable" -> RoleStep(w, worker[w].copy)
                                       [] worker[w].pc = "countForRole" -> "save"
                                       [] OTHER -> "erase")
      BY <1>4 DEF CountAdmins
    <3>2. worker[w].pc \in {"countForDisable", "countForRole", "countForDelete"}
      BY <1>4 DEF CountAdmins
    <3>3. RoleStep(w, worker[w].copy) \in {"idle", "countForRole", "save"}
      BY DEF RoleStep
    <3>4. QED
      BY <3>1, <3>2, <3>3
  <2>2. Req(w).op \in OpsAt(worker[w].pc)
    BY <2>1, AtStep
  <2>3. RoleStep(w, worker[w].copy) \in {"idle", "countForRole", "save"}
    BY DEF RoleStep
  <2>4. pc # "idle" => Req(w).op \in OpsAt(pc)
    BY <2>1, <2>2, <2>3, OpsTable
  <2>5. QED
    BY <2>1, <2>4, GotoSteps
<1>5. CASE ChangePassword(w)
  <2>1. worker[w].pc # "idle" /\ Req(w).op = "password"
    BY <1>5, ChangePasswordEffect, AtStep, OpsTable
  <2>2. IsJob(worker[w])
    BY <2>1, JobIs
  <2>3. CASE Ends(w)
    BY <2>1, <2>3 DEF Ends, Steps
  <2>4. CASE ~Ends(w)
    <3>1. users[worker[w].by.name] \in Account
      BY <1>5, ChangePasswordEffect DEF Types, BoltTypes
    <3>2. /\ OthersKeep(w) /\ DOMAIN worker'[w] = Fields
          /\ worker'[w].pc = "save" /\ worker'[w].copy = users[worker[w].by.name]
          /\ worker'[w].req \in Request /\ worker'[w].req.op = "password"
          /\ worker'[w].by = worker[w].by /\ worker'[w].n = worker[w].n
          /\ worker'[w].ttl = worker[w].ttl /\ worker'[w].tokens = worker[w].tokens
      BY <1>5, <2>4, ChangePasswordEffect
    <3>3. IsJob(worker'[w])
      BY <2>2, <3>1, <3>2, OpsTable DEF IsJob
    <3>4. QED
      BY <2>1, <3>2, <3>3 DEF Steps
  <2>5. QED
    BY <2>3, <2>4
<1>6. QED
  BY <1>1, <1>2, <1>3, <1>4, <1>5 DEF UserStep

\* Every step of a goroutine ends its request or goes on with it.
LEMMA WorkerSteps ==
  ASSUME Types, JobInOrder, NEW w \in Worker, Login(w) \/ SessionStep(w) \/ UserStep(w) \/ RedisFails(w)
  PROVE  Steps(w)
<1>1. CASE RedisFails(w)
  <2>1. worker[w].pc \in RedisSteps /\ Goto(w, AfterError(w))
    BY <1>1 DEF RedisFails
  <2>2. worker[w].pc # "idle"
    BY <2>1 DEF RedisSteps
  <2>3. QED
    BY <2>1, <2>2, AfterErrorIs, GotoSteps
<1>2. QED
  BY <1>1, LoginSteps1, SessionSteps1, UserSteps1

\* A request that comes in begins with nothing in hand.
LEMMA AcceptEffect ==
  ASSUME Types, NEW w \in Worker, NEW req \in Requests, Accept(w, req)
  PROVE  /\ OthersKeep(w) /\ worker[w] = IdleWorker /\ IsJob(worker'[w])
         /\ worker'[w].req = req /\ worker'[w].pc = FirstStep(req) /\ worker'[w].ttl = ttl
         /\ req.op \notin {"login", "setup"} => sessions[req.token].state # "free"
         /\ overlapped' = (overlapped \/ (req.op \in UserEdits /\ \E v \in Worker : Editing(v)))
         /\ accepted' \in 0..MaxRequests
         /\ UNCHANGED <<boltVars, redisVars, faults, repoliced>>
<1>1. req \in Request
  BY AccountsAssumption
<1>2. worker[w] = IdleWorker
  BY JobIs, OpsTable DEF Accept, At, IsJob, Types, WorkerTypes
<1>3. NoUser \in Account /\ FreeToken \in Session
  BY Lifetimes, AccountsAssumption DEF NoUser, FreeToken, Account, Session, Role
<1> DEFINE tokens == IF req.op = "logout" THEN {req.token} ELSE {}
           pc == FirstStep(req)
<1>4. tokens \in SUBSET Token
  BY <1>1, RequestFields DEF LoggedIn
<1>5. req.op \in OpsAt(pc)
  BY <1>1, RequestFields, OpsTable DEF FirstStep, LoginSteps
<1>6. worker' = [worker EXCEPT ![w] = [pc |-> pc, req |-> req, by |-> FreeToken, copy |-> NoUser,
                    n |-> 0, ttl |-> ttl, tokens |-> tokens]]
  BY DEF Accept, GetSecurityPolicies
<1>7. accepted' \in 0..MaxRequests
  BY Lifetimes DEF Accept, Types, BoundTypes
<1> HIDE DEF tokens, pc
<1>8. OthersKeep(w) /\ worker'[w] = [pc |-> pc, req |-> req, by |-> FreeToken, copy |-> NoUser,
                                     n |-> 0, ttl |-> ttl, tokens |-> tokens]
  BY <1>6 DEF OthersKeep, Types, WorkerTypes
<1>9. ttl \in TTL
  BY DEF Types, BoltTypes
<1>10. IsJob(worker'[w])
  BY <1>1, <1>3, <1>4, <1>5, <1>8, <1>9 DEF IsJob, Fields
<1>11. QED
  BY <1>2, <1>7, <1>8, <1>10 DEF Accept, pc

-----------------------------------------------------------------------------
(* What a step does to the index and the records. *)

\* A goroutine that has logged in works for a user.
LEMMA ByIsId ==
  ASSUME Types, JobInOrder, NEW w \in Worker, worker[w].pc \notin BeforeLogin
  PROVE  worker[w].by.id \in Id /\ worker[w].ttl \in TTL /\ worker[w].tokens \subseteq Token
<1>1. IsJob(worker[w])
  BY JobIs DEF BeforeLogin
<1>2. QED
  BY <1>1, Lifetimes DEF IsJob, Session, JobInOrder, JobSound, Id

\* A renewed index keeps its members.
LEMMA ExpireIndexEffect ==
  ASSUME Types, NEW id \in Id, NEW time \in TTL
  PROVE  /\ ExpireIndex(id, time) \in [Id -> Members]
         /\ \A i \in Id : ExpireIndex(id, time)[i].tokens = index[i].tokens
         /\ \A i \in Id \ {id} : ExpireIndex(id, time)[i].left = index[i].left
         /\ ExpireIndex(id, time)[id].left = IF index[id].left = 0 THEN 0 ELSE time
<1>1. index \in [Id -> Members] /\ time \in 0..Forever
  BY Lifetimes DEF Types, RedisTypes
<1>2. CASE index[id].left = 0
  BY <1>1, <1>2 DEF ExpireIndex
<1>3. CASE index[id].left # 0
  BY <1>1, <1>3 DEF ExpireIndex, Members
<1>4. QED
  BY <1>2, <1>3

\* An index without some of its members, and none without any.
LEMMA WithoutEffect ==
  ASSUME Types, NEW id \in Id, NEW tokens
  PROVE  /\ Without(id, tokens) \in [Id -> Members]
         /\ \A i \in Id \ {id} : Without(id, tokens)[i] = index[i]
         /\ Without(id, tokens)[id].tokens = index[id].tokens \ tokens
         /\ Without(id, tokens)[id].left = IF index[id].tokens \subseteq tokens THEN 0 ELSE index[id].left
<1>1. index \in [Id -> Members] /\ NoIndex \in Members
  BY Lifetimes DEF Types, RedisTypes, NoIndex, Members
<1>2. CASE index[id].tokens \subseteq tokens
  BY <1>1, <1>2 DEF Without, NoIndex
<1>3. CASE ~(index[id].tokens \subseteq tokens)
  BY <1>1, <1>3 DEF Without, Members
<1>4. QED
  BY <1>2, <1>3

\* A new member, of an index that is there or of one that lasts until its lifetime is set.
LEMMA AddToIndexEffect ==
  ASSUME Types, JobInOrder, NEW w \in Worker, AddToIndex(w)
  PROVE  /\ worker[w].pc = "addToIndex" /\ worker[w].by.id \in Id
         /\ index' \in [Id -> Members]
         /\ \A i \in Id \ {worker[w].by.id} : index'[i] = index[i]
         /\ index'[worker[w].by.id].tokens = index[worker[w].by.id].tokens \cup worker[w].tokens
         /\ index'[worker[w].by.id].left = IF index[worker[w].by.id].left = 0 THEN Forever
                                           ELSE index[worker[w].by.id].left
         /\ Moves(w, "expireIndex")
         /\ UNCHANGED <<boltVars, sessions, attempts, locked, limited, boundVars, auxVars>>
<1>1. worker[w].pc = "addToIndex"
  BY DEF AddToIndex, At
<1>2. worker[w].by.id \in Id /\ worker[w].tokens \subseteq Token
  BY <1>1, ByIsId DEF BeforeLogin
<1> DEFINE id == worker[w].by.id
           new == [tokens |-> index[id].tokens \cup worker[w].tokens,
                   left |-> IF index[id].left = 0 THEN Forever ELSE index[id].left]
<1>3. index' = [index EXCEPT ![id] = new]
  BY DEF AddToIndex
<1>4. index \in [Id -> Members] /\ index[id] \in Members
  BY <1>2 DEF Types, RedisTypes
<1>5. new \in Members
  BY <1>2, <1>4, Lifetimes DEF Members
<1>6. Moves(w, "expireIndex")
  BY <1>1, GotoEffect DEF AddToIndex
<1>7. new.tokens = index[id].tokens \cup worker[w].tokens
      /\ new.left = IF index[id].left = 0 THEN Forever ELSE index[id].left
  OBVIOUS
<1> HIDE DEF new
<1>8. QED
  BY <1>1, <1>2, <1>3, <1>4, <1>5, <1>6, <1>7 DEF AddToIndex

\* An hour later a session is over, or has an hour less.
Ages(t) ==
  /\ Live(t)
  /\ IF sessions[t].left = 1 THEN sessions'[t].state = "over" /\ sessions'[t].left = 0
     ELSE /\ sessions'[t].state = "live" /\ sessions'[t].id = sessions[t].id
          /\ sessions'[t].left = sessions[t].left - 1

AgesIndex(i) ==
  IF Aged(index[i].left) = 0 THEN index'[i] = NoIndex
  ELSE index'[i].tokens = index[i].tokens /\ index'[i].left = Aged(index[i].left)

\* An hour passes between requests.
LEMMA HourEffect ==
  ASSUME Types, SessionsInOrder, Hour
  PROVE  /\ \A w \in Worker : worker[w].pc = "idle"
         /\ sessions' \in [Token -> Session] /\ index' \in [Id -> Members]
         /\ \A t \in Token : Ages(t) \/ (~Live(t) /\ sessions'[t] = sessions[t])
         /\ \A i \in Id : AgesIndex(i)
         /\ UNCHANGED <<boltVars, attempts, locked, limited, worker, boundVars, auxVars>>
<1>1. sessions \in [Token -> Session] /\ index \in [Id -> Members] /\ FreeToken \in Session /\ NoIndex \in Members
  BY Lifetimes, AccountsAssumption DEF Types, RedisTypes, NoIndex, Members, FreeToken, Session, Role
<1>2. ASSUME NEW t \in Token
      PROVE  sessions'[t] \in Session /\ (Ages(t) \/ (~Live(t) /\ sessions'[t] = sessions[t]))
  <2>1. sessions[t] \in Session /\ (Live(t) <=> sessions[t].left > 0)
    BY <1>1 DEF SessionsInOrder
  <2>2. sessions'[t] = IF ~Live(t) THEN sessions[t]
                       ELSE IF sessions[t].left = 1 THEN [FreeToken EXCEPT !.state = "over"]
                       ELSE [sessions[t] EXCEPT !.left = @ - 1]
    BY DEF Hour
  <2>3. CASE ~Live(t)
    BY <2>1, <2>2, <2>3
  <2>4. CASE Live(t) /\ sessions[t].left = 1
    BY <1>1, <2>2, <2>4 DEF Ages, FreeToken, Session
  <2>5. CASE Live(t) /\ sessions[t].left # 1
    <3>1. sessions'[t] = [sessions[t] EXCEPT !.left = @ - 1] /\ sessions[t].left - 1 \in 0..Forever - 1
      BY <2>1, <2>2, <2>5, Lifetimes DEF Session
    <3>2. QED
      BY <2>1, <2>5, <3>1 DEF Ages, Session, Live
  <2>6. QED
    BY <2>3, <2>4, <2>5
<1>3. ASSUME NEW i \in Id PROVE index'[i] \in Members /\ AgesIndex(i)
  <2>1. index'[i] = IF Aged(index[i].left) = 0 THEN NoIndex ELSE [index[i] EXCEPT !.left = Aged(@)]
    BY DEF Hour
  <2>2. index[i] \in Members
    BY <1>1
  <2>3. Aged(index[i].left) \in 0..Forever
    BY <2>2, Lifetimes DEF Aged, Members
  <2>4. CASE Aged(index[i].left) = 0
    BY <1>1, <2>1, <2>4 DEF AgesIndex
  <2>5. CASE Aged(index[i].left) # 0
    <3> DEFINE left == Aged(index[i].left)
    <3>1. index'[i] = [index[i] EXCEPT !.left = left] /\ left \in 0..Forever
      BY <2>1, <2>3, <2>5
    <3> HIDE DEF left
    <3>2. index'[i] \in Members /\ index'[i].tokens = index[i].tokens /\ index'[i].left = left
      BY <2>2, <3>1 DEF Members
    <3>3. QED
      BY <2>5, <3>2 DEF AgesIndex, left
  <2>6. QED
    BY <2>4, <2>5
<1>4. sessions' \in [Token -> Session]
  <2>1. sessions' = [t \in Token |-> sessions'[t]]
    BY DEF Hour
  <2>2. QED
    BY <1>2, <2>1
<1>5. index' \in [Id -> Members]
  <2>1. index' = [i \in Id |-> index'[i]]
    BY DEF Hour
  <2>2. QED
    BY <1>3, <2>1
<1>6. QED
  BY <1>2, <1>3, <1>4, <1>5 DEF Hour, At

\* A new record, under the name of the request.
LEMMA CreateUserEffect ==
  ASSUME Types, NEW w \in Worker, CreateUser(w)
  PROVE  /\ worker[w].pc = "insert" /\ Req(w).name \in User /\ Req(w).op \in {"setup", "create"}
         /\ users' \in [User -> Account] /\ ids' \in 0..MaxIds
         /\ \A u \in User \ {Req(w).name} : users'[u] = users[u]
         /\ users'[Req(w).name].id # 0 /\ ~users'[Req(w).name].disabled
         /\ users'[Req(w).name].role = IF Req(w).op = "setup" THEN "admin" ELSE "user"
         /\ Ends(w)
         /\ UNCHANGED <<ttl, setupDone, redisVars, boundVars, auxVars>>
<1>1. worker[w].pc = "insert"
  BY DEF CreateUser, At
<1>2. Req(w).op \in {"setup", "create"} /\ Req(w).name \in User
  BY <1>1, AtStep, OpsTable, RequestFields DEF UserEdits
<1>3. ids' \in 0..MaxIds /\ ids' # 0 /\ ids' = ids + 1
  BY Lifetimes DEF CreateUser, Types, BoltTypes
<1> DEFINE role == IF Req(w).op = "setup" THEN "admin" ELSE "user"
           new == [NoUser EXCEPT !.id = ids + 1, !.role = role]
<1>4. role \in Role
  BY DEF Role
<1> HIDE DEF role
<1>5. new \in Account /\ new.id = ids' /\ new.role = role /\ new.disabled = FALSE
  BY <1>3, <1>4 DEF NoUser, Account
<1>6. users' = [users EXCEPT ![Req(w).name] = new]
  BY DEF CreateUser, role
<1> HIDE DEF new
<1>7. /\ users' \in [User -> Account] /\ users'[Req(w).name] = new
      /\ \A u \in User \ {Req(w).name} : users'[u] = users[u]
  BY <1>2, <1>5, <1>6 DEF Types, BoltTypes
<1>8. Ends(w)
  BY <1>1, GotoEffect DEF CreateUser, Done
<1>9. QED
  BY <1>1, <1>2, <1>3, <1>5, <1>7, <1>8 DEF CreateUser, role

\* What a save makes of the copy.
LEMMA ChangedIs ==
  ASSUME Types, NEW w \in Worker, worker[w].pc # "idle"
  PROVE  /\ Changed(w) \in Account
         /\ Changed(w).id = worker[w].copy.id /\ Changed(w).password >= worker[w].copy.password
         /\ ~Wants(w, "promote") => Changed(w).role = worker[w].copy.role \/ Wants(w, "demote")
         /\ ~Wants(w, "demote") /\ worker[w].copy.role = "admin" => Changed(w).role = "admin"
         /\ ~Wants(w, "disable") /\ ~worker[w].copy.disabled => ~Changed(w).disabled
         /\ ~Wants(w, "disable") /\ ~Wants(w, "enable") => Changed(w).disabled = worker[w].copy.disabled
<1> DEFINE c == worker[w].copy
           role == IF Wants(w, "promote") THEN "admin" ELSE IF Wants(w, "demote") THEN "user" ELSE c.role
           disabled == IF Wants(w, "disable") THEN TRUE ELSE IF Wants(w, "enable") THEN FALSE ELSE c.disabled
           password == IF Wants(w, "reset") \/ Req(w).op = "password" THEN c.password + 1 ELSE c.password
<1>1. c \in Account
  BY JobIs DEF IsJob
<1>2. role \in Role /\ disabled \in BOOLEAN /\ password \in Nat /\ password >= c.password
  <2>1. c.role \in Role /\ c.disabled \in BOOLEAN /\ c.password \in Nat
    BY <1>1 DEF Account
  <2> HIDE DEF c
  <2>2. role \in Role
    BY <2>1 DEF Role
  <2>3. disabled \in BOOLEAN
    BY <2>1
  <2>4. password \in Nat /\ password >= c.password
    BY <2>1
  <2>5. QED
    BY <2>2, <2>3, <2>4
<1>3. /\ ~Wants(w, "promote") => role = c.role \/ Wants(w, "demote")
      /\ ~Wants(w, "demote") /\ c.role = "admin" => role = "admin"
      /\ ~Wants(w, "disable") /\ ~c.disabled => ~disabled
      /\ ~Wants(w, "disable") /\ ~Wants(w, "enable") => disabled = c.disabled
  OBVIOUS
<1>4. Changed(w) = [c EXCEPT !.role = role, !.disabled = disabled, !.password = password]
  BY <1>1 DEF Changed, Account
<1> HIDE DEF c, role, disabled, password
<1>5. /\ Changed(w) \in Account /\ Changed(w).id = c.id /\ Changed(w).role = role
      /\ Changed(w).disabled = disabled /\ Changed(w).password = password
  BY <1>1, <1>2, <1>4 DEF Account
<1>6. QED
  BY <1>2, <1>3, <1>5 DEF c

\* A save and a deletion, under the name of the request.
LEMMA SaveUserEffect ==
  ASSUME Types, NEW w \in Worker, SaveUser(w) \/ DeleteUser(w)
  PROVE  /\ worker[w].pc \in {"save", "erase"} /\ Req(w).name \in User
         /\ users' \in [User -> Account]
         /\ \A u \in User \ {Req(w).name} : users'[u] = users[u]
         /\ users'[Req(w).name] = IF worker[w].pc = "save" THEN Changed(w) ELSE NoUser
         /\ Ends(w)
         /\ UNCHANGED <<ids, ttl, setupDone, redisVars, boundVars, auxVars>>
<1>1. worker[w].pc \in {"save", "erase"}
  BY DEF SaveUser, DeleteUser, At
<1>2. Req(w).name \in User
  BY <1>1, AtStep, OpsTable, RequestFields DEF UserEdits
<1> DEFINE new == IF worker[w].pc = "save" THEN Changed(w) ELSE NoUser
<1>3. new \in Account
  BY <1>1, ChangedIs, Lifetimes DEF NoUser, Account, Role
<1>4. users' = [users EXCEPT ![Req(w).name] = new]
  BY <1>1 DEF SaveUser, DeleteUser, At
<1> HIDE DEF new
<1>5. /\ users' \in [User -> Account] /\ users'[Req(w).name] = new
      /\ \A u \in User \ {Req(w).name} : users'[u] = users[u]
  BY <1>2, <1>3, <1>4 DEF Types, BoltTypes
<1>6. Ends(w)
  BY <1>1, GotoEffect DEF SaveUser, DeleteUser, Done
<1>7. QED
  BY <1>1, <1>2, <1>5, <1>6 DEF SaveUser, DeleteUser, new

\* The administrator of a boot, and a password set while the daemon is down.
LEMMA OfflineEffect ==
  ASSUME Types, BootstrapAdmin \/ ResetPassword
  PROVE  /\ \A w \in Worker : worker[w].pc = "idle"
         /\ users' \in [User -> Account] /\ ids' \in 0..MaxIds /\ accepted' \in 0..MaxRequests
         /\ \/ \E u \in User : users'[u].id # 0 /\ users'[u].role = "admin" /\ ~users'[u].disabled
            \/ \A u \in User : users'[u].id = users[u].id /\ users'[u].role = users[u].role
                                /\ users'[u].disabled = users[u].disabled
         /\ UNCHANGED <<ttl, setupDone, redisVars, worker, faults, auxVars>>
<1>1. CASE BootstrapAdmin
  <2>1. ids' \in 0..MaxIds /\ ids' # 0
    BY <1>1, Lifetimes DEF BootstrapAdmin, Types, BoltTypes
  <2>2. PICK u \in User : users' = [users EXCEPT ![u] = [NoUser EXCEPT !.id = ids', !.role = "admin"]]
    BY <1>1 DEF BootstrapAdmin
  <2> DEFINE new == [NoUser EXCEPT !.id = ids', !.role = "admin"]
  <2>3. new \in Account /\ new.id # 0 /\ new.role = "admin" /\ new.disabled = FALSE
    BY <2>1 DEF NoUser, Account, Role
  <2>4. users' = [users EXCEPT ![u] = new]
    BY <2>2
  <2> HIDE DEF new
  <2>5. users' \in [User -> Account] /\ users'[u] = new
    BY <2>3, <2>4 DEF Types, BoltTypes
  <2>6. accepted' \in 0..MaxRequests
    BY <1>1 DEF BootstrapAdmin, boundVars, Types, BoundTypes
  <2>7. QED
    BY <1>1, <2>1, <2>3, <2>5, <2>6 DEF BootstrapAdmin, At, boundVars
<1>2. CASE ResetPassword
  <2>1. accepted' \in 0..MaxRequests
    BY <1>2, Lifetimes DEF ResetPassword, Types, BoundTypes
  <2>2. users \in [User -> Account] /\ Operator \in User
    BY AccountsAssumption DEF Types, BoltTypes
  <2>3. users' = [users EXCEPT ![Operator].password = @ + 1]
    BY <1>2 DEF ResetPassword
  <2>4. users' \in [User -> Account]
    BY <2>2, <2>3 DEF Account
  <2>5. \A u \in User : users'[u].id = users[u].id /\ users'[u].role = users[u].role
                         /\ users'[u].disabled = users[u].disabled
    BY <2>2, <2>3 DEF Account
  <2>6. ids' \in 0..MaxIds
    BY <1>2 DEF ResetPassword, Types, BoltTypes
  <2>7. QED
    BY <1>2, <2>1, <2>4, <2>5, <2>6 DEF ResetPassword, At
<1>3. QED
  BY <1>1, <1>2
-----------------------------------------------------------------------------
(* What a step does to the sessions. *)

\* A renewed session is the same session.
LEMMA RefreshSessionEffect ==
  ASSUME Types, JobInOrder, NEW w \in Worker, RefreshSession(w)
  PROVE  /\ worker[w].pc = "refresh" /\ Req(w).token \in Token /\ worker[w].ttl \in TTL
         /\ worker[w].by.id \in Id
         /\ sessions' \in [Token -> Session]
         /\ \A t \in Token : /\ sessions'[t].state = sessions[t].state /\ sessions'[t].id = sessions[t].id
                             /\ sessions'[t].left = sessions[t].left
                                  \/ (Live(t) /\ t = Req(w).token /\ sessions'[t].left = worker[w].ttl)
         /\ Moves(w, "refreshIndex")
         /\ UNCHANGED <<boltVars, index, attempts, locked, limited, boundVars, auxVars>>
<1>1. worker[w].pc = "refresh"
  BY DEF RefreshSession, At
<1>2. Req(w).token \in Token
  BY <1>1, AtStep, OpsTable, RequestFields
<1>3. worker[w].by.id \in Id /\ worker[w].ttl \in TTL
  BY <1>1, ByIsId DEF BeforeLogin
<1>4. Moves(w, "refreshIndex")
  BY <1>1, GotoEffect DEF RefreshSession
<1>5. worker[w].ttl \in 0..Forever - 1 /\ sessions \in [Token -> Session]
  BY <1>3, Lifetimes DEF Types, RedisTypes
<1> DEFINE token == Req(w).token
           time == worker[w].ttl
<1>6. sessions' = IF Live(token) THEN [sessions EXCEPT ![token].left = time] ELSE sessions
  BY DEF RefreshSession
<1>7. token \in Token /\ time \in 0..Forever - 1
  BY <1>2, <1>5
<1> HIDE DEF token, time
<1>8. sessions' \in [Token -> Session]
  BY <1>5, <1>6, <1>7 DEF Session
<1>9. \A t \in Token : /\ sessions'[t].state = sessions[t].state /\ sessions'[t].id = sessions[t].id
                       /\ sessions'[t].left = sessions[t].left \/ (Live(t) /\ t = token /\ sessions'[t].left = time)
  BY <1>5, <1>6, <1>7 DEF Session
<1>10. QED
  BY <1>1, <1>2, <1>3, <1>4, <1>8, <1>9 DEF RefreshSession, token, time

\* A session whose key is deleted is over.
LEMMA DeleteKeyEffect ==
  ASSUME Types, NEW w \in Worker, DeleteKey(w)
  PROVE  /\ worker[w].pc = "deleteKey"
         /\ sessions' \in [Token -> Session]
         /\ \A t \in Token : IF t \in worker[w].tokens THEN sessions'[t].state = "over" /\ sessions'[t].left = 0
                             ELSE sessions'[t] = sessions[t]
         /\ Ends(w)
         /\ UNCHANGED <<boltVars, index, attempts, locked, limited, boundVars, auxVars>>
<1>1. worker[w].pc = "deleteKey"
  BY DEF DeleteKey, At
<1> DEFINE over == [FreeToken EXCEPT !.state = "over"]
           tokens == worker[w].tokens
<1>2. over \in Session /\ over.state = "over" /\ over.left = 0
  BY Lifetimes, AccountsAssumption DEF FreeToken, Session, Role
<1>3. sessions \in [Token -> Session]
  BY DEF Types, RedisTypes
<1>4. sessions' = [t \in Token |-> IF t \in tokens THEN over ELSE sessions[t]]
  BY DEF DeleteKey
<1> HIDE DEF over, tokens
<1>5. sessions' \in [Token -> Session]
  BY <1>2, <1>3, <1>4
<1>6. \A t \in Token : sessions'[t] = IF t \in tokens THEN over ELSE sessions[t]
  BY <1>4
<1>7. Ends(w)
  BY <1>1, GotoEffect DEF DeleteKey, Done
<1>8. QED
  BY <1>1, <1>2, <1>5, <1>6, <1>7 DEF DeleteKey, tokens

\* A token that is created was free, so an issued one stays what it is, or is over.
SessionsMove ==
  \A t \in Token : sessions[t].state # "free" =>
     sessions'[t].state # "free" /\ (sessions'[t].state = "live" => Live(t) /\ sessions'[t].id = sessions[t].id)

SessionsSound ==
  \A t \in Token : (Live(t) <=> sessions[t].left > 0) /\ (Live(t) => sessions[t].id # 0)

\* The steps that touch the sessions.
LEMMA SessionSteps2 ==
  ASSUME Next
  PROVE  \/ UNCHANGED sessions
         \/ \E w \in Worker : RefreshSession(w) \/ DeleteKey(w) \/ \E t \in Token : CreateSession(w, t)
         \/ Hour
<1> USE DEF redisVars
<1>1. ASSUME NEW w \in Worker, NEW req \in Requests, Accept(w, req) PROVE UNCHANGED sessions
  BY <1>1 DEF Accept
<1>2. ASSUME NEW w \in Worker, Login(w) PROVE UNCHANGED sessions \/ \E t \in Token : CreateSession(w, t)
  BY <1>2 DEF Login, CheckLock, Verify, CountFailure, StartWindow, Lock, DropAttempts, AddToIndex,
              NewSessionExpiry
<1>3. ASSUME NEW w \in Worker, SessionStep(w) PROVE UNCHANGED sessions \/ RefreshSession(w) \/ DeleteKey(w)
  BY <1>3 DEF SessionStep, Authenticate, RefreshIndex, Revoke, RemoveFromIndex, ListSessions, PruneIndex,
              LimitAction, StartLimit
<1>4. ASSUME NEW w \in Worker, UserStep(w) PROVE UNCHANGED redisVars
  BY <1>4 DEF UserStep, HasAnyUser, CheckName, CreateUser, ReadUser, CountAdmins, SaveUser, DeleteUser,
              ChangePassword, SetSecurityPolicies, SetSetupCompleted
<1>5. ASSUME NEW w \in Worker, RedisFails(w) PROVE UNCHANGED sessions
  BY <1>5 DEF RedisFails
<1>6. CASE BootstrapAdmin \/ ResetPassword \/ Crash
  BY <1>6 DEF BootstrapAdmin, ResetPassword, Crash
<1>7. CASE Time
  BY <1>7 DEF Time, LimitEnds, LockEnds, WindowEnds
<1>8. QED
  BY <1>1, <1>2, <1>3, <1>4, <1>5, <1>6, <1>7 DEF Next

\* The sessions after a step.
LEMMA SessionsChange ==
  ASSUME Types, JobInOrder, SessionsInOrder, Next
  PROVE  sessions' \in [Token -> Session] /\ SessionsMove /\ SessionsSound'
<1>1. sessions \in [Token -> Session] /\ SessionsSound
  BY DEF Types, RedisTypes, SessionsInOrder, SessionsSound
<1>2. CASE UNCHANGED sessions
  BY <1>1, <1>2 DEF SessionsMove, SessionsSound, Live
<1>3. ASSUME NEW w \in Worker, RefreshSession(w)
      PROVE  sessions' \in [Token -> Session] /\ SessionsMove /\ SessionsSound'
  <2>1. worker[w].ttl \in 1..Forever - 1
    BY <1>3, RefreshSessionEffect, Lifetimes
  <2>2. QED
    BY <1>1, <1>3, <2>1, RefreshSessionEffect DEF SessionsMove, SessionsSound, Live
<1>4. ASSUME NEW w \in Worker, DeleteKey(w)
      PROVE  sessions' \in [Token -> Session] /\ SessionsMove /\ SessionsSound'
  BY <1>1, <1>4, DeleteKeyEffect DEF SessionsMove, SessionsSound, Live
<1>5. ASSUME NEW w \in Worker, NEW t \in Token, CreateSession(w, t)
      PROVE  sessions' \in [Token -> Session] /\ SessionsMove /\ SessionsSound'
  <2>1. worker[w].pc # "idle"
    BY <1>5, CreateSessionEffect
  <2>2. worker[w].ttl \in 1..Forever - 1 /\ worker[w].copy.id # 0
    BY <1>5, <2>1, CreateSessionEffect, JobIs, Lifetimes DEF IsJob
  <2>3. /\ sessions[t].state = "free" /\ sessions' \in [Token -> Session]
        /\ \A k \in Token \ {t} : sessions'[k] = sessions[k]
        /\ sessions'[t].state = "live" /\ sessions'[t].id # 0 /\ sessions'[t].left > 0
    <3>1. /\ sessions[t].state = "free" /\ sessions' \in [Token -> Session]
          /\ \A k \in Token \ {t} : sessions'[k] = sessions[k]
          /\ sessions'[t].state = "live" /\ sessions'[t].id = worker[w].copy.id
          /\ sessions'[t].left = worker[w].ttl
      BY <1>5, CreateSessionEffect
    <3>2. worker[w].ttl > 0
      BY <2>2, Lifetimes
    <3>3. QED
      BY <2>2, <3>1, <3>2
  <2>4. SessionsMove
    BY <2>3 DEF SessionsMove, Live
  <2>5. SessionsSound'
    BY <1>1, <2>3 DEF SessionsSound, Live
  <2>6. QED
    BY <2>3, <2>4, <2>5
<1>6. CASE Hour
  <2>1. sessions' \in [Token -> Session] /\ \A t \in Token : Ages(t) \/ (~Live(t) /\ sessions'[t] = sessions[t])
    BY <1>6, HourEffect
  <2>2. ASSUME NEW t \in Token, Ages(t)
        PROVE  /\ sessions'[t].state # "free" /\ (sessions'[t].state = "live" => sessions'[t].id = sessions[t].id)
               /\ sessions'[t].state = "live" <=> sessions'[t].left > 0
    <3>1. sessions[t].left \in Nat /\ sessions[t].left > 0
      BY <1>1, <2>2, Lifetimes DEF SessionsSound, Ages, Session
    <3>2. QED
      BY <2>2, <3>1 DEF Ages
  <2>3. QED
    BY <1>1, <2>1, <2>2 DEF SessionsMove, SessionsSound, Live, Ages
<1>7. QED
  BY <1>2, <1>3, <1>4, <1>5, <1>6, SessionSteps2
-----------------------------------------------------------------------------
(* What a step does to the index. *)

\* An index that is renewed.
Renews(w) ==
  /\ index' \in [Id -> Members] /\ worker[w].by.id \in Id /\ worker[w].ttl \in TTL
  /\ \A i \in Id : index'[i].tokens = index[i].tokens
  /\ \A i \in Id \ {worker[w].by.id} : index'[i].left = index[i].left
  /\ index'[worker[w].by.id].left = IF index[worker[w].by.id].left = 0 THEN 0 ELSE worker[w].ttl
  /\ UNCHANGED <<boltVars, sessions, attempts, locked, limited, boundVars, auxVars>>

\* An index that loses what a goroutine has in hand.
Removes(w) ==
  /\ index' \in [Id -> Members] /\ worker[w].by.id \in Id
  /\ \A i \in Id \ {worker[w].by.id} : index'[i] = index[i]
  /\ index'[worker[w].by.id].tokens = index[worker[w].by.id].tokens \ worker[w].tokens
  /\ index'[worker[w].by.id].left = IF index[worker[w].by.id].tokens \subseteq worker[w].tokens THEN 0
                                    ELSE index[worker[w].by.id].left
  /\ UNCHANGED <<boltVars, sessions, attempts, locked, limited, boundVars, auxVars>>

\* The middleware and a new session renew the index.
LEMMA RenewEffect ==
  ASSUME Types, JobInOrder, NEW w \in Worker, RefreshIndex(w) \/ NewSessionExpiry(w)
  PROVE  /\ worker[w].pc \in {"refreshIndex", "expireIndex"} /\ Renews(w)
         /\ RefreshIndex(w) => worker[w].pc = "refreshIndex" /\ Goto(w, Handler(w))
         /\ NewSessionExpiry(w) => worker[w].pc = "expireIndex" /\ Ends(w)
<1>1. worker[w].pc \in {"refreshIndex", "expireIndex"}
  BY DEF RefreshIndex, NewSessionExpiry, At
<1>2. worker[w].by.id \in Id /\ worker[w].ttl \in TTL
  BY <1>1, ByIsId DEF BeforeLogin
<1>3. index' = ExpireIndex(worker[w].by.id, worker[w].ttl)
  BY DEF RefreshIndex, NewSessionExpiry
<1>4. Renews(w)
  BY <1>2, <1>3, ExpireIndexEffect DEF Renews, RefreshIndex, NewSessionExpiry
<1>5. NewSessionExpiry(w) => Ends(w)
  BY <1>1, GotoEffect DEF NewSessionExpiry, Done
<1>6. QED
  BY <1>1, <1>4, <1>5 DEF RefreshIndex, NewSessionExpiry, At

\* A deletion takes the session out of the index before its key goes, and pruning what is over.
LEMMA RemoveEffect ==
  ASSUME Types, JobInOrder, NEW w \in Worker, RemoveFromIndex(w) \/ PruneIndex(w)
  PROVE  /\ worker[w].pc \in {"removeFromIndex", "prune"}
         /\ Removes(w) \/ (UNCHANGED <<redisVars, boltVars, boundVars, auxVars>> /\ RemoveFromIndex(w))
         /\ RemoveFromIndex(w) => worker[w].pc = "removeFromIndex" /\ Moves(w, "deleteKey")
         /\ PruneIndex(w) => worker[w].pc = "prune" /\ Ends(w)
<1>1. worker[w].pc \in {"removeFromIndex", "prune"}
  BY DEF RemoveFromIndex, PruneIndex, At
<1>2. worker[w].by.id \in Id
  BY <1>1, ByIsId DEF BeforeLogin
<1>3. ASSUME index' = Without(worker[w].by.id, worker[w].tokens) PROVE Removes(w)
  <2>1. UNCHANGED <<boltVars, sessions, attempts, locked, limited, boundVars, auxVars>>
    BY DEF RemoveFromIndex, PruneIndex
  <2> DEFINE id == worker[w].by.id
             tokens == worker[w].tokens
  <2> HIDE DEF id, tokens
  <2>2. id \in Id /\ index' = Without(id, tokens)
    BY <1>2, <1>3 DEF id, tokens
  <2>3. /\ index' \in [Id -> Members] /\ \A i \in Id \ {id} : index'[i] = index[i]
        /\ index'[id].tokens = index[id].tokens \ tokens
        /\ index'[id].left = IF index[id].tokens \subseteq tokens THEN 0 ELSE index[id].left
    BY <2>2, WithoutEffect
  <2>4. QED
    BY <1>2, <2>1, <2>3 DEF Removes, id, tokens
<1>4. index' = Without(worker[w].by.id, worker[w].tokens) \/ (RemoveFromIndex(w) /\ index' = index)
  BY DEF RemoveFromIndex, PruneIndex
<1>5. Removes(w) \/ (UNCHANGED <<redisVars, boltVars, boundVars, auxVars>> /\ RemoveFromIndex(w))
  BY <1>3, <1>4 DEF RemoveFromIndex, redisVars
<1>6. RemoveFromIndex(w) => Moves(w, "deleteKey")
  BY <1>1, GotoEffect DEF RemoveFromIndex
<1>7. PruneIndex(w) => Ends(w)
  BY <1>1, GotoEffect DEF PruneIndex, Done
<1>8. QED
  BY <1>1, <1>5, <1>6, <1>7 DEF RemoveFromIndex, PruneIndex, At

\* The steps that touch the index.
LEMMA IndexSteps ==
  ASSUME Next
  PROVE  \/ UNCHANGED index
         \/ \E w \in Worker : RefreshIndex(w) \/ NewSessionExpiry(w) \/ AddToIndex(w) \/ RemoveFromIndex(w)
                                \/ PruneIndex(w)
         \/ Hour
<1> USE DEF redisVars
<1>1. ASSUME NEW w \in Worker, NEW req \in Requests, Accept(w, req) PROVE UNCHANGED index
  BY <1>1 DEF Accept
<1>2. ASSUME NEW w \in Worker, Login(w) PROVE UNCHANGED index \/ AddToIndex(w) \/ NewSessionExpiry(w)
  BY <1>2 DEF Login, CheckLock, Verify, CountFailure, StartWindow, Lock, DropAttempts, CreateSession
<1>3. ASSUME NEW w \in Worker, SessionStep(w)
      PROVE  UNCHANGED index \/ RefreshIndex(w) \/ RemoveFromIndex(w) \/ PruneIndex(w)
  BY <1>3 DEF SessionStep, Authenticate, RefreshSession, Revoke, DeleteKey, ListSessions, LimitAction, StartLimit
<1>4. ASSUME NEW w \in Worker, UserStep(w) PROVE UNCHANGED redisVars
  BY <1>4 DEF UserStep, HasAnyUser, CheckName, CreateUser, ReadUser, CountAdmins, SaveUser, DeleteUser,
              ChangePassword, SetSecurityPolicies, SetSetupCompleted
<1>5. ASSUME NEW w \in Worker, RedisFails(w) PROVE UNCHANGED index
  BY <1>5 DEF RedisFails
<1>6. CASE BootstrapAdmin \/ ResetPassword \/ Crash
  BY <1>6 DEF BootstrapAdmin, ResetPassword, Crash
<1>7. CASE Time
  BY <1>7 DEF Time, LimitEnds, LockEnds, WindowEnds
<1>8. QED
  BY <1>1, <1>2, <1>3, <1>4, <1>5, <1>6, <1>7 DEF Next

\* An index is there as long as it has members, and the members are the user's.
IndexSound ==
  \A i \in Id : (index[i].left = 0 <=> index[i].tokens = {}) /\ \A t \in index[i].tokens : IsOf(t, i)

\* A token of a user stays one of that user.
LEMMA IsOfStays ==
  ASSUME SessionsMove, NEW t \in Token, NEW i, IsOf(t, i)
  PROVE  IsOf(t, i)'
BY DEF SessionsMove, IsOf, Live

\* The index after a step.
LEMMA IndexChange ==
  ASSUME Types, JobInOrder, SessionsInOrder, Next
  PROVE  index' \in [Id -> Members] /\ IndexSound'
<1>1. index \in [Id -> Members] /\ IndexSound
  BY DEF Types, RedisTypes, SessionsInOrder, IndexSound
<1>2. SessionsMove
  BY SessionsChange
<1>3. ASSUME index' \in [Id -> Members],
             \A i \in Id : index'[i].left = 0 <=> index'[i].tokens = {},
             \A i \in Id : \A t \in index'[i].tokens : IsOf(t, i)
      PROVE  IndexSound'
  <2>1. ASSUME NEW i \in Id, NEW t \in index'[i].tokens PROVE IsOf(t, i)'
    <3>1. t \in Token
      BY <1>3 DEF Members
    <3>2. QED
      BY <1>2, <1>3, <3>1, IsOfStays
  <2>2. QED
    BY <1>3, <2>1 DEF IndexSound
<1>4. CASE UNCHANGED index
  BY <1>1, <1>3, <1>4 DEF IndexSound
<1>5. ASSUME NEW w \in Worker, RefreshIndex(w) \/ NewSessionExpiry(w)
      PROVE  index' \in [Id -> Members] /\ IndexSound'
  <2>1. Renews(w)
    BY <1>5, RenewEffect
  <2>2. worker[w].ttl # 0
    BY <2>1, Lifetimes DEF Renews
  <2>3. \A i \in Id : (index'[i].left = 0 <=> index[i].left = 0) /\ index'[i].tokens = index[i].tokens
    BY <2>1, <2>2 DEF Renews
  <2>4. QED
    BY <1>1, <1>3, <2>1, <2>3 DEF IndexSound, Renews
<1>6. ASSUME NEW w \in Worker, AddToIndex(w)
      PROVE  index' \in [Id -> Members] /\ IndexSound'
  <2> DEFINE id == worker[w].by.id
  <2>1. /\ worker[w].tokens # {} /\ \A t \in worker[w].tokens : IsOf(t, id)
        /\ index' \in [Id -> Members] /\ \A i \in Id \ {id} : index'[i] = index[i]
        /\ index'[id].tokens = index[id].tokens \cup worker[w].tokens
        /\ index'[id].left = IF index[id].left = 0 THEN Forever ELSE index[id].left
    BY <1>6, AddToIndexEffect DEF JobInOrder, JobSound
  <2> HIDE DEF id
  <2>2. index'[id].left # 0 /\ index'[id].tokens # {}
    BY <2>1, Lifetimes
  <2>3. \A i \in Id : index'[i].left = 0 <=> index'[i].tokens = {}
    BY <1>1, <2>1, <2>2 DEF IndexSound
  <2>4. \A i \in Id : \A t \in index'[i].tokens : IsOf(t, i)
    BY <1>1, <2>1 DEF IndexSound
  <2>5. QED
    BY <1>3, <2>1, <2>3, <2>4
<1>7. ASSUME NEW w \in Worker, RemoveFromIndex(w) \/ PruneIndex(w), Removes(w)
      PROVE  index' \in [Id -> Members] /\ IndexSound'
  <2> DEFINE id == worker[w].by.id
  <2>1. /\ index' \in [Id -> Members] /\ \A i \in Id \ {id} : index'[i] = index[i]
        /\ index'[id].tokens = index[id].tokens \ worker[w].tokens
        /\ index'[id].left = IF index[id].tokens \subseteq worker[w].tokens THEN 0 ELSE index[id].left
    BY <1>7 DEF Removes
  <2>2. id \in Id
    BY <1>7 DEF Removes
  <2> HIDE DEF id
  <2>3. \A i \in Id : index'[i].left = 0 <=> index'[i].tokens = {}
    BY <1>1, <2>1, <2>2 DEF IndexSound
  <2>4. \A i \in Id : \A t \in index'[i].tokens : IsOf(t, i)
    BY <1>1, <2>1 DEF IndexSound
  <2>5. QED
    BY <1>3, <2>1, <2>3, <2>4
<1>8. CASE Hour
  <2>1. index' \in [Id -> Members] /\ \A i \in Id : AgesIndex(i)
    BY <1>8, HourEffect
  <2>2. ASSUME NEW i \in Id
        PROVE  (index'[i].left = 0 <=> index'[i].tokens = {}) /\ \A t \in index'[i].tokens : IsOf(t, i)
    <3>1. CASE Aged(index[i].left) = 0
      BY <2>1, <3>1 DEF AgesIndex, NoIndex
    <3>2. CASE Aged(index[i].left) # 0
      <4>1. index[i].left # 0
        BY <3>2 DEF Aged
      <4>2. index'[i].tokens = index[i].tokens /\ index'[i].left # 0
        BY <2>1, <3>2 DEF AgesIndex
      <4>3. QED
        BY <1>1, <4>1, <4>2 DEF IndexSound
    <3>3. QED
      BY <3>1, <3>2
  <2>3. QED
    BY <1>3, <2>1, <2>2
<1>9. QED
  <2>1. CASE \E w \in Worker : RemoveFromIndex(w) \/ PruneIndex(w)
    <3>1. PICK w \in Worker : RemoveFromIndex(w) \/ PruneIndex(w)
      BY <2>1
    <3>2. Removes(w) \/ UNCHANGED index
      BY <3>1, RemoveEffect DEF redisVars
    <3>3. QED
      BY <1>4, <1>7, <3>1, <3>2
  <2>2. QED
    BY <1>4, <1>5, <1>6, <1>8, <2>1, IndexSteps
-----------------------------------------------------------------------------
(* What a step does to the counters, the records and the policy. *)

\* A counter of failures or of calls, as commands on it leave it.
LEMMA CounterCommands ==
  /\ NoCounter \in Counter /\ (NoCounter.n = 0 => ~NoCounter.expires)
  /\ \A c \in Counter : Incremented(c) \in Counter /\ Incremented(c).n # 0
  /\ \A c \in Counter : Timed(c) \in Counter /\ (Timed(c).n = 0 /\ ~c.expires => ~Timed(c).expires)
<1>1. NoCounter \in Counter /\ (NoCounter.n = 0 => ~NoCounter.expires)
  BY DEF NoCounter, Counter
<1>2. \A c \in Counter : Incremented(c) \in Counter /\ Incremented(c).n # 0
  BY DEF Incremented, Counter
<1>3. ASSUME NEW c \in Counter
      PROVE  Timed(c) \in Counter /\ (Timed(c).n = 0 /\ ~c.expires => ~Timed(c).expires)
  BY DEF Timed, Counter
<1>4. QED
  BY <1>1, <1>2, <1>3

CountersSound ==
  /\ attempts \in [User -> Counter] /\ limited \in Counter /\ locked \subseteq User
  /\ \A u \in User : attempts[u].n = 0 => ~attempts[u].expires

\* One command on the failures of one name.
OneCounts(u) ==
  \E c \in Counter : (c.n = 0 => ~c.expires) /\ attempts' = [attempts EXCEPT ![u] = c]

\* The failures of a name are as sound after a command as before.
LEMMA OneCountsSound ==
  ASSUME CountersSound, NEW u \in User, OneCounts(u), UNCHANGED <<limited, locked>>
  PROVE  CountersSound'
BY DEF CountersSound, OneCounts

\* The counters after a step.
LEMMA CountersChange ==
  ASSUME Types, JobInOrder, SessionsInOrder, Next
  PROVE  CountersSound'
<1> USE DEF At, redisVars
<1>1. CountersSound
  BY DEF CountersSound, Types, RedisTypes, SessionsInOrder
<1>2. CASE UNCHANGED <<attempts, limited, locked>>
  BY <1>1, <1>2 DEF CountersSound
<1>3. \A c \in Counter : ~c.expires \/ c.n # 0 => (Timed(c).n = 0 => ~Timed(c).expires)
  BY CounterCommands DEF Timed, Counter
<1>4. ASSUME NEW w \in Worker, Login(w) PROVE CountersSound'
  <2>1. worker[w].pc \in LoginSteps => Req(w).name \in User /\ attempts[Req(w).name] \in Counter
    <3>1. worker[w].pc \in LoginSteps => Req(w).name \in User
      BY AtStep, OpsTable, RequestFields DEF LoginSteps
    <3>2. QED
      BY <1>1, <3>1 DEF CountersSound
  <2>2. CASE CheckLock(w) \/ Verify(w) \/ (\E t \in Token : CreateSession(w, t)) \/ AddToIndex(w)
               \/ NewSessionExpiry(w)
    <3>1. UNCHANGED <<attempts, limited, locked>>
      BY <2>2 DEF CheckLock, Verify, CreateSession, AddToIndex, NewSessionExpiry
    <3>2. QED
      BY <1>2, <3>1
  <2>3. CASE CountFailure(w)
    <3>1. attempts' = [attempts EXCEPT ![Req(w).name] = Incremented(attempts[Req(w).name])]
          /\ UNCHANGED <<limited, locked>>
      BY <2>3 DEF CountFailure
    <3>2. worker[w].pc \in LoginSteps
      BY <2>3 DEF CountFailure, LoginSteps
    <3>3. OneCounts(Req(w).name)
      BY <2>1, <3>1, <3>2, CounterCommands DEF OneCounts
    <3>4. QED
      BY <1>1, <2>1, <3>1, <3>2, <3>3, OneCountsSound
  <2>4. CASE StartWindow(w)
    <3>1. attempts' = [attempts EXCEPT ![Req(w).name] = Timed(@)] /\ UNCHANGED <<limited, locked>>
      BY <2>4 DEF StartWindow
    <3>2. worker[w].pc \in LoginSteps
      BY <2>4 DEF StartWindow, LoginSteps
    <3> DEFINE u == Req(w).name
    <3> HIDE DEF u
    <3>3. u \in User /\ attempts[u] \in Counter /\ (attempts[u].n = 0 => ~attempts[u].expires)
      BY <1>1, <2>1, <3>2 DEF u, CountersSound
    <3>4. Timed(attempts[u]) \in Counter /\ (Timed(attempts[u]).n = 0 => ~Timed(attempts[u]).expires)
      BY <1>3, <3>3, CounterCommands
    <3>5. attempts' = [attempts EXCEPT ![u] = Timed(attempts[u])]
      BY <1>1, <3>1, <3>3 DEF u, CountersSound
    <3>6. OneCounts(u)
      BY <3>4, <3>5 DEF OneCounts
    <3>7. QED
      BY <1>1, <3>1, <3>3, <3>6, OneCountsSound
  <2>5. CASE Lock(w)
    <3>1. worker[w].pc \in LoginSteps /\ locked' = locked \cup {Req(w).name} /\ UNCHANGED <<attempts, limited>>
      BY <2>5 DEF Lock, LoginSteps
    <3>2. QED
      BY <1>1, <2>1, <3>1 DEF CountersSound
  <2>6. CASE DropAttempts(w)
    <3>1. attempts' = [attempts EXCEPT ![Req(w).name] = NoCounter] /\ UNCHANGED <<limited, locked>>
          /\ worker[w].pc \in LoginSteps
      BY <2>6 DEF DropAttempts, LoginSteps
    <3>2. OneCounts(Req(w).name)
      BY <3>1, CounterCommands DEF OneCounts
    <3>3. QED
      BY <1>1, <2>1, <3>1, <3>2, OneCountsSound
  <2>7. QED
    BY <1>4, <2>2, <2>3, <2>4, <2>5, <2>6 DEF Login
<1>5. ASSUME NEW w \in Worker, SessionStep(w) PROVE CountersSound'
  <2>1. CASE LimitAction(w) \/ StartLimit(w)
    <3>1. (limited' = Incremented(limited) \/ limited' = Timed(limited)) /\ UNCHANGED <<attempts, locked>>
      BY <2>1 DEF LimitAction, StartLimit
    <3>2. limited' \in Counter
      BY <1>1, <3>1, CounterCommands DEF CountersSound
    <3>3. QED
      BY <1>1, <3>1, <3>2 DEF CountersSound
  <2>2. CASE ~(LimitAction(w) \/ StartLimit(w))
    <3>1. UNCHANGED <<attempts, limited, locked>>
      BY <1>5, <2>2 DEF SessionStep, Authenticate, RefreshSession, RefreshIndex, Revoke, RemoveFromIndex,
                        DeleteKey, ListSessions, PruneIndex
    <3>2. QED
      BY <1>2, <3>1
  <2>3. QED
    BY <2>1, <2>2
<1>6. ASSUME NEW w \in Worker, UserStep(w) PROVE UNCHANGED redisVars
  BY <1>6 DEF UserStep, HasAnyUser, CheckName, CreateUser, ReadUser, CountAdmins, SaveUser, DeleteUser,
              ChangePassword, SetSecurityPolicies, SetSetupCompleted
<1>7. ASSUME NEW w \in Worker, (\E req \in Requests : Accept(w, req)) \/ RedisFails(w)
      PROVE  UNCHANGED redisVars
  BY <1>7 DEF Accept, RedisFails
<1>8. CASE BootstrapAdmin \/ ResetPassword \/ Crash
  BY <1>2, <1>8 DEF BootstrapAdmin, ResetPassword, Crash
<1>9. CASE Time
  <2>1. CASE Hour
    BY <1>2, <2>1 DEF Hour
  <2>2. CASE LimitEnds
    BY <1>1, <2>2, CounterCommands DEF LimitEnds, CountersSound
  <2>3. ASSUME NEW u \in User, LockEnds(u) PROVE CountersSound'
    BY <1>1, <2>3 DEF LockEnds, CountersSound
  <2>4. ASSUME NEW u \in User, WindowEnds(u) PROVE CountersSound'
    <3>1. OneCounts(u) /\ UNCHANGED <<limited, locked>>
      BY <2>4, CounterCommands DEF WindowEnds, OneCounts
    <3>2. QED
      BY <1>1, <3>1, OneCountsSound
  <2>5. QED
    BY <1>9, <2>1, <2>2, <2>3, <2>4 DEF Time
<1>10. QED
  BY <1>2, <1>4, <1>5, <1>6, <1>7, <1>8, <1>9 DEF Next

\* The records, the policy and the bounds after a step.
LEMMA BoltChange ==
  ASSUME Types, JobInOrder, Next
  PROVE  BoltTypes' /\ BoundTypes'
<1> USE DEF At
<1>1. CASE UNCHANGED <<boltVars, boundVars, auxVars>>
  BY <1>1 DEF Types, BoltTypes, BoundTypes, boltVars, boundVars, auxVars
<1>2. BoltTypes /\ BoundTypes
  BY DEF Types
<1>3. ASSUME NEW w \in Worker, Login(w) \/ SessionStep(w) PROVE UNCHANGED <<boltVars, boundVars, auxVars>>
  BY <1>3 DEF Login, CheckLock, Verify, CountFailure, StartWindow, Lock, DropAttempts, CreateSession,
              AddToIndex, NewSessionExpiry, SessionStep, Authenticate, RefreshSession, RefreshIndex, Revoke,
              RemoveFromIndex, DeleteKey, ListSessions, PruneIndex, LimitAction, StartLimit
<1>4. ASSUME NEW w \in Worker, UserStep(w) PROVE BoltTypes' /\ BoundTypes'
  <2>1. CASE HasAnyUser(w) \/ CheckName(w) \/ ReadUser(w) \/ CountAdmins(w) \/ ChangePassword(w)
    BY <1>1, <2>1 DEF HasAnyUser, CheckName, ReadUser, CountAdmins, ChangePassword
  <2>2. CASE CreateUser(w)
    BY <1>2, <2>2, CreateUserEffect DEF BoltTypes, BoundTypes, boundVars, auxVars
  <2>3. CASE SaveUser(w) \/ DeleteUser(w)
    BY <1>2, <2>3, SaveUserEffect DEF BoltTypes, BoundTypes, boundVars, auxVars
  <2>4. CASE SetSecurityPolicies(w)
    <3>1. Req(w).ttl \in TTL
      BY <2>4, AtStep, OpsTable, RequestFields DEF SetSecurityPolicies
    <3>2. BoltTypes'
      BY <1>2, <2>4, <3>1 DEF SetSecurityPolicies, StoreSecurityPolicies, BoltTypes
    <3>3. repoliced' \in BOOLEAN
      BY <1>2, <2>4 DEF SetSecurityPolicies, BoundTypes
    <3>4. QED
      BY <1>2, <2>4, <3>2, <3>3 DEF SetSecurityPolicies, BoundTypes, boundVars
  <2>5. CASE SetSetupCompleted(w)
    <3>1. Req(w).done \in BOOLEAN
      BY <2>5, AtStep, OpsTable, RequestFields DEF SetSetupCompleted
    <3>2. QED
      BY <1>2, <2>5, <3>1 DEF SetSetupCompleted, BoltTypes, BoundTypes, boundVars, auxVars
  <2>6. QED
    BY <1>4, <2>1, <2>2, <2>3, <2>4, <2>5 DEF UserStep
<1>5. ASSUME NEW w \in Worker, NEW req \in Requests, Accept(w, req) PROVE BoltTypes' /\ BoundTypes'
  <2>1. overlapped' \in BOOLEAN
    BY <1>2, <1>5, AcceptEffect DEF BoundTypes
  <2>2. QED
    BY <1>2, <1>5, <2>1, AcceptEffect DEF BoltTypes, BoundTypes, boltVars
<1>6. ASSUME UNCHANGED <<boltVars, accepted, auxVars>>, faults < MaxFaults, faults' = faults + 1
      PROVE  BoltTypes' /\ BoundTypes'
  <2>1. faults' \in 0..MaxFaults
    BY <1>2, <1>6, Lifetimes DEF BoundTypes
  <2>2. QED
    BY <1>2, <1>6, <2>1 DEF BoltTypes, BoundTypes, boltVars, auxVars
<1>7. ASSUME NEW w \in Worker, RedisFails(w) PROVE BoltTypes' /\ BoundTypes'
  BY <1>6, <1>7 DEF RedisFails
<1>8. CASE Crash
  BY <1>6, <1>8 DEF Crash
<1>9. CASE BootstrapAdmin \/ ResetPassword
  BY <1>2, <1>9, OfflineEffect DEF BoltTypes, BoundTypes, auxVars
<1>10. CASE Time
  BY <1>1, <1>10 DEF Time, Hour, LimitEnds, LockEnds, WindowEnds
<1>11. QED
  BY <1>1, <1>3, <1>4, <1>5, <1>7, <1>8, <1>9, <1>10 DEF Next

\* The goroutines after a step.
LEMMA WorkersChange ==
  ASSUME Types, JobInOrder, Next
  PROVE  \/ UNCHANGED worker
         \/ \E w \in Worker : Steps(w)
         \/ \E w \in Worker : \E req \in Requests : Accept(w, req)
         \/ Crash
<1>1. ASSUME NEW w \in Worker, Login(w) \/ SessionStep(w) \/ UserStep(w) \/ RedisFails(w) PROVE Steps(w)
  BY <1>1, WorkerSteps
<1>2. CASE BootstrapAdmin \/ ResetPassword \/ Time
  BY <1>2 DEF BootstrapAdmin, ResetPassword, Time, Hour, LimitEnds, LockEnds, WindowEnds
<1>3. QED
  BY <1>1, <1>2 DEF Next

\* Types are kept.
LEMMA NextTypes ==
  ASSUME Types, JobInOrder, SessionsInOrder, Next
  PROVE  Types'
<1>1. WorkerTypes
  BY DEF Types
<1>2. WorkerTypes'
  <2>1. CASE UNCHANGED worker
    BY <1>1, <2>1 DEF WorkerTypes
  <2>2. ASSUME NEW w \in Worker, OthersKeep(w), worker'[w] = IdleWorker \/ IsJob(worker'[w])
        PROVE  WorkerTypes'
    BY <1>1, <2>2 DEF WorkerTypes, OthersKeep
  <2>3. ASSUME NEW w \in Worker, Steps(w) PROVE WorkerTypes'
    BY <2>2, <2>3 DEF Steps
  <2>4. ASSUME NEW w \in Worker, NEW req \in Requests, Accept(w, req) PROVE WorkerTypes'
    BY <2>2, <2>4, AcceptEffect
  <2>5. CASE Crash
    BY <2>5 DEF Crash, WorkerTypes
  <2>6. QED
    BY <2>1, <2>3, <2>4, <2>5, WorkersChange
<1>3. RedisTypes'
  BY SessionsChange, IndexChange, CountersChange DEF RedisTypes, CountersSound
<1>4. QED
  BY <1>2, <1>3, BoltChange DEF Types

\* The sessions and their index stay in order.
LEMMA NextSessions ==
  ASSUME Types, JobInOrder, SessionsInOrder, Next
  PROVE  SessionsInOrder'
<1>1. SessionsSound' /\ IndexSound' /\ CountersSound'
  BY SessionsChange, IndexChange, CountersChange
<1>2. QED
  BY <1>1 DEF SessionsInOrder, SessionsSound, IndexSound, CountersSound
-----------------------------------------------------------------------------
(* What a goroutine has in hand stays in order. *)

\* That of a goroutine that takes no step.
LEMMA JobStays ==
  ASSUME Types, SessionsMove, sessions' \in [Token -> Session], NEW v \in Worker, JobSound(v),
         worker'[v] = worker[v]
  PROVE  JobSound(v)'
<1>1. worker[v].pc \in {"addToIndex", "prune"} => worker[v].tokens \subseteq Token
  BY JobIs DEF IsJob
<1>2. worker[v].pc = "refresh" => Req(v).token \in Token
  BY AtStep, OpsTable, RequestFields
<1>3. \A t \in Token, i \in Int : IsOf(t, i) => IsOf(t, i)'
  BY IsOfStays
<1>4. worker[v].pc = "addToIndex" \/ worker[v].pc = "refresh" => worker[v].by.id \in Int
  BY JobIs, Lifetimes DEF IsJob, Session
<1>5. \A t \in Token : sessions[t].state = "over" => sessions'[t].state = "over"
  BY DEF SessionsMove, Session, Live
<1>6. Req(v)' = Req(v)
  BY DEF Req
<1>7. QED
  BY <1>1, <1>2, <1>3, <1>4, <1>5, <1>6 DEF JobSound

\* That of one that moves on.
LEMMA JobMoves ==
  ASSUME Types, NEW w \in Worker, JobSound(w), NEW pc, Moves(w, pc),
         pc \notin {"refresh", "addToIndex", "prune"},
         pc \notin BeforeLogin => worker[w].pc \notin BeforeLogin,
         pc \in {"clearAttempts", "createSession"} => worker[w].pc \in {"clearAttempts", "createSession"}
  PROVE  JobSound(w)'
BY DEF JobSound, Moves, Takes

\* That of one that ends its request.
LEMMA JobEnds ==
  ASSUME NEW w \in Worker, worker'[w] = IdleWorker
  PROVE  JobSound(w)'
BY DEF JobSound, IdleWorker, BeforeLogin

\* That of one that goes somewhere.
LEMMA JobGoes ==
  ASSUME Types, NEW w \in Worker, JobSound(w), NEW pc, Goto(w, pc), worker[w].pc # "idle",
         pc \notin {"refresh", "addToIndex", "prune"},
         pc \notin BeforeLogin => worker[w].pc \notin BeforeLogin,
         pc \in {"clearAttempts", "createSession"} => worker[w].pc \in {"clearAttempts", "createSession"}
  PROVE  JobSound(w)'
BY GotoEffect, JobMoves, JobEnds DEF Ends

\* A step of a goroutine leaves it with what its next step expects.
LEMMA StepJobSound ==
  ASSUME Types, JobInOrder, SessionsInOrder, NEW w \in Worker,
         Login(w) \/ SessionStep(w) \/ UserStep(w) \/ RedisFails(w)
  PROVE  JobSound(w)'
<1> USE DEF At
<1>1. JobSound(w)
  BY DEF JobInOrder
<1>2. CASE CheckLock(w) \/ StartWindow(w) \/ Lock(w) \/ DropAttempts(w) \/ AddToIndex(w) \/ NewSessionExpiry(w)
  BY <1>1, <1>2, JobGoes DEF CheckLock, StartWindow, Lock, DropAttempts, AddToIndex, NewSessionExpiry,
                             Done, BeforeLogin
<1>3. CASE Verify(w)
  <2>1. /\ worker'[w].pc = IF Verified(w) THEN "clearAttempts" ELSE "countFailure"
        /\ worker'[w].copy = users[Req(w).name]
    BY <1>3, VerifyEffect DEF Takes
  <2>2. QED
    BY <2>1 DEF JobSound, BeforeLogin, Verified, Exists
<1>4. CASE CountFailure(w)
  <2>1. worker'[w] = IdleWorker \/ worker'[w].pc \in {"startWindow", "lock"}
    BY <1>4, CountFailureEffect DEF Ends, Takes
  <2>2. QED
    BY <2>1, JobEnds DEF JobSound, BeforeLogin
<1>5. ASSUME NEW t \in Token, CreateSession(w, t) PROVE JobSound(w)'
  <2>1. /\ worker'[w].pc = "addToIndex" /\ worker'[w].by = sessions'[t] /\ worker'[w].tokens = {t}
        /\ sessions'[t].state = "live" /\ sessions'[t].id # 0
    BY <1>5, CreateSessionEffect DEF Takes
  <2>2. QED
    BY <2>1 DEF JobSound, IsOf
<1>6. CASE Authenticate(w)
  <2>1. CASE Live(Req(w).token)
    <3>1. /\ worker'[w].pc = "refresh" /\ worker'[w].by = sessions[Req(w).token]
          /\ worker'[w].req = Req(w) /\ sessions' = sessions /\ Req(w).token \in Token
      BY <1>6, <2>1, AuthenticateEffect DEF Takes, Req, redisVars
    <3>2. sessions[Req(w).token].id # 0
      BY <2>1, <3>1 DEF SessionsInOrder
    <3>3. IsOf(Req(w).token, worker[w].by.id)'
      BY <2>1, <3>1 DEF IsOf, Req, Live
    <3>4. QED
      BY <3>1, <3>2, <3>3 DEF JobSound
  <2>2. QED
    BY <1>6, <2>1, AuthenticateEffect, JobEnds DEF Ends
<1>7. CASE RefreshSession(w) \/ RemoveFromIndex(w) \/ LimitAction(w) \/ DeleteKey(w) \/ PruneIndex(w) \/ StartLimit(w)
  BY <1>1, <1>7, JobGoes DEF RefreshSession, RemoveFromIndex, LimitAction, DeleteKey, PruneIndex, StartLimit,
                             Done, BeforeLogin
<1>8. CASE RefreshIndex(w)
  BY <1>1, <1>8, HandlerIs, JobGoes DEF RefreshIndex, BeforeLogin
<1>9. CASE Revoke(w)
  <2>1. worker'[w] = IdleWorker \/ (worker'[w].pc = "removeFromIndex" /\ worker'[w].by = worker[w].by)
    BY <1>9, RevokeEffect DEF Ends, Takes
  <2>2. worker[w].pc = "revoke"
    BY <1>9, RevokeEffect
  <2>3. QED
    BY <1>1, <2>1, <2>2, JobEnds DEF JobSound, BeforeLogin
<1>10. CASE ListSessions(w)
  <2>1. worker'[w] = IdleWorker \/ (/\ worker'[w].pc = "prune" /\ worker'[w].by = worker[w].by
                                    /\ worker'[w].tokens = Stale(worker[w].by.id))
    BY <1>10, ListSessionsEffect DEF Ends, Takes
  <2>2. worker[w].pc = "list" /\ worker[w].by.id \in Id /\ sessions' = sessions
    BY <1>10, ListSessionsEffect DEF redisVars
  <2>3. \A t \in Stale(worker[w].by.id) : sessions[t].state = "over"
    BY <2>2 DEF Stale, SessionsInOrder, IsOf, Live, Types, RedisTypes, Session, Members
  <2>4. QED
    BY <1>1, <2>1, <2>2, <2>3, JobEnds DEF JobSound, BeforeLogin
<1>11. CASE HasAnyUser(w) \/ CheckName(w) \/ CreateUser(w) \/ SaveUser(w) \/ DeleteUser(w)
             \/ SetSecurityPolicies(w) \/ SetSetupCompleted(w)
  BY <1>1, <1>11, JobGoes DEF HasAnyUser, CheckName, CreateUser, SaveUser, DeleteUser, SetSecurityPolicies,
                              SetSetupCompleted, Done, BeforeLogin
<1>12. CASE ReadUser(w)
  <2>1. worker[w].pc = "read" /\ Req(w).op \in {"update", "profile", "delete"}
    BY <1>12, ReadUserEffect, AtStep, OpsTable
  <2>2. worker'[w] = IdleWorker \/ (/\ worker'[w].pc = AfterRead(w, users[Req(w).name])
                                    /\ worker'[w].by = worker[w].by)
    BY <1>12, ReadUserEffect DEF Ends, Takes
  <2>3. AfterRead(w, users[Req(w).name]) \in {"idle", "save", "erase", "countForDelete", "countForDisable", "countForRole"}
    BY <2>1, AfterReadIs DEF AfterRead
  <2>4. QED
    BY <1>1, <2>1, <2>2, <2>3, JobEnds DEF JobSound, BeforeLogin
<1>13. CASE CountAdmins(w)
  <2>1. PICK pc : Goto(w, pc) /\ pc \in {"idle", "save", "erase", RoleStep(w, worker[w].copy)}
    BY <1>13 DEF CountAdmins
  <2>2. RoleStep(w, worker[w].copy) \in {"idle", "countForRole", "save"}
    BY DEF RoleStep
  <2>3. worker[w].pc \in {"countForDisable", "countForRole", "countForDelete"}
    BY <1>13 DEF CountAdmins
  <2>4. QED
    BY <1>1, <2>1, <2>2, <2>3, JobGoes DEF BeforeLogin
<1>14. CASE ChangePassword(w)
  <2>1. worker'[w] = IdleWorker \/ (worker'[w].pc = "save" /\ worker'[w].by = worker[w].by)
    BY <1>14, ChangePasswordEffect DEF Ends
  <2>2. worker[w].pc = "password"
    BY <1>14, ChangePasswordEffect
  <2>3. QED
    BY <1>1, <2>1, <2>2, JobEnds DEF JobSound, BeforeLogin
<1>15. CASE RedisFails(w)
  <2>1. worker[w].pc \in RedisSteps /\ Goto(w, AfterError(w)) /\ worker[w].pc # "idle"
    BY <1>15 DEF RedisFails, RedisSteps
  <2>2. CASE worker[w].pc \in {"refresh", "refreshIndex"}
    <3>1. AfterError(w) = Handler(w)
      BY <2>2 DEF AfterError
    <3>2. QED
      BY <1>1, <2>1, <2>2, <3>1, HandlerIs, JobGoes DEF BeforeLogin
  <2>3. CASE worker[w].pc \notin {"refresh", "refreshIndex"}
    <3>1. /\ AfterError(w) \in {"verify", "lock", "idle", "dropAttempts", "createSession", "expireIndex", "deleteKey"}
          /\ AfterError(w) = "createSession" => worker[w].pc = "clearAttempts"
          /\ AfterError(w) = "expireIndex" => worker[w].pc = "addToIndex"
          /\ AfterError(w) = "deleteKey" => worker[w].pc = "removeFromIndex"
      BY <2>3 DEF AfterError
    <3>2. QED
      BY <1>1, <2>1, <3>1, JobGoes DEF BeforeLogin
  <2>4. QED
    BY <2>2, <2>3
<1>16. QED
  BY <1>2, <1>3, <1>4, <1>5, <1>6, <1>7, <1>8, <1>9, <1>10, <1>11, <1>12, <1>13, <1>14, <1>15
    DEF Login, SessionStep, UserStep

\* Every goroutine still has in hand what its next step expects.
LEMMA NextJob ==
  ASSUME Types, JobInOrder, SessionsInOrder, Next
  PROVE  JobInOrder'
<1>1. SessionsMove /\ sessions' \in [Token -> Session]
  BY SessionsChange
<1>2. ASSUME NEW v \in Worker, worker'[v] = worker[v] PROVE JobSound(v)'
  BY <1>1, <1>2, JobStays DEF JobInOrder
<1>3. ASSUME NEW w \in Worker, OthersKeep(w), JobSound(w)' PROVE JobInOrder'
  BY <1>2, <1>3 DEF OthersKeep, JobInOrder
<1>4. ASSUME NEW w \in Worker, Login(w) \/ SessionStep(w) \/ UserStep(w) \/ RedisFails(w) PROVE JobInOrder'
  BY <1>3, <1>4, StepJobSound, WorkerSteps DEF Steps
<1>5. ASSUME NEW w \in Worker, NEW req \in Requests, Accept(w, req) PROVE JobInOrder'
  <2>1. OthersKeep(w) /\ worker'[w].pc \in {"checkLock", "hasAnyUser", "auth"}
    BY <1>5, AcceptEffect DEF FirstStep
  <2>2. JobSound(w)'
    BY <2>1 DEF JobSound, BeforeLogin
  <2>3. QED
    BY <1>3, <2>1, <2>2
<1>6. CASE Crash
  <2>1. \A w \in Worker : worker'[w] = IdleWorker
    BY <1>6 DEF Crash
  <2>2. QED
    BY <2>1, JobEnds DEF JobInOrder
<1>7. CASE BootstrapAdmin \/ ResetPassword \/ Time
  <2>1. UNCHANGED worker
    BY <1>7 DEF BootstrapAdmin, ResetPassword, Time, Hour, LimitEnds, LockEnds, WindowEnds
  <2>2. QED
    BY <1>2, <2>1 DEF JobInOrder
<1>8. QED
  BY <1>4, <1>5, <1>6, <1>7 DEF Next
-----------------------------------------------------------------------------
(* There is an administrator. *)

\* Two active administrators are more than any one user.
LEMMA AnotherAdmin ==
  ASSUME ~(Cardinality(ActiveAdmins) <= 1), NEW u \in User
  PROVE  ActiveAdmins \ {u} # {}
<1>1. SUFFICES ASSUME ActiveAdmins \subseteq {u} PROVE FALSE
  OBVIOUS
<1>2. ActiveAdmins = {} \/ ActiveAdmins = {u}
  BY <1>1
<1>3. Cardinality({}) = 0 /\ Cardinality({u}) = 1
  BY FS_EmptySet, FS_Singleton
<1>4. CASE ActiveAdmins = {}
  BY <1>3, <1>4
<1>5. CASE ActiveAdmins = {u}
  BY <1>3, <1>5
<1>6. QED
  BY <1>2, <1>4, <1>5

\* The steps that touch the user records, and what they are at.
LEMMA UserWrites ==
  ASSUME Types, Next
  PROVE  \/ UNCHANGED users
         \/ \E w \in Worker : CreateUser(w) \/ SaveUser(w) \/ DeleteUser(w)
         \/ BootstrapAdmin \/ ResetPassword
<1> USE DEF boltVars
<1>1. ASSUME NEW w \in Worker, Login(w) \/ SessionStep(w) PROVE UNCHANGED users
  BY <1>1 DEF Login, CheckLock, Verify, CountFailure, StartWindow, Lock, DropAttempts, CreateSession,
              AddToIndex, NewSessionExpiry, SessionStep, Authenticate, RefreshSession, RefreshIndex, Revoke,
              RemoveFromIndex, DeleteKey, ListSessions, PruneIndex, LimitAction, StartLimit
<1>2. ASSUME NEW w \in Worker, UserStep(w)
      PROVE  UNCHANGED users \/ CreateUser(w) \/ SaveUser(w) \/ DeleteUser(w)
  BY <1>2 DEF UserStep, HasAnyUser, CheckName, ReadUser, CountAdmins, ChangePassword, SetSecurityPolicies,
              SetSetupCompleted
<1>3. ASSUME NEW w \in Worker, (\E req \in Requests : Accept(w, req)) \/ RedisFails(w) PROVE UNCHANGED users
  BY <1>3 DEF Accept, RedisFails
<1>4. CASE Time \/ Crash
  BY <1>4 DEF Time, Hour, LimitEnds, LockEnds, WindowEnds, Crash
<1>5. QED
  BY <1>1, <1>2, <1>3, <1>4 DEF Next

\* A goroutine that is at a change of users is at one for a request that changes users.
LEMMA EditingSteps ==
  ASSUME Types, NEW w \in Worker, worker[w].pc \in WithCopy \cup {"insert"}
  PROVE  Editing(w)
<1>1. worker[w].pc # "idle"
  BY DEF WithCopy
<1>2. Req(w).op \in OpsAt(worker[w].pc)
  BY <1>1, AtStep
<1>3. QED
  BY <1>1, <1>2, OpsTable DEF Editing, UserEdits, WithCopy

\* Whoever takes no step keeps what is in order while the records are what they are.
LEMMA EditStays ==
  ASSUME NEW v \in Worker, EditInOrder(v), worker'[v] = worker[v], UNCHANGED users
  PROVE  EditInOrder(v)'
BY DEF EditInOrder, Another, ActiveAdmins, Exists, NoUsers, Req, Wants

\* Whoever is at no change of users has nothing to keep in order.
LEMMA EditNothing ==
  ASSUME NEW w \in Worker, worker'[w].pc \notin WithCopy \cup {"insert"}
  PROVE  EditInOrder(w)'
BY DEF EditInOrder, WithCopy

\* A step of a goroutine towards a change of users.
LEMMA StepEdit ==
  ASSUME Types, JobInOrder, NEW w \in Worker, EditInOrder(w),
         Login(w) \/ SessionStep(w) \/ UserStep(w) \/ RedisFails(w)
  PROVE  EditInOrder(w)'
<1> USE DEF At
<1>1. CASE Login(w)
  <2>1. CASE \E t \in Token : CreateSession(w, t)
    BY <2>1, CreateSessionEffect, EditNothing DEF Takes, WithCopy
  <2>2. CASE Verify(w) \/ CountFailure(w)
    BY <2>2, VerifyEffect, CountFailureEffect, EditNothing DEF Takes, Ends, IdleWorker, WithCopy
  <2>3. CASE CheckLock(w) \/ StartWindow(w) \/ Lock(w) \/ DropAttempts(w) \/ AddToIndex(w) \/ NewSessionExpiry(w)
    <3>1. PICK pc \in {"idle", "verify", "lock", "dropAttempts", "createSession", "expireIndex"} :
            Goto(w, pc) /\ worker[w].pc # "idle"
      BY <2>3 DEF CheckLock, StartWindow, Lock, DropAttempts, AddToIndex, NewSessionExpiry, Done
    <3>2. worker'[w].pc = pc
      BY <3>1, GotoEffect DEF Ends, Moves, Takes, IdleWorker
    <3>3. QED
      BY <3>1, <3>2, EditNothing DEF WithCopy
  <2>4. QED
    BY <1>1, <2>1, <2>2, <2>3 DEF Login
<1>2. CASE SessionStep(w)
  <2>1. CASE Authenticate(w) \/ Revoke(w) \/ ListSessions(w)
    BY <2>1, AuthenticateEffect, RevokeEffect, ListSessionsEffect, EditNothing
      DEF Takes, Ends, IdleWorker, WithCopy
  <2>2. CASE RefreshIndex(w)
    <3>1. Goto(w, Handler(w)) /\ worker[w].pc = "refreshIndex"
      BY <2>2, RenewEffect
    <3>2. worker'[w].pc = Handler(w)
      BY <3>1, GotoEffect DEF Ends, Moves, Takes, IdleWorker
    <3>3. QED
      BY <3>1, <3>2, HandlerIs, EditNothing DEF WithCopy
  <2>3. CASE RefreshSession(w) \/ RemoveFromIndex(w) \/ DeleteKey(w) \/ PruneIndex(w) \/ LimitAction(w) \/ StartLimit(w)
    <3>1. PICK pc \in {"idle", "refreshIndex", "deleteKey", "startLimit"} : Goto(w, pc) /\ worker[w].pc # "idle"
      BY <2>3 DEF RefreshSession, RemoveFromIndex, DeleteKey, PruneIndex, LimitAction, StartLimit, Done
    <3>2. worker'[w].pc = pc
      BY <3>1, GotoEffect DEF Ends, Moves, Takes, IdleWorker
    <3>3. QED
      BY <3>1, <3>2, EditNothing DEF WithCopy
  <2>4. QED
    BY <1>2, <2>1, <2>2, <2>3 DEF SessionStep
<1>3. CASE RedisFails(w)
  <2>1. worker[w].pc \in RedisSteps /\ Goto(w, AfterError(w)) /\ worker[w].pc # "idle"
    BY <1>3 DEF RedisFails, RedisSteps
  <2>2. worker'[w].pc = AfterError(w)
    BY <2>1, GotoEffect DEF Ends, Moves, Takes, IdleWorker
  <2>3. CASE worker[w].pc \in {"refresh", "refreshIndex"}
    <3>1. AfterError(w) = Handler(w)
      BY <2>3 DEF AfterError
    <3>2. QED
      BY <2>2, <2>3, <3>1, HandlerIs, EditNothing DEF WithCopy
  <2>4. CASE worker[w].pc \notin {"refresh", "refreshIndex"}
    <3>1. AfterError(w) \in {"verify", "lock", "idle", "dropAttempts", "createSession", "expireIndex", "deleteKey"}
      BY <2>4 DEF AfterError
    <3>2. QED
      BY <2>2, <3>1, EditNothing DEF WithCopy
  <2>5. QED
    BY <2>3, <2>4
<1>4. CASE CreateUser(w) \/ SaveUser(w) \/ DeleteUser(w) \/ SetSecurityPolicies(w) \/ SetSetupCompleted(w)
  <2>1. Goto(w, "idle") /\ worker[w].pc # "idle"
    BY <1>4 DEF CreateUser, SaveUser, DeleteUser, SetSecurityPolicies, SetSetupCompleted, Done
  <2>2. worker'[w].pc = "idle"
    BY <2>1, GotoEffect DEF Ends, IdleWorker
  <2>3. QED
    BY <2>2, EditNothing DEF WithCopy
<1>5. CASE HasAnyUser(w) \/ CheckName(w)
  <2>1. PICK pc \in {"idle", "insert"} : Goto(w, pc) /\ UNCHANGED users
               /\ (pc = "insert" => (worker[w].pc = "hasAnyUser" /\ NoUsers)
                                    \/ (worker[w].pc = "create" /\ ~Exists(Req(w).name)))
               /\ worker[w].pc \in {"hasAnyUser", "create"}
    BY <1>5 DEF HasAnyUser, CheckName, NoUsers, boltVars
  <2>2. worker'[w].pc = pc /\ (pc = "insert" => Req(w)' = Req(w))
    BY <2>1, GotoEffect DEF Ends, Moves, Takes, IdleWorker, Req
  <2>3. (worker[w].pc = "hasAnyUser" => Req(w).op = "setup") /\ (worker[w].pc = "create" => Req(w).op = "create")
    BY AtStep, OpsTable
  <2>4. QED
    BY <2>1, <2>2, <2>3 DEF EditInOrder, WithCopy, NoUsers, Exists
<1>6. CASE ReadUser(w)
  <2>1. CASE Ends(w)
    BY <2>1, EditNothing DEF Ends, IdleWorker, WithCopy
  <2>2. CASE ~Ends(w)
    <3> DEFINE copy == users[Req(w).name]
    <3>1. /\ worker'[w].pc = AfterRead(w, copy) /\ worker'[w].copy = copy /\ copy.id # 0
          /\ Req(w)' = Req(w) /\ users' = users /\ AfterRead(w, copy) # "idle"
      BY <1>6, <2>2, ReadUserEffect DEF Takes, Req, Exists, boltVars
    <3>2. Req(w).op \in {"update", "profile", "delete"}
      BY <1>6, ReadUserEffect, AtStep, OpsTable
    <3> HIDE DEF copy
    <3>3. /\ AfterRead(w, copy) = "save" =>
                ~(copy.role = "admin" /\ (Wants(w, "disable") \/ Wants(w, "demote")))
          /\ AfterRead(w, copy) = "erase" => copy.role # "admin"
          /\ AfterRead(w, copy) # "insert"
      BY <3>2 DEF AfterRead, RoleStep, Wants
    <3>4. \A c : Wants(w, c)' <=> Wants(w, c)
      BY <3>1 DEF Wants
    <3>5. worker'[w].copy = users'[Req(w)'.name] /\ worker'[w].copy.id # 0
      BY <3>1 DEF copy
    <3>6. QED
      BY <3>1, <3>3, <3>4, <3>5 DEF EditInOrder
  <2>3. QED
    BY <2>1, <2>2
<1>7. CASE CountAdmins(w)
  <2>1. worker[w].pc \in {"countForDisable", "countForRole", "countForDelete"} /\ users' = users
    BY <1>7 DEF CountAdmins, boltVars
  <2>2. Req(w).name \in User
    BY <2>1, AtStep, OpsTable, RequestFields DEF UserEdits
  <2>3. worker[w].copy = users[Req(w).name] /\ worker[w].copy.id # 0
    BY <2>1 DEF EditInOrder, WithCopy
  <2>4. CASE Cardinality(ActiveAdmins) <= 1
    <3>1. Goto(w, "idle")
      BY <1>7, <2>4 DEF CountAdmins
    <3>2. QED
      BY <2>1, <3>1, GotoEffect, EditNothing DEF Ends, IdleWorker, WithCopy
  <2>5. CASE ~(Cardinality(ActiveAdmins) <= 1)
    <3>1. PICK pc : Goto(w, pc) /\ pc \in {"save", "erase", RoleStep(w, worker[w].copy)}
      BY <1>7, <2>5 DEF CountAdmins
    <3>2. pc \in {"idle", "countForRole", "save", "erase"}
      BY <3>1 DEF RoleStep
    <3>3. Another(w)
      BY <2>2, <2>5, AnotherAdmin DEF Another
    <3>4. worker'[w].pc = pc /\ (pc # "idle" => worker'[w].copy = worker[w].copy /\ Req(w)' = Req(w))
      BY <2>1, <3>1, GotoEffect DEF Ends, Moves, Takes, IdleWorker, Req
    <3>5. pc # "idle" => Another(w)'
      BY <2>1, <3>3, <3>4 DEF Another, ActiveAdmins, Exists
    <3>6. QED
      BY <2>1, <2>3, <3>2, <3>4, <3>5 DEF EditInOrder, WithCopy
  <2>6. QED
    BY <2>4, <2>5
<1>8. CASE ChangePassword(w)
  <2>1. CASE Ends(w)
    BY <2>1, EditNothing DEF Ends, IdleWorker, WithCopy
  <2>2. CASE ~Ends(w)
    <3>1. /\ worker'[w].pc = "save" /\ worker'[w].copy = users'[Req(w)'.name] /\ worker'[w].copy.id # 0
          /\ Req(w)'.op = "password"
      BY <1>8, <2>2, ChangePasswordEffect DEF Req, Exists, boltVars
    <3>2. ~Wants(w, "disable")' /\ ~Wants(w, "demote")'
      BY <3>1 DEF Wants
    <3>3. QED
      BY <3>1, <3>2 DEF EditInOrder
  <2>3. QED
    BY <2>1, <2>2
<1>9. QED
  BY <1>1, <1>2, <1>3, <1>4, <1>5, <1>6, <1>7, <1>8 DEF UserStep

\* A save keeps the id, and takes away an administrator only if there is another.
LEMMA SaveKeepsAdmin ==
  ASSUME Types, NEW w \in Worker, EditInOrder(w), SaveUser(w) \/ DeleteUser(w), ActiveAdmins # {}
  PROVE  \E u \in User : users'[u].id # 0 /\ users'[u].role = "admin" /\ ~users'[u].disabled
<1> DEFINE name == Req(w).name
<1>1. /\ worker[w].pc \in {"save", "erase"} /\ name \in User
      /\ \A u \in User \ {name} : users'[u] = users[u]
      /\ users'[name] = IF worker[w].pc = "save" THEN Changed(w) ELSE NoUser
  BY SaveUserEffect
<1>2. worker[w].copy = users[name]
  BY <1>1 DEF EditInOrder, WithCopy
<1>3. \A u \in ActiveAdmins : u \in User /\ users[u].id # 0 /\ users[u].role = "admin" /\ ~users[u].disabled
  BY DEF ActiveAdmins, Exists
<1>4. CASE ActiveAdmins \ {name} # {}
  BY <1>1, <1>3, <1>4
<1>5. CASE ActiveAdmins \ {name} = {}
  <2>1. name \in ActiveAdmins
    BY <1>5
  <2>2. users[name].id # 0 /\ users[name].role = "admin" /\ ~users[name].disabled
    BY <1>3, <2>1
  <2>3. worker[w].pc = "save" /\ ~Wants(w, "disable") /\ ~Wants(w, "demote")
    BY <1>1, <1>2, <1>5, <2>2 DEF EditInOrder, Another
  <2>4. Changed(w).id # 0 /\ Changed(w).role = "admin" /\ ~Changed(w).disabled
    BY <1>2, <2>2, <2>3, ChangedIs
  <2>5. QED
    BY <1>1, <2>3, <2>4
<1>6. QED
  BY <1>4, <1>5

\* The administrator that remains.
LEMMA NextAdmin ==
  ASSUME Types, Next, Unused, NoUsers \/ ActiveAdmins # {}, \A w \in Worker : EditInOrder(w)
  PROVE  NoUsers' \/ ActiveAdmins' # {}
<1>1. CASE UNCHANGED users
  BY <1>1 DEF NoUsers, ActiveAdmins, Exists
<1>2. ASSUME NEW u \in User, users'[u].id # 0, users'[u].role = "admin", ~users'[u].disabled
      PROVE  ActiveAdmins' # {}
  BY <1>2 DEF ActiveAdmins, Exists
<1>3. ASSUME NEW w \in Worker, CreateUser(w) PROVE ActiveAdmins' # {}
  <2> DEFINE name == Req(w).name
  <2>1. /\ worker[w].pc = "insert" /\ name \in User /\ Req(w).op \in {"setup", "create"}
        /\ \A u \in User \ {name} : users'[u] = users[u]
        /\ users'[name].id # 0 /\ ~users'[name].disabled
        /\ users'[name].role = IF Req(w).op = "setup" THEN "admin" ELSE "user"
    BY <1>3, CreateUserEffect
  <2>2. CASE Req(w).op = "setup"
    BY <1>2, <2>1, <2>2
  <2>3. CASE Req(w).op = "create"
    <3>1. ~Exists(name) /\ ~NoUsers
      BY <2>1, <2>3 DEF EditInOrder, Unused
    <3>2. PICK u \in ActiveAdmins : TRUE
      BY <3>1
    <3>3. u \in User \ {name} /\ users[u].id # 0 /\ users[u].role = "admin" /\ ~users[u].disabled
      BY <3>1 DEF ActiveAdmins, Exists
    <3>4. QED
      BY <1>2, <2>1, <3>3
  <2>4. QED
    BY <2>1, <2>2, <2>3
<1>4. ASSUME NEW w \in Worker, SaveUser(w) \/ DeleteUser(w) PROVE ActiveAdmins' # {}
  <2>1. worker[w].pc \in {"save", "erase"} /\ Req(w).name \in User /\ EditInOrder(w)
    BY <1>4, SaveUserEffect
  <2>2. ~NoUsers
    BY <2>1 DEF EditInOrder, WithCopy, NoUsers, Exists
  <2>3. QED
    BY <1>2, <1>4, <2>1, <2>2, SaveKeepsAdmin
<1>5. CASE BootstrapAdmin \/ ResetPassword
  <2>1. CASE \E u \in User : users'[u].id # 0 /\ users'[u].role = "admin" /\ ~users'[u].disabled
    BY <1>2, <2>1
  <2>2. CASE \A u \in User : users'[u].id = users[u].id /\ users'[u].role = users[u].role
                              /\ users'[u].disabled = users[u].disabled
    BY <2>2 DEF NoUsers, ActiveAdmins, Exists
  <2>3. QED
    BY <1>5, <2>1, <2>2, OfflineEffect
<1>6. QED
  BY <1>1, <1>3, <1>4, <1>5, UserWrites

\* The records of a system that is in use do not all go.
LEMMA UsersStay ==
  ASSUME Types, Next, ~NoUsers, ActiveAdmins # {}, \A w \in Worker : EditInOrder(w)
  PROVE  ~NoUsers'
<1>1. CASE UNCHANGED users
  BY <1>1 DEF NoUsers, Exists
<1>2. ASSUME NEW u \in User, users'[u].id # 0
      PROVE  ~NoUsers'
  BY <1>2 DEF NoUsers, Exists
<1>3. ASSUME NEW w \in Worker, CreateUser(w) PROVE ~NoUsers'
  BY <1>2, <1>3, CreateUserEffect
<1>4. ASSUME NEW w \in Worker, SaveUser(w) \/ DeleteUser(w) PROVE ~NoUsers'
  BY <1>2, <1>4, SaveKeepsAdmin
<1>5. CASE BootstrapAdmin \/ ResetPassword
  <2>1. CASE \E u \in User : users'[u].id # 0 /\ users'[u].role = "admin" /\ ~users'[u].disabled
    BY <1>2, <2>1
  <2>2. CASE \A u \in User : users'[u].id = users[u].id
    BY <2>2 DEF NoUsers, Exists
  <2>3. QED
    BY <1>5, <2>1, <2>2, OfflineEffect
<1>6. QED
  BY <1>1, <1>3, <1>4, <1>5, UserWrites

\* Before there is a user, a login fails.
LEMMA LoginFails ==
  ASSUME Types, JobInOrder, NoUsers, Unused, NEW w \in Worker,
         Login(w) \/ SessionStep(w) \/ UserStep(w) \/ RedisFails(w)
  PROVE  /\ worker'[w].pc \notin Verifying /\ UNCHANGED sessions
         /\ worker'[w].pc # "idle" => worker'[w].req.op \in {"login", "setup"}
<1> USE DEF At
<1>1. Steps(w)
  BY WorkerSteps
<1>2. worker[w].pc # "idle" /\ Req(w).op \in {"login", "setup"} /\ worker[w].pc \notin Verifying
  BY <1>1 DEF Steps, Unused
<1>3. worker'[w].pc # "idle" => worker'[w].req.op \in {"login", "setup"}
  BY <1>1, <1>2 DEF Steps, IdleWorker
<1>4. Req(w).op \in OpsAt(worker[w].pc)
  BY <1>2, AtStep
<1>5. worker[w].pc \in {"checkLock", "verify", "countFailure", "startWindow", "lock", "dropAttempts", "hasAnyUser",
                        "insert"}
        \/ worker[w].pc \notin LoginSteps \cup {"hasAnyUser", "insert"}
  BY <1>2 DEF Verifying, LoginSteps
<1>6. worker[w].pc \notin {"auth", "refresh", "refreshIndex", "removeFromIndex", "deleteKey", "revoke",
                           "password", "create", "policy", "flag", "list", "prune", "action", "startLimit",
                           "read", "countForDisable", "countForRole", "countForDelete", "erase", "save"}
  BY <1>2, <1>4, OpsTable DEF LoggedIn
<1>7. ~SessionStep(w)
  BY <1>6 DEF SessionStep, Authenticate, RefreshSession, RefreshIndex, Revoke, RemoveFromIndex, DeleteKey,
              ListSessions, PruneIndex, LimitAction, StartLimit
<1>8. CASE UserStep(w)
  <2>1. HasAnyUser(w) \/ CreateUser(w)
    BY <1>6, <1>8 DEF UserStep, CheckName, ReadUser, CountAdmins, SaveUser, DeleteUser, ChangePassword,
                      SetSecurityPolicies, SetSetupCompleted
  <2>2. PICK pc \in {"idle", "insert"} : Goto(w, pc) /\ UNCHANGED sessions
    BY <2>1 DEF HasAnyUser, CreateUser, Done, redisVars
  <2>3. worker'[w].pc = pc
    BY <1>2, <2>2, GotoEffect DEF Ends, Moves, Takes, IdleWorker
  <2>4. QED
    BY <1>3, <2>2, <2>3 DEF Verifying
<1>9. CASE RedisFails(w)
  <2>1. worker[w].pc \in {"checkLock", "countFailure", "startWindow", "lock", "dropAttempts"}
    BY <1>2, <1>6, <1>9 DEF RedisFails, RedisSteps, Verifying
  <2>2. AfterError(w) \in {"verify", "lock", "idle", "dropAttempts"}
    BY <2>1 DEF AfterError
  <2>3. worker'[w].pc = AfterError(w) /\ UNCHANGED sessions
    BY <1>2, <1>9, GotoEffect DEF RedisFails, redisVars, Ends, Moves, Takes, IdleWorker
  <2>4. QED
    BY <1>3, <2>2, <2>3 DEF Verifying
<1>10. CASE Login(w)
  <2>1. CASE Verify(w)
    <3>1. ~Verified(w)
      BY <2>1, VerifyEffect DEF Verified, NoUsers
    <3>2. worker'[w].pc = "countFailure"
      BY <2>1, <3>1, VerifyEffect DEF Takes
    <3>3. QED
      BY <1>3, <2>1, <3>2 DEF Verify, redisVars, Verifying
  <2>2. CASE CountFailure(w)
    BY <1>3, <2>2, CountFailureEffect DEF Ends, Takes, IdleWorker, Verifying
  <2>3. CASE CheckLock(w) \/ StartWindow(w) \/ Lock(w) \/ DropAttempts(w)
    <3>1. PICK pc \in {"idle", "verify", "lock", "dropAttempts"} : Goto(w, pc) /\ UNCHANGED sessions
      BY <1>2, <2>3 DEF CheckLock, StartWindow, Lock, DropAttempts, Done, redisVars, Verifying
    <3>2. worker'[w].pc = pc
      BY <1>2, <3>1, GotoEffect DEF Ends, Moves, Takes, IdleWorker
    <3>3. QED
      BY <1>3, <3>1, <3>2 DEF Verifying
  <2>4. QED
    BY <1>2, <1>10, <2>1, <2>2, <2>3 DEF Login, CreateSession, AddToIndex, NewSessionExpiry, Verifying
<1>11. QED
  BY <1>7, <1>8, <1>9, <1>10

\* Nobody is logged in before there is a user.
LEMMA NextUnused ==
  ASSUME Types, JobInOrder, SessionsInOrder, Next, Unused, NoUsers \/ ActiveAdmins # {},
         \A w \in Worker : EditInOrder(w)
  PROVE  Unused'
<1>1. SUFFICES ASSUME NoUsers'
               PROVE  /\ \A t \in Token : sessions'[t].state = "free"
                      /\ \A w \in Worker : worker'[w].pc # "idle" =>
                            worker'[w].req.op \in {"login", "setup"} /\ worker'[w].pc \notin Verifying
  BY DEF Unused, Req
<1>2. NoUsers
  BY <1>1, UsersStay
<1>3. /\ \A t \in Token : sessions[t].state = "free"
      /\ \A w \in Worker : worker[w].pc # "idle" =>
            worker[w].req.op \in {"login", "setup"} /\ worker[w].pc \notin Verifying
  BY <1>2 DEF Unused, Req
<1>4. ASSUME NEW w \in Worker, Login(w) \/ SessionStep(w) \/ UserStep(w) \/ RedisFails(w)
      PROVE  /\ UNCHANGED sessions
             /\ \A v \in Worker : worker'[v].pc # "idle" =>
                   worker'[v].req.op \in {"login", "setup"} /\ worker'[v].pc \notin Verifying
  <2>1. OthersKeep(w)
    BY <1>4, WorkerSteps DEF Steps
  <2>2. QED
    BY <1>2, <1>3, <1>4, <2>1, LoginFails DEF OthersKeep
<1>5. ASSUME NEW w \in Worker, NEW req \in Requests, Accept(w, req)
      PROVE  /\ UNCHANGED sessions
             /\ \A v \in Worker : worker'[v].pc # "idle" =>
                   worker'[v].req.op \in {"login", "setup"} /\ worker'[v].pc \notin Verifying
  <2>1. req \in Request
    BY AccountsAssumption
  <2>2. req.op \in {"login", "setup"}
    <3>1. SUFFICES ASSUME req.op \notin {"login", "setup"} PROVE FALSE
      OBVIOUS
    <3>2. req.token \in Token /\ sessions[req.token].state # "free"
      BY <1>5, <2>1, <3>1, RequestFields, AcceptEffect
    <3>3. QED
      BY <1>3, <3>2
  <2>3. OthersKeep(w) /\ worker'[w].req = req /\ worker'[w].pc = FirstStep(req) /\ UNCHANGED sessions
    BY <1>5, AcceptEffect DEF redisVars
  <2>4. FirstStep(req) \notin Verifying
    BY DEF FirstStep, Verifying
  <2>5. QED
    BY <1>3, <2>2, <2>3, <2>4 DEF OthersKeep
<1>6. CASE BootstrapAdmin \/ ResetPassword
  BY <1>3, <1>6 DEF BootstrapAdmin, ResetPassword, redisVars
<1>7. CASE Time
  <2>1. ~Hour
    BY <1>3 DEF Hour, Live
  <2>2. UNCHANGED <<sessions, worker>>
    BY <1>7, <2>1 DEF Time, LimitEnds, LockEnds, WindowEnds
  <2>3. QED
    BY <1>3, <2>2
<1>8. CASE Crash
  BY <1>3, <1>8 DEF Crash, redisVars, IdleWorker
<1>9. QED
  BY <1>3, <1>4, <1>5, <1>6, <1>7, <1>8 DEF Next

\* One request changes users at a time, or it is known that two did.
LEMMA NextEditor ==
  ASSUME Types, JobInOrder, Next, ~overlapped', ~overlapped => OneEditor
  PROVE  ~overlapped /\ OneEditor'
<1>1. CASE UNCHANGED <<worker, auxVars>>
  BY <1>1 DEF OneEditor, Editing, Req, auxVars
<1>2. ASSUME NEW w \in Worker, Login(w) \/ SessionStep(w) \/ UserStep(w) \/ RedisFails(w)
      PROVE  ~overlapped /\ OneEditor'
  <2>1. Steps(w)
    BY <1>2, WorkerSteps
  <2>2. overlapped' = overlapped
    BY <1>2 DEF Login, CheckLock, Verify, CountFailure, StartWindow, Lock, DropAttempts, CreateSession,
              AddToIndex, NewSessionExpiry, SessionStep, Authenticate, RefreshSession, RefreshIndex, Revoke,
              RemoveFromIndex, DeleteKey, ListSessions, PruneIndex, LimitAction, StartLimit,
              UserStep, HasAnyUser, CheckName, CreateUser, ReadUser, CountAdmins, SaveUser, DeleteUser,
              ChangePassword, SetSecurityPolicies, SetSetupCompleted, RedisFails, auxVars
  <2>3. \A v \in Worker : Editing(v)' => Editing(v)
    BY <2>1 DEF Steps, OthersKeep, Editing, Req, IdleWorker
  <2>4. QED
    BY <2>2, <2>3 DEF OneEditor
<1>3. ASSUME NEW w \in Worker, NEW req \in Requests, Accept(w, req)
      PROVE  ~overlapped /\ OneEditor'
  <2>1. /\ OthersKeep(w) /\ worker'[w].req = req /\ worker[w] = IdleWorker
        /\ ~overlapped /\ (req.op \in UserEdits => \A v \in Worker : ~Editing(v))
    BY <1>3, AcceptEffect
  <2>2. \A v \in Worker \ {w} : Editing(v)' <=> Editing(v)
    BY <2>1 DEF OthersKeep, Editing, Req
  <2>3. Editing(w)' => req.op \in UserEdits
    BY <2>1 DEF Editing, Req
  <2>4. QED
    BY <2>1, <2>2, <2>3 DEF OneEditor
<1>4. CASE BootstrapAdmin \/ ResetPassword \/ Time
  BY <1>1, <1>4 DEF BootstrapAdmin, ResetPassword, Time, Hour, LimitEnds, LockEnds, WindowEnds
<1>5. CASE Crash
  BY <1>5 DEF Crash, OneEditor, Editing, IdleWorker, auxVars
<1>6. QED
  BY <1>2, <1>3, <1>4, <1>5 DEF Next

\* Who changes users still has the records as they are.
LEMMA NextEdits ==
  ASSUME Types, JobInOrder, Next, OneEditor, \A w \in Worker : EditInOrder(w)
  PROVE  \A w \in Worker : EditInOrder(w)'
<1>1. ASSUME NEW v \in Worker, worker'[v] = worker[v], UNCHANGED users PROVE EditInOrder(v)'
  BY <1>1, EditStays
<1>2. ASSUME NEW w \in Worker, Login(w) \/ SessionStep(w) \/ UserStep(w) \/ RedisFails(w), NEW v \in Worker
      PROVE  EditInOrder(v)'
  <2>1. Steps(w)
    BY <1>2, WorkerSteps
  <2>2. CASE v = w
    BY <1>2, <2>2, StepEdit
  <2>3. CASE v # w
    <3>1. worker'[v] = worker[v]
      BY <2>1, <2>3 DEF Steps, OthersKeep
    <3>2. CASE UNCHANGED users
      BY <1>1, <3>1, <3>2
    <3>3. CASE CreateUser(w) \/ SaveUser(w) \/ DeleteUser(w)
      <4>1. worker[w].pc \in WithCopy \cup {"insert"}
        BY <3>3, CreateUserEffect, SaveUserEffect DEF WithCopy
      <4>2. worker[v].pc \notin WithCopy \cup {"insert"}
        BY <2>3, <4>1, EditingSteps DEF OneEditor
      <4>3. QED
        BY <3>1, <4>2, EditNothing
    <3>4. UNCHANGED users \/ CreateUser(w) \/ SaveUser(w) \/ DeleteUser(w)
      BY <1>2 DEF Login, CheckLock, Verify, CountFailure, StartWindow, Lock, DropAttempts, CreateSession,
              AddToIndex, NewSessionExpiry, SessionStep, Authenticate, RefreshSession, RefreshIndex, Revoke,
              RemoveFromIndex, DeleteKey, ListSessions, PruneIndex, LimitAction, StartLimit,
              UserStep, HasAnyUser, CheckName, ReadUser, CountAdmins, ChangePassword, SetSecurityPolicies,
              SetSetupCompleted, RedisFails, boltVars
    <3>5. QED
      BY <3>2, <3>3, <3>4
  <2>4. QED
    BY <2>2, <2>3
<1>3. ASSUME NEW w \in Worker, NEW req \in Requests, Accept(w, req), NEW v \in Worker
      PROVE  EditInOrder(v)'
  <2>1. OthersKeep(w) /\ worker'[w].pc = FirstStep(req) /\ UNCHANGED users
    BY <1>3, AcceptEffect DEF boltVars
  <2>2. FirstStep(req) \notin WithCopy \cup {"insert"}
    BY DEF FirstStep, WithCopy
  <2>3. QED
    BY <1>1, <2>1, <2>2, EditNothing DEF OthersKeep
<1>4. CASE BootstrapAdmin \/ ResetPassword
  <2>1. ASSUME NEW v \in Worker PROVE worker'[v].pc \notin WithCopy \cup {"insert"}
    BY <1>4, OfflineEffect DEF WithCopy
  <2>2. QED
    BY <2>1, EditNothing
<1>5. CASE Time
  BY <1>1, <1>5 DEF Time, Hour, LimitEnds, LockEnds, WindowEnds, boltVars
<1>6. CASE Crash
  <2>1. ASSUME NEW v \in Worker PROVE worker'[v].pc \notin WithCopy \cup {"insert"}
    BY <1>6 DEF Crash, IdleWorker, WithCopy
  <2>2. QED
    BY <2>1, EditNothing
<1>7. QED
  BY <1>2, <1>3, <1>4, <1>5, <1>6 DEF Next

\* The users stay in order.
LEMMA NextUsers ==
  ASSUME Types, JobInOrder, SessionsInOrder, UsersInOrder, Next
  PROVE  UsersInOrder'
<1>1. SUFFICES ASSUME ~overlapped'
               PROVE  OneEditor' /\ (\A w \in Worker : EditInOrder(w)') /\ Unused' /\ (NoUsers' \/ ActiveAdmins' # {})
  BY DEF UsersInOrder
<1>2. ~overlapped /\ OneEditor'
  BY <1>1, NextEditor DEF UsersInOrder
<1>3. OneEditor /\ (\A w \in Worker : EditInOrder(w)) /\ Unused /\ (NoUsers \/ ActiveAdmins # {})
  BY <1>2 DEF UsersInOrder
<1>4. QED
  BY <1>2, <1>3, NextEdits, NextUnused, NextAdmin
-----------------------------------------------------------------------------
(* A live session is listed. *)

\* Without a fault and a new lifetime, the lifetime is the same throughout.
LEMMA Calm ==
  ASSUME Types, Next, faults' = 0, ~repoliced'
  PROVE  faults = 0 /\ ~repoliced /\ ttl' = ttl /\ ~Crash /\ \A w \in Worker : ~RedisFails(w)
<1> USE DEF boltVars, boundVars, auxVars
<1>1. ~Crash /\ \A w \in Worker : ~RedisFails(w)
  BY DEF Crash, RedisFails, Types, BoundTypes
<1>2. ASSUME NEW w \in Worker, Login(w) \/ SessionStep(w)
      PROVE  UNCHANGED <<faults, repoliced, ttl>>
  BY <1>2 DEF Login, CheckLock, Verify, CountFailure, StartWindow, Lock, DropAttempts, CreateSession,
              AddToIndex, NewSessionExpiry, SessionStep, Authenticate, RefreshSession, RefreshIndex, Revoke,
              RemoveFromIndex, DeleteKey, ListSessions, PruneIndex, LimitAction, StartLimit
<1>3. ASSUME NEW w \in Worker, UserStep(w)
      PROVE  UNCHANGED <<faults, ttl>> /\ ~repoliced
  <2>1. CASE SetSecurityPolicies(w)
    BY <2>1 DEF SetSecurityPolicies, StoreSecurityPolicies
  <2>2. CASE ~SetSecurityPolicies(w)
    BY <1>3, <2>2 DEF UserStep, HasAnyUser, CheckName, CreateUser, ReadUser, CountAdmins, SaveUser, DeleteUser,
                      ChangePassword, SetSetupCompleted
  <2>3. QED
    BY <2>1, <2>2
<1>4. ASSUME NEW w \in Worker, NEW req \in Requests, Accept(w, req) PROVE UNCHANGED <<faults, repoliced, ttl>>
  BY <1>4 DEF Accept
<1>5. ASSUME BootstrapAdmin \/ ResetPassword \/ Time PROVE UNCHANGED <<faults, repoliced, ttl>>
  BY <1>5 DEF BootstrapAdmin, ResetPassword, Time, Hour, LimitEnds, LockEnds, WindowEnds
<1>6. QED
  BY <1>1, <1>2, <1>3, <1>4, <1>5 DEF Next

\* Every request works with the lifetime there is.
LEMMA NextLifetime ==
  ASSUME Types, JobInOrder, Next, ~Crash, ttl' = ttl, \A w \in Worker : worker[w].pc # "idle" => worker[w].ttl = ttl
  PROVE  \A w \in Worker : worker'[w].pc # "idle" => worker'[w].ttl = ttl
<1>1. CASE UNCHANGED worker
  BY <1>1
<1>2. ASSUME NEW w \in Worker, Steps(w), NEW v \in Worker, worker'[v].pc # "idle" PROVE worker'[v].ttl = ttl
  BY <1>2 DEF Steps, OthersKeep, IdleWorker
<1>3. ASSUME NEW w \in Worker, NEW req \in Requests, Accept(w, req), NEW v \in Worker, worker'[v].pc # "idle"
      PROVE  worker'[v].ttl = ttl
  BY <1>3, AcceptEffect DEF OthersKeep
<1>4. QED
  BY <1>1, <1>2, <1>3, WorkersChange

\* What a goroutine has in hand it has until it takes its step.
LEMMA HandsKeep ==
  ASSUME NEW w \in Worker, OthersKeep(w)
  PROVE  /\ \A t \in Token : InHand(t) => InHand(t)'
                \/ (worker[w].pc \in {"addToIndex", "deleteKey"} /\ t \in worker[w].tokens)
         /\ \A i \in Id : Renewing(i) => Renewing(i)' \/ (worker[w].pc \in RenewSteps /\ worker[w].by.id = i)
<1>1. ASSUME NEW t \in Token, InHand(t)
      PROVE  InHand(t)' \/ (worker[w].pc \in {"addToIndex", "deleteKey"} /\ t \in worker[w].tokens)
  BY <1>1 DEF InHand, OthersKeep
<1>2. ASSUME NEW i \in Id, Renewing(i)
      PROVE  Renewing(i)' \/ (worker[w].pc \in RenewSteps /\ worker[w].by.id = i)
  BY <1>2 DEF Renewing, OthersKeep
<1>3. QED
  BY <1>1, <1>2

\* A live session is one of a user.
LEMMA LiveIsOf ==
  ASSUME Types, SessionsInOrder, NEW t \in Token, Live(t)
  PROVE  sessions[t].id \in Id /\ sessions[t].left \in 1..Forever - 1
<1>1. sessions[t] \in Session /\ sessions[t].id # 0 /\ sessions[t].left > 0
  BY DEF Types, RedisTypes, SessionsInOrder
<1>2. QED
  BY <1>1, Lifetimes DEF Session, Id

\* What is to be shown of a session after a step.
LEMMA ListedNow ==
  ASSUME NEW t \in Token, NEW i, sessions'[t].id = i,
         sessions'[t].state = "live" =>
            /\ sessions'[t].left <= ttl'
            /\ t \in index'[i].tokens \/ InHand(t)'
            /\ t \in index'[i].tokens => sessions'[t].left <= index'[i].left \/ Renewing(i)'
  PROVE  ListedInTime(t)'
BY DEF ListedInTime, Live, Listed, Renewing

\* A step that touches neither the sessions nor the index, nor what is in hand.
LEMMA ListsStay ==
  ASSUME Types, SessionsInOrder, \A t \in Token : ListedInTime(t), UNCHANGED <<sessions, index, ttl>>,
         UNCHANGED worker \/ \E w \in Worker : OthersKeep(w)
                                /\ worker[w].pc \notin {"addToIndex", "deleteKey"} \cup RenewSteps
  PROVE  \A t \in Token : ListedInTime(t)'
<1> SUFFICES ASSUME NEW t \in Token, Live(t) PROVE ListedInTime(t)'
  BY DEF ListedInTime, Live
<1>1. PICK i \in Id : i = sessions[t].id
  BY LiveIsOf
<1>2. InHand(t) => InHand(t)'
  BY HandsKeep DEF InHand
<1>3. Renewing(i) => Renewing(i)'
  BY HandsKeep DEF Renewing
<1>4. QED
  BY <1>1, <1>2, <1>3, ListedNow DEF ListedInTime, Listed

\* The steps that do touch them.
Touches(w) ==
  \/ RefreshSession(w) \/ DeleteKey(w) \/ (\E t \in Token : CreateSession(w, t))
  \/ RefreshIndex(w) \/ NewSessionExpiry(w) \/ AddToIndex(w) \/ RemoveFromIndex(w) \/ PruneIndex(w)

\* All others leave what is in hand, too.
LEMMA OtherSteps ==
  ASSUME Types, JobInOrder, Next, ~Crash, ~Hour, \A w \in Worker : ~RedisFails(w) /\ ~Touches(w)
  PROVE  /\ UNCHANGED <<sessions, index>>
         /\ UNCHANGED worker \/ \E w \in Worker : OthersKeep(w)
               /\ worker[w].pc \notin {"addToIndex", "deleteKey"} \cup RenewSteps
<1> USE DEF At
<1>1. UNCHANGED <<sessions, index>>
  BY SessionSteps2, IndexSteps DEF Touches
<1>2. ASSUME NEW w \in Worker, Login(w) \/ SessionStep(w) \/ UserStep(w)
      PROVE  OthersKeep(w) /\ worker[w].pc \notin {"addToIndex", "deleteKey"} \cup RenewSteps
  <2>1. OthersKeep(w)
    BY <1>2, WorkerSteps DEF Steps
  <2>2. CASE Login(w)
    BY <2>1, <2>2 DEF Touches, Login, CheckLock, Verify, CountFailure, StartWindow, Lock, DropAttempts, RenewSteps
  <2>3. CASE SessionStep(w)
    BY <2>1, <2>3 DEF Touches, SessionStep, Authenticate, Revoke, ListSessions, LimitAction, StartLimit, RenewSteps
  <2>4. CASE UserStep(w)
    BY <2>1, <2>4 DEF UserStep, HasAnyUser, CheckName, CreateUser, ReadUser, CountAdmins, SaveUser, DeleteUser,
                      ChangePassword, SetSecurityPolicies, SetSetupCompleted, RenewSteps
  <2>5. QED
    BY <1>2, <2>2, <2>3, <2>4
<1>3. ASSUME NEW w \in Worker, NEW req \in Requests, Accept(w, req)
      PROVE  OthersKeep(w) /\ worker[w].pc \notin {"addToIndex", "deleteKey"} \cup RenewSteps
  BY <1>3, AcceptEffect DEF IdleWorker, RenewSteps
<1>4. ASSUME BootstrapAdmin \/ ResetPassword \/ Time PROVE UNCHANGED worker
  BY <1>4 DEF BootstrapAdmin, ResetPassword, Time, Hour, LimitEnds, LockEnds, WindowEnds
<1>5. QED
  BY <1>1, <1>2, <1>3, <1>4 DEF Next

\* A step on a session or on an index leaves every live session listed.
LEMMA TouchesLists ==
  ASSUME Types, JobInOrder, SessionsInOrder, NEW w \in Worker, Touches(w), ttl' = ttl,
         \A v \in Worker : worker[v].pc # "idle" => worker[v].ttl = ttl,
         \A k \in Token : ListedInTime(k), NEW t \in Token
  PROVE  ListedInTime(t)'
<1>1. ttl \in 1..Forever - 1
  BY Lifetimes DEF Types, BoltTypes
<1>2. CASE RefreshSession(w)
  <2>1. /\ worker[w].pc = "refresh" /\ worker[w].ttl = ttl /\ index' = index
        /\ sessions'[t].state = sessions[t].state /\ sessions'[t].id = sessions[t].id
        /\ sessions'[t].left = sessions[t].left \/ (Live(t) /\ t = Req(w).token /\ sessions'[t].left = ttl)
        /\ OthersKeep(w) /\ worker'[w].pc = "refreshIndex" /\ worker'[w].by = worker[w].by
    BY <1>2, RefreshSessionEffect DEF Moves, Takes
  <2>2. SUFFICES ASSUME Live(t) PROVE ListedInTime(t)'
    BY <2>1 DEF ListedInTime, Live
  <2>3. PICK i \in Id : i = sessions[t].id
    BY <2>2, LiveIsOf
  <2>4. InHand(t) => InHand(t)'
    BY <2>1, HandsKeep
  <2>5. Renewing(i) => Renewing(i)'
    BY <2>1, HandsKeep DEF RenewSteps
  <2>6. t = Req(w).token => Renewing(i)'
    <3>1. t = Req(w).token => worker[w].by.id = i
      BY <2>1, <2>2, <2>3 DEF JobInOrder, JobSound, IsOf
    <3>2. QED
      BY <2>1, <3>1 DEF Renewing, RenewSteps
  <2>7. sessions'[t].left <= ttl
    BY <1>1, <2>1, <2>2 DEF ListedInTime
  <2>8. QED
    BY <2>1, <2>2, <2>3, <2>4, <2>5, <2>6, <2>7, ListedNow DEF ListedInTime, Listed
<1>3. CASE DeleteKey(w)
  <2>1. /\ worker[w].pc = "deleteKey" /\ index' = index /\ OthersKeep(w)
        /\ IF t \in worker[w].tokens THEN sessions'[t].state = "over" ELSE sessions'[t] = sessions[t]
    BY <1>3, DeleteKeyEffect DEF Ends
  <2>2. SUFFICES ASSUME Live(t), t \notin worker[w].tokens PROVE ListedInTime(t)'
    BY <2>1 DEF ListedInTime, Live
  <2>3. PICK i \in Id : i = sessions[t].id
    BY <2>2, LiveIsOf
  <2>4. InHand(t) => InHand(t)'
    BY <2>1, <2>2, HandsKeep
  <2>5. Renewing(i) => Renewing(i)'
    BY <2>1, HandsKeep DEF RenewSteps
  <2>6. QED
    BY <2>1, <2>2, <2>3, <2>4, <2>5, ListedNow DEF ListedInTime, Listed
<1>4. ASSUME NEW new \in Token, CreateSession(w, new) PROVE ListedInTime(t)'
  <2>1. /\ worker[w].pc = "createSession" /\ index' = index /\ OthersKeep(w)
        /\ sessions[new].state = "free" /\ \A k \in Token \ {new} : sessions'[k] = sessions[k]
        /\ sessions'[new].left = worker[w].ttl
        /\ worker'[w].pc = "addToIndex" /\ worker'[w].by = sessions'[new] /\ worker'[w].tokens = {new}
    BY <1>4, CreateSessionEffect DEF Takes
  <2>2. worker[w].ttl = ttl
    BY <2>1
  <2>3. CASE t = new
    <3>1. sessions'[t].left <= ttl'
      BY <1>1, <2>1, <2>2, <2>3
    <3>2. InHand(t)'
      BY <2>1, <2>3 DEF InHand
    <3>3. \E v \in Worker : worker'[v].pc \in RenewSteps /\ worker'[v].by.id = sessions'[t].id
      BY <2>1, <2>3 DEF RenewSteps
    <3>4. QED
      BY <3>1, <3>2, <3>3 DEF ListedInTime, Renewing
  <2>4. CASE t # new
    <3>1. SUFFICES ASSUME Live(t) PROVE ListedInTime(t)'
      BY <2>1, <2>4 DEF ListedInTime, Live
    <3>2. PICK i \in Id : i = sessions[t].id
      BY <3>1, LiveIsOf
    <3>3. (InHand(t) => InHand(t)') /\ (Renewing(i) => Renewing(i)')
      BY <2>1, HandsKeep DEF RenewSteps
    <3>4. QED
      BY <2>1, <2>4, <3>1, <3>2, <3>3, ListedNow DEF ListedInTime, Listed
  <2>5. QED
    BY <2>3, <2>4
<1>5. CASE RefreshIndex(w) \/ NewSessionExpiry(w)
  <2>1. worker[w].pc \in {"refreshIndex", "expireIndex"} /\ Renews(w) /\ OthersKeep(w)
    <3>1. worker[w].pc \in {"refreshIndex", "expireIndex"} /\ Renews(w)
      BY <1>5, RenewEffect
    <3>2. OthersKeep(w)
      BY <1>5, WorkerSteps DEF Steps, Login, SessionStep
    <3>3. QED
      BY <3>1, <3>2
  <2> DEFINE id == worker[w].by.id
  <2>2. /\ worker[w].ttl = ttl /\ sessions' = sessions
        /\ \A i \in Id : index'[i].tokens = index[i].tokens
        /\ \A i \in Id \ {id} : index'[i].left = index[i].left
        /\ id \in Id /\ index'[id].left = IF index[id].left = 0 THEN 0 ELSE ttl
    BY <2>1 DEF Renews
  <2>3. SUFFICES ASSUME Live(t) PROVE ListedInTime(t)'
    BY <2>2 DEF ListedInTime, Live
  <2>4. PICK i \in Id : i = sessions[t].id
    BY <2>3, LiveIsOf
  <2>5. InHand(t) => InHand(t)'
    BY <2>1, HandsKeep
  <2>6. t \in index[i].tokens => index[i].left # 0
    BY <2>4 DEF SessionsInOrder
  <2>7. CASE i = id
    <3>1. t \in index'[i].tokens => index'[i].left = ttl
      BY <2>2, <2>6, <2>7
    <3>2. QED
      BY <2>2, <2>3, <2>4, <2>5, <3>1, ListedNow DEF ListedInTime, Listed
  <2>8. CASE i # id
    <3>1. Renewing(i) => Renewing(i)'
      BY <2>1, <2>8, HandsKeep
    <3>2. QED
      BY <2>2, <2>3, <2>4, <2>5, <2>8, <3>1, ListedNow DEF ListedInTime, Listed
  <2>9. QED
    BY <2>7, <2>8
<1>6. CASE AddToIndex(w)
  <2> DEFINE id == worker[w].by.id
  <2>1. /\ worker[w].pc = "addToIndex" /\ sessions' = sessions /\ OthersKeep(w) /\ id \in Id
        /\ \A i \in Id \ {id} : index'[i] = index[i]
        /\ index'[id].tokens = index[id].tokens \cup worker[w].tokens
        /\ worker'[w].pc = "expireIndex" /\ worker'[w].by = worker[w].by
    BY <1>6, AddToIndexEffect DEF Moves, Takes
  <2>2. SUFFICES ASSUME Live(t) PROVE ListedInTime(t)'
    BY <2>1 DEF ListedInTime, Live
  <2>3. PICK i \in Id : i = sessions[t].id
    BY <2>2, LiveIsOf
  <2>4. t \in worker[w].tokens => i = id
    BY <2>1, <2>2, <2>3 DEF JobInOrder, JobSound, IsOf
  <2>5. Listed(t) \/ InHand(t) => t \in index'[i].tokens \/ InHand(t)'
    <3>1. InHand(t) => InHand(t)' \/ t \in worker[w].tokens
      BY <2>1, HandsKeep
    <3>2. t \in worker[w].tokens => t \in index'[i].tokens
      BY <2>1, <2>4
    <3>3. Listed(t) => t \in index'[i].tokens
      BY <2>1, <2>3 DEF Listed
    <3>4. QED
      BY <3>1, <3>2, <3>3
  <2>6. i = id => Renewing(i)'
    BY <2>1 DEF Renewing, RenewSteps
  <2>7. i # id => index'[i] = index[i] /\ (Renewing(i) => Renewing(i)')
    BY <2>1, <2>3, HandsKeep
  <2>8. sessions'[t].left <= ttl' /\ sessions'[t].id = i
    BY <2>1, <2>2, <2>3 DEF ListedInTime
  <2>9. t \in index'[i].tokens => sessions'[t].left <= index'[i].left \/ Renewing(i)'
    BY <2>1, <2>2, <2>3, <2>6, <2>7 DEF ListedInTime, Listed
  <2>10. QED
    BY <2>2, <2>5, <2>8, <2>9, ListedNow DEF ListedInTime
<1>7. CASE RemoveFromIndex(w) \/ PruneIndex(w)
  <2>1. /\ worker[w].pc \in {"removeFromIndex", "prune"} /\ sessions' = sessions
        /\ Removes(w) \/ index' = index
        /\ RemoveFromIndex(w) => worker[w].pc = "removeFromIndex"
        /\ PruneIndex(w) => worker[w].pc = "prune"
    BY <1>7, RemoveEffect DEF Removes, redisVars
  <2>2. OthersKeep(w)
    BY <1>7, WorkerSteps DEF Steps, SessionStep
  <2>3. SUFFICES ASSUME Live(t) PROVE ListedInTime(t)'
    BY <2>1 DEF ListedInTime, Live
  <2>4. PICK i \in Id : i = sessions[t].id
    BY <2>3, LiveIsOf
  <2>5. (InHand(t) => InHand(t)') /\ (Renewing(i) => Renewing(i)')
    BY <2>1, <2>2, HandsKeep DEF RenewSteps
  <2>6. t \in worker[w].tokens => InHand(t)'
    <3>1. CASE RemoveFromIndex(w)
      BY <3>1, RemoveEffect DEF InHand, Moves, Takes
    <3>2. CASE PruneIndex(w)
      BY <2>1, <2>3, <3>2 DEF JobInOrder, JobSound, Live
    <3>3. QED
      BY <1>7, <3>1, <3>2
  <2>7. t \in index'[i].tokens => t \in index[i].tokens /\ index'[i].left = index[i].left
    <3>1. CASE Removes(w)
      BY <2>4, <3>1 DEF Removes
    <3>2. QED
      BY <2>1, <3>1
  <2>8. t \in index[i].tokens => t \in index'[i].tokens \/ t \in worker[w].tokens
    <3>1. CASE Removes(w)
      BY <2>4, <3>1 DEF Removes
    <3>2. QED
      BY <2>1, <3>1
  <2>9. QED
    BY <2>1, <2>3, <2>4, <2>5, <2>6, <2>7, <2>8, ListedNow DEF ListedInTime, Listed
<1>8. QED
  BY <1>2, <1>3, <1>4, <1>5, <1>6, <1>7 DEF Touches

\* An hour passes for a session and for its index.
LEMMA HourLists ==
  ASSUME Types, SessionsInOrder, Hour, \A k \in Token : ListedInTime(k), NEW t \in Token
  PROVE  ListedInTime(t)'
<1>1. /\ \A w \in Worker : worker[w].pc = "idle"
      /\ index' \in [Id -> Members] /\ \A i \in Id : AgesIndex(i)
      /\ Ages(t) \/ (~Live(t) /\ sessions'[t] = sessions[t])
      /\ ttl' = ttl
  BY HourEffect DEF boltVars
<1>2. SUFFICES ASSUME Live(t), sessions'[t].state = "live" PROVE ListedInTime(t)'
  BY <1>1 DEF ListedInTime, Live, Ages
<1>3. PICK i \in Id : i = sessions[t].id
  BY <1>2, LiveIsOf
<1>4. ~InHand(t) /\ ~Renewing(i)
  BY <1>1 DEF InHand, Renewing, RenewSteps
<1>5. sessions[t].left <= ttl /\ t \in index[i].tokens /\ sessions[t].left <= index[i].left
  BY <1>2, <1>3, <1>4 DEF ListedInTime, Listed
<1>6. sessions'[t].id = i /\ sessions'[t].left = sessions[t].left - 1 /\ sessions[t].left # 1
  BY <1>1, <1>2, <1>3 DEF Ages
<1>7. sessions[t].left \in 2..Forever - 1 /\ index[i].left \in 0..Forever /\ ttl \in Nat /\ Forever \in Nat
  BY <1>2, <1>3, <1>6, LiveIsOf, Lifetimes DEF Types, RedisTypes, BoltTypes, Members
<1>8. Aged(index[i].left) >= sessions[t].left - 1 /\ Aged(index[i].left) # 0
  BY <1>5, <1>7 DEF Aged
<1>9. index'[i].tokens = index[i].tokens /\ index'[i].left = Aged(index[i].left)
  BY <1>1, <1>8 DEF AgesIndex
<1>10. sessions'[t].left <= ttl' /\ sessions'[t].left <= index'[i].left
  BY <1>1, <1>5, <1>6, <1>7, <1>8, <1>9
<1>11. QED
  BY <1>5, <1>6, <1>9, <1>10, ListedNow

\* Every live session stays listed.
LEMMA NextLists ==
  ASSUME Types, JobInOrder, SessionsInOrder, ListsInOrder, Next
  PROVE  ListsInOrder'
<1>1. SUFFICES ASSUME faults' = 0, ~repoliced'
               PROVE  /\ \A w \in Worker : worker'[w].pc # "idle" => worker'[w].ttl = ttl'
                      /\ \A t \in Token : ListedInTime(t)'
  BY DEF ListsInOrder
<1>2. faults = 0 /\ ~repoliced /\ ttl' = ttl /\ ~Crash /\ \A w \in Worker : ~RedisFails(w)
  BY <1>1, Calm
<1>3. (\A w \in Worker : worker[w].pc # "idle" => worker[w].ttl = ttl) /\ \A t \in Token : ListedInTime(t)
  BY <1>2 DEF ListsInOrder
<1>4. \A w \in Worker : worker'[w].pc # "idle" => worker'[w].ttl = ttl'
  BY <1>2, <1>3, NextLifetime
<1>5. CASE Hour
  BY <1>3, <1>4, <1>5, HourLists
<1>6. ASSUME NEW w \in Worker, Touches(w) PROVE \A t \in Token : ListedInTime(t)'
  BY <1>2, <1>3, <1>6, TouchesLists
<1>7. CASE ~Hour /\ \A w \in Worker : ~Touches(w)
  BY <1>2, <1>3, <1>4, <1>7, OtherSteps, ListsStay
<1>8. QED
  BY <1>4, <1>5, <1>6, <1>7
-----------------------------------------------------------------------------
(* What holds in every state. *)

\* The numbers and the tokens of the users of a system in use.
LEMMA UserNumbers ==
  /\ (CHOOSE f \in Injection(User, 1..Cardinality(User)) : TRUE) \in Injection(User, Id)
  /\ (CHOOSE f \in Injection(User, Token) : TRUE) \in Injection(User, Token)
  /\ Cardinality(User) \in 0..MaxIds
<1>1. IsFiniteSet(User) /\ Cardinality(User) <= MaxIds
  BY AccountsAssumption
<1>2. Cardinality(User) \in Nat /\ ExistsBijection(1..Cardinality(User), User)
  BY <1>1, FS_CardinalityType
<1>3. ExistsBijection(User, 1..Cardinality(User))
  BY <1>2, Fun_ExistsBijSymmetric
<1>4. Injection(User, 1..Cardinality(User)) # {}
  BY <1>3 DEF ExistsBijection, Bijection
<1> DEFINE f == CHOOSE g \in Injection(User, 1..Cardinality(User)) : TRUE
<1>5. f \in Injection(User, 1..Cardinality(User))
  BY <1>4
<1> HIDE DEF f
<1>6. 1..Cardinality(User) \subseteq Id /\ Cardinality(User) \in 0..MaxIds
  BY <1>1, <1>2, Lifetimes DEF Id
<1>7. f \in Injection(User, Id)
  BY <1>5, <1>6 DEF Injection
<1>8. (CHOOSE g \in Injection(User, Token) : TRUE) \in Injection(User, Token)
  BY AccountsAssumption
<1>9. QED
  BY <1>6, <1>7, <1>8 DEF f

\* A system in use: every user has a session and an index with it.
LEMMA InUseStart ==
  ASSUME InUse, ttl \in TTL
  PROVE  \E id \in Injection(User, Id), token \in Injection(User, Token) :
           /\ ids \in 0..MaxIds
           /\ users \in [User -> Account]
           /\ \A u \in User : users[u].id = id[u] /\ users[u].role = "admin" /\ ~users[u].disabled
           /\ sessions \in [Token -> Session]
           /\ \A t \in Token : \/ sessions[t] = FreeToken /\ \A u \in User : token[u] # t
                               \/ \E u \in User : /\ token[u] = t /\ sessions[t].state = "live"
                                                  /\ sessions[t].id = id[u] /\ sessions[t].left = ttl
           /\ index \in [Id -> Members]
           /\ \A i \in Id : \/ index[i] = NoIndex /\ \A u \in User : id[u] # i
                            \/ /\ index[i].left = ttl
                               /\ \E u \in User : id[u] = i /\ index[i].tokens = {token[u]}
<1> DEFINE id == CHOOSE f \in Injection(User, 1..Cardinality(User)) : TRUE
           token == CHOOSE f \in Injection(User, Token) : TRUE
           Of(i) == {u \in User : id[u] = i}
<1>1. /\ ids = Cardinality(User)
      /\ users = [u \in User |-> [NoUser EXCEPT !.id = id[u], !.role = "admin"]]
      /\ sessions = [t \in Token |->
            IF \E u \in User : token[u] = t
            THEN LET u == CHOOSE v \in User : token[v] = t
                 IN  [state |-> "live", id |-> id[u], name |-> u, role |-> "admin", left |-> ttl]
            ELSE FreeToken]
      /\ index = [i \in Id |-> IF Of(i) = {} THEN NoIndex
                               ELSE [tokens |-> {token[u] : u \in Of(i)}, left |-> ttl]]
  BY DEF InUse
<1>2. id \in Injection(User, Id) /\ token \in Injection(User, Token) /\ ids \in 0..MaxIds
  BY <1>1, UserNumbers
<1> HIDE DEF id, token
<1>3. /\ id \in [User -> Id] /\ \A u, v \in User : id[u] = id[v] => u = v
      /\ token \in [User -> Token] /\ \A u, v \in User : token[u] = token[v] => u = v
  BY <1>2 DEF Injection, IsInjective
<1>4. ttl \in 1..Forever - 1 /\ Forever \in Nat
  BY Lifetimes
<1>5. \A i \in Id : i \in 0..MaxIds /\ i # 0
  BY Lifetimes DEF Id
<1>6. ASSUME NEW u \in User
      PROVE  users[u] \in Account /\ users[u].id = id[u] /\ users[u].role = "admin" /\ ~users[u].disabled
  <2> DEFINE i == id[u]
  <2>1. users[u] = [NoUser EXCEPT !.id = i, !.role = "admin"] /\ i \in 0..MaxIds
    BY <1>1, <1>3, <1>5
  <2> HIDE DEF i
  <2>2. users[u] = [id |-> i, role |-> "admin", disabled |-> FALSE, password |-> 0]
    BY <2>1 DEF NoUser
  <2>3. users[u] \in Account
    <3>1. i \in 0..MaxIds /\ "admin" \in Role /\ FALSE \in BOOLEAN /\ 0 \in Nat
      BY <2>1 DEF Role
    <3>2. QED
      BY <2>2, <3>1 DEF Account
  <2>4. QED
    BY <2>2, <2>3 DEF i
<1>7. users \in [User -> Account]
  BY <1>1, <1>6
<1>8. FreeToken \in Session /\ NoIndex \in Members
  BY Lifetimes, AccountsAssumption DEF FreeToken, Session, Role, NoIndex, Members
<1>9. ASSUME NEW t \in Token
      PROVE  /\ sessions[t] \in Session
             /\ \/ sessions[t] = FreeToken /\ \A u \in User : token[u] # t
                \/ \E u \in User : /\ token[u] = t /\ sessions[t].state = "live"
                                   /\ sessions[t].id = id[u] /\ sessions[t].left = ttl
  <2>1. CASE \E u \in User : token[u] = t
    <3> DEFINE u == CHOOSE v \in User : token[v] = t
    <3>1. u \in User /\ token[u] = t
      BY <2>1
    <3>2. sessions[t] = [state |-> "live", id |-> id[u], name |-> u, role |-> "admin", left |-> ttl]
      BY <1>1, <2>1
    <3> HIDE DEF u
    <3>3. id[u] \in 0..MaxIds /\ ttl \in 0..Forever - 1
      BY <1>3, <1>4, <1>5, <3>1
    <3>4. sessions[t] \in Session
      BY <3>1, <3>2, <3>3 DEF Session, Role
    <3>5. QED
      BY <3>1, <3>2, <3>4
  <2>2. CASE ~\E u \in User : token[u] = t
    BY <1>1, <1>8, <2>2
  <2>3. QED
    BY <2>1, <2>2
<1>10. sessions \in [Token -> Session]
  BY <1>1, <1>9
<1>11. ASSUME NEW i \in Id
       PROVE  /\ index[i] \in Members
              /\ \/ index[i] = NoIndex /\ \A u \in User : id[u] # i
                 \/ /\ index[i].left = ttl
                    /\ \E u \in User : id[u] = i /\ index[i].tokens = {token[u]}
  <2>1. index[i] = IF Of(i) = {} THEN NoIndex ELSE [tokens |-> {token[u] : u \in Of(i)}, left |-> ttl]
    BY <1>1
  <2>2. CASE Of(i) = {}
    BY <1>8, <2>1, <2>2
  <2>3. CASE Of(i) # {}
    <3>1. PICK u \in User : id[u] = i
      BY <2>3
    <3>2. Of(i) = {u}
      BY <1>3, <3>1
    <3>3. {token[v] : v \in Of(i)} = {token[u]}
      BY <3>2
    <3>4. index[i] = [tokens |-> {token[u]}, left |-> ttl]
      BY <2>1, <2>3, <3>3
    <3>5. token[u] \in Token /\ ttl \in 0..Forever
      BY <1>3, <1>4, <3>1
    <3>6. index[i] \in Members
      BY <3>4, <3>5 DEF Members
    <3>7. QED
      BY <3>1, <3>4, <3>6
  <2>4. QED
    BY <2>2, <2>3
<1>12. index \in [Id -> Members]
  BY <1>1, <1>11
<1>13. QED
  BY <1>2, <1>6, <1>7, <1>9, <1>10, <1>11, <1>12

\* The invariant holds at the start.
LEMMA InitIInv ==
  ASSUME Init
  PROVE  IInv
<1>1. /\ ttl \in TTL /\ setupDone = FALSE /\ attempts = [u \in User |-> NoCounter] /\ locked = {}
      /\ limited = NoCounter /\ worker = [w \in Worker |-> IdleWorker] /\ accepted = 0 /\ faults = 0
      /\ overlapped = FALSE /\ repoliced = FALSE /\ (Fresh \/ InUse)
  BY DEF Init
<1>2. \A w \in Worker : worker[w] = IdleWorker /\ worker[w].pc = "idle"
  BY <1>1 DEF IdleWorker
<1>3. WorkerTypes /\ BoundTypes
  <2>1. WorkerTypes
    BY <1>1 DEF WorkerTypes
  <2>2. accepted \in 0..MaxRequests /\ faults \in 0..MaxFaults
    BY <1>1, Lifetimes
  <2>3. overlapped \in BOOLEAN /\ repoliced \in BOOLEAN
    BY <1>1
  <2>4. QED
    BY <2>1, <2>2, <2>3 DEF BoundTypes
<1>4. CountersSound
  BY <1>1, CounterCommands DEF CountersSound
<1>5. JobInOrder
  BY <1>2 DEF JobInOrder, JobSound, BeforeLogin
<1>6. OneEditor /\ \A w \in Worker : EditInOrder(w)
  BY <1>2 DEF OneEditor, Editing, EditInOrder, WithCopy
<1>7. ASSUME BoltTypes, sessions \in [Token -> Session], index \in [Id -> Members], SessionsSound, IndexSound,
             Unused, NoUsers \/ ActiveAdmins # {}, \A t \in Token : ListedInTime(t)
      PROVE  IInv
  <2>1. Types
    BY <1>3, <1>4, <1>7 DEF Types, RedisTypes, CountersSound
  <2>2. SessionsInOrder
    BY <1>4, <1>7 DEF SessionsInOrder, SessionsSound, IndexSound, CountersSound
  <2>3. UsersInOrder
    BY <1>6, <1>7 DEF UsersInOrder
  <2>4. ListsInOrder
    BY <1>2, <1>7 DEF ListsInOrder
  <2>5. QED
    BY <1>5, <2>1, <2>2, <2>3, <2>4 DEF IInv
<1>8. CASE Fresh
  <2>1. /\ users = [u \in User |-> NoUser] /\ ids = 0 /\ sessions = [t \in Token |-> FreeToken]
        /\ index = [i \in Id |-> NoIndex]
    BY <1>8 DEF Fresh
  <2>2. NoUser \in Account /\ FreeToken \in Session /\ NoIndex \in Members
    BY Lifetimes, AccountsAssumption DEF NoUser, Account, FreeToken, Session, Role, NoIndex, Members
  <2>3. BoltTypes
    <3>1. users \in [User -> Account] /\ ids \in 0..MaxIds
      BY <2>1, <2>2, Lifetimes
    <3>2. ttl \in TTL /\ setupDone \in BOOLEAN
      BY <1>1
    <3>3. QED
      BY <3>1, <3>2 DEF BoltTypes
  <2>4. sessions \in [Token -> Session] /\ index \in [Id -> Members]
    BY <2>1, <2>2
  <2>5. \A t \in Token : sessions[t].state = "free" /\ sessions[t].left = 0
    BY <2>1 DEF FreeToken
  <2>6. SessionsSound /\ \A t \in Token : ListedInTime(t)
    BY <2>5 DEF SessionsSound, ListedInTime, Live
  <2>7. IndexSound
    BY <2>1 DEF IndexSound, NoIndex
  <2>8. Unused /\ NoUsers
    BY <1>2, <2>1, <2>5 DEF Unused, NoUsers, Exists, NoUser
  <2>9. QED
    BY <1>7, <2>3, <2>4, <2>6, <2>7, <2>8
<1>9. CASE InUse
  <2>1. PICK id \in Injection(User, Id), token \in Injection(User, Token) :
           /\ ids \in 0..MaxIds
           /\ users \in [User -> Account]
           /\ \A u \in User : users[u].id = id[u] /\ users[u].role = "admin" /\ ~users[u].disabled
           /\ sessions \in [Token -> Session]
           /\ \A t \in Token : \/ sessions[t] = FreeToken /\ \A u \in User : token[u] # t
                               \/ \E u \in User : /\ token[u] = t /\ sessions[t].state = "live"
                                                  /\ sessions[t].id = id[u] /\ sessions[t].left = ttl
           /\ index \in [Id -> Members]
           /\ \A i \in Id : \/ index[i] = NoIndex /\ \A u \in User : id[u] # i
                            \/ /\ index[i].left = ttl
                               /\ \E u \in User : id[u] = i /\ index[i].tokens = {token[u]}
    BY <1>1, <1>9, InUseStart
  <2>2. /\ id \in [User -> Id] /\ \A u, v \in User : id[u] = id[v] => u = v
        /\ token \in [User -> Token] /\ \A u, v \in User : token[u] = token[v] => u = v
    BY DEF Injection, IsInjective
  <2>3. ttl \in 1..Forever - 1 /\ Forever \in Nat /\ \A i \in Id : i # 0
    BY <1>1, Lifetimes DEF Id
  <2>4. BoltTypes
    BY <1>1, <2>1 DEF BoltTypes
  <2>5. FreeToken.state = "free" /\ FreeToken.left = 0 /\ NoIndex.left = 0 /\ NoIndex.tokens = {}
    BY DEF FreeToken, NoIndex
  <2>6. SessionsSound
    BY <2>1, <2>2, <2>3, <2>5 DEF SessionsSound, Live
  <2>7. \A u \in User : sessions[token[u]].state = "live" /\ sessions[token[u]].id = id[u]
    BY <2>1, <2>2, <2>5
  <2>8. \A u \in User : index[id[u]].tokens = {token[u]} /\ index[id[u]].left = ttl
    BY <2>1, <2>2
  <2>9. IndexSound
    <3>1. ASSUME NEW i \in Id PROVE index[i].left = 0 <=> index[i].tokens = {}
      <4>1. CASE index[i] = NoIndex
        BY <2>5, <4>1
      <4>2. CASE index[i].left = ttl /\ \E u \in User : index[i].tokens = {token[u]}
        BY <2>3, <4>2
      <4>3. QED
        BY <2>1, <4>1, <4>2
    <3>2. ASSUME NEW i \in Id, NEW t \in index[i].tokens PROVE IsOf(t, i)
      <4>1. PICK u \in User : id[u] = i /\ index[i].tokens = {token[u]}
        BY <2>1, <2>5, <3>2
      <4>2. t = token[u]
        BY <3>2, <4>1
      <4>3. QED
        BY <2>7, <4>1, <4>2 DEF IsOf, Live
    <3>3. QED
      BY <3>1, <3>2 DEF IndexSound
  <2>10. ASSUME NEW t \in Token PROVE ListedInTime(t)
    <3>1. SUFFICES ASSUME Live(t) PROVE ListedInTime(t)
      BY DEF ListedInTime
    <3>2. PICK u \in User : token[u] = t /\ sessions[t].id = id[u] /\ sessions[t].left = ttl
      BY <2>1, <2>5, <3>1 DEF Live
    <3>3. t \in index[id[u]].tokens /\ index[id[u]].left = ttl
      BY <2>8, <3>2
    <3>4. QED
      BY <2>3, <3>2, <3>3 DEF ListedInTime, Listed
  <2>11. Operator \in User /\ users[Operator].id # 0 /\ users[Operator].role = "admin" /\ ~users[Operator].disabled
    BY <2>1, <2>2, <2>3, AccountsAssumption
  <2>12. ActiveAdmins # {} /\ ~NoUsers
    BY <2>11 DEF ActiveAdmins, NoUsers, Exists
  <2>13. QED
    BY <1>7, <2>1, <2>4, <2>6, <2>9, <2>10, <2>12 DEF Unused
<1>10. QED
  BY <1>1, <1>8, <1>9

\* It holds after every step.
LEMMA NextIInv ==
  ASSUME IInv, [Next]_vars
  PROVE  IInv'
<1>1. CASE Next
  BY <1>1, NextTypes, NextJob, NextSessions, NextUsers, NextLists DEF IInv
<1>2. CASE UNCHANGED vars
  <2>1. UNCHANGED <<users, ids, ttl, setupDone, sessions, index, attempts, locked, limited, worker, accepted,
                    faults, overlapped, repoliced>>
    BY <1>2 DEF vars, boltVars, redisVars, boundVars, auxVars
  <2>2. Types' /\ JobInOrder' /\ SessionsInOrder'
    BY <2>1 DEF IInv, Types, WorkerTypes, BoltTypes, RedisTypes, BoundTypes, JobInOrder, JobSound, IsOf, Live, Req,
                SessionsInOrder
  <2>3. UsersInOrder'
    BY <2>1 DEF IInv, UsersInOrder, OneEditor, Editing, EditInOrder, Unused, NoUsers, ActiveAdmins, Another, Exists,
                Req, Wants
  <2>4. ListsInOrder'
    BY <2>1 DEF IInv, ListsInOrder, ListedInTime, Live, Listed, InHand, Renewing
  <2>5. QED
    BY <2>2, <2>3, <2>4 DEF IInv
<1>3. QED
  BY <1>1, <1>2

\* So it holds in every state of every behaviour.
THEOREM Invariance == Spec => []IInv
<1>1. Init => IInv
  BY InitIInv
<1>2. IInv /\ [Next]_vars => IInv'
  BY NextIInv
<1>3. QED
  BY <1>1, <1>2, PTL DEF Spec

\* The invariant has the types.
LEMMA TypesHold ==
  ASSUME IInv
  PROVE  TypeOK
<1>1. Types /\ SessionsInOrder
  BY DEF IInv
<1>2. users \in [User -> [id : 0..MaxIds, role : {"admin", "user"}, disabled : BOOLEAN, password : Nat]]
  BY <1>1 DEF Types, BoltTypes, Account, Role
<1>3. \A t \in Token : /\ sessions[t].state \in {"free", "live", "over"}
                       /\ sessions[t].left \in 0..Forever - 1
                       /\ Live(t) <=> sessions[t].left > 0
  BY <1>1 DEF Types, RedisTypes, Session, SessionsInOrder
<1>4. \A i \in Id : /\ index[i].tokens \subseteq Token
                    /\ index[i].left \in 0..Forever
                    /\ index[i].left = 0 <=> index[i].tokens = {}
  BY <1>1 DEF Types, RedisTypes, Members, SessionsInOrder
<1>5. \A u \in User : attempts[u].n = 0 => ~attempts[u].expires
  BY <1>1 DEF SessionsInOrder
<1>6. \A w \in Worker : worker[w].pc = "idle" <=> worker[w] = IdleWorker
  BY <1>1, OpsTable DEF Types, WorkerTypes, IsJob, IdleWorker
<1>7. QED
  BY <1>1, <1>2, <1>3, <1>4, <1>5, <1>6 DEF TypeOK, Types, BoltTypes, RedisTypes, BoundTypes

\* Users, sessions, indexes, counters and goroutines have their types: a session is live while it has
\* time left, an index exists while it has members, and no expiry makes a counter of its own.
THEOREM TypeCorrect == Spec => []TypeOK
<1>1. IInv => TypeOK
  BY TypesHold
<1>2. QED
  BY <1>1, Invariance, PTL

\* Unless two requests changed users at once, an administrator who can log in remains: who disables,
\* demotes or deletes one has counted another, and nobody else changes a record in between.
THEOREM AdministratorRemains == Spec => []LastAdmin
<1>1. IInv => LastAdmin
  BY DEF IInv, UsersInOrder, LastAdmin, NoUsers
<1>2. QED
  BY <1>1, Invariance, PTL

\* Without a failed command, a crash or a new lifetime every live session is in the index of its user,
\* or a goroutine is about to put it there or to delete its key.
THEOREM LiveSessionsListed == Spec => []LiveIsListed
<1>1. ASSUME IInv PROVE LiveIsListed
  <2>1. SUFFICES ASSUME NEW t \in Token, Live(t), faults = 0, ~repoliced
                 PROVE  t \in index[sessions[t].id].tokens \/ InHand(t)
    <3>1. faults \in Nat
      BY <1>1, Lifetimes DEF IInv, Types, BoundTypes
    <3>2. QED
      BY <3>1 DEF LiveIsListed
  <2>2. ListedInTime(t)
    BY <1>1, <2>1 DEF IInv, ListsInOrder
  <2>3. QED
    BY <2>1, <2>2 DEF ListedInTime, Listed
<1>2. QED
  BY <1>1, Invariance, PTL

\* What a save may change of a record.
OnlyItsChange(w) ==
  LET was == users[Req(w).name]
      is == users'[Req(w).name]
  IN  /\ is.id = was.id
      /\ is.password >= was.password
      /\ is.disabled = was.disabled \/ Wants(w, "disable") \/ Wants(w, "enable")
      /\ is.role = was.role \/ Wants(w, "promote") \/ Wants(w, "demote")

\* Only its save takes a goroutine from there to the end of its request.
LEMMA SavedBy ==
  ASSUME IInv, Next, NEW w \in Worker, At(w, "save"), worker'[w].pc = "idle", faults' = faults
  PROVE  SaveUser(w)
<1> USE DEF At
<1>1. Types /\ JobInOrder /\ faults \in Nat
  BY Lifetimes DEF IInv, Types, BoundTypes
<1>2. worker'[w] # worker[w]
  OBVIOUS
<1>3. ASSUME NEW v \in Worker, Login(v) \/ SessionStep(v) \/ UserStep(v) \/ RedisFails(v)
      PROVE  SaveUser(w)
  <2>1. v = w
    BY <1>1, <1>2, <1>3, WorkerSteps DEF Steps, OthersKeep
  <2>2. QED
    BY <1>3, <2>1 DEF Login, CheckLock, Verify, CountFailure, StartWindow, Lock, DropAttempts, CreateSession,
              AddToIndex, NewSessionExpiry, SessionStep, Authenticate, RefreshSession, RefreshIndex, Revoke,
              RemoveFromIndex, DeleteKey, ListSessions, PruneIndex, LimitAction, StartLimit,
              UserStep, HasAnyUser, CheckName, CreateUser, ReadUser, CountAdmins, DeleteUser, ChangePassword,
              SetSecurityPolicies, SetSetupCompleted, RedisFails, RedisSteps
<1>4. ASSUME NEW v \in Worker, NEW req \in Requests, Accept(v, req) PROVE FALSE
  BY <1>1, <1>2, <1>4, AcceptEffect DEF OthersKeep, IdleWorker
<1>5. ASSUME BootstrapAdmin \/ ResetPassword \/ Time PROVE FALSE
  BY <1>2, <1>5 DEF BootstrapAdmin, ResetPassword, Time, Hour, LimitEnds, LockEnds, WindowEnds
<1>6. ~Crash
  BY <1>1 DEF Crash
<1>7. QED
  BY <1>3, <1>4, <1>5, <1>6 DEF Next

\* A save changes only what its request is about: unless two requests changed users at once, the
\* record it puts back is the one that is there, but for that.
THEOREM SaveChangesItsRecord == Spec => SavesOnlyItsChange
<1>1. ASSUME IInv, Next, NEW w \in Worker, At(w, "save"), worker'[w].pc = "idle", ~overlapped, faults' = faults
      PROVE  OnlyItsChange(w)
  <2>1. SaveUser(w) /\ Types /\ worker[w].pc = "save"
    BY <1>1, SavedBy DEF IInv, At
  <2>2. worker[w].copy = users[Req(w).name]
    BY <1>1, <2>1 DEF IInv, UsersInOrder, EditInOrder, WithCopy
  <2>3. users'[Req(w).name] = Changed(w)
    BY <2>1, SaveUserEffect
  <2>4. QED
    BY <2>1, <2>2, <2>3, ChangedIs DEF OnlyItsChange
<1>2. IInv /\ [Next]_vars =>
        [\A w \in Worker : (At(w, "save") /\ worker'[w].pc = "idle" /\ ~overlapped /\ faults' = faults)
                              => OnlyItsChange(w)]_vars
  BY <1>1
<1>3. QED
  BY <1>2, Invariance, PTL DEF Spec, SavesOnlyItsChange, OnlyItsChange
=============================================================================
