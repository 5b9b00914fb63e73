------------------------------ MODULE AuthPool ------------------------------
(***************************************************************************)
(* Who may use the API, and the connections that asking takes.  An Engine  *)
(* request authenticates on one pooled connection, gives it back, and runs *)
(* its handler on another; SSO and the console take one each.  Tokens are  *)
(* issued by a login and by every request with Basic credentials, they     *)
(* expire, are revoked, and are wiped when the console loads or unloads a  *)
(* demo.  The pool hands a free connection to any request that waits.      *)
(***************************************************************************)
EXTENDS Tables, Naturals, FiniteSets

CONSTANTS
  Req,        \* the requests clients make, each made once
  Token,      \* what secrets.token_urlsafe() will produce
  Issued,     \* the tokens issued before
  None,       \* no token, no answer yet
  PoolSize,   \* db_pool_max_size
  Ttl,        \* the TTL options: how many ticks a token lives
  MaxTime     \* bound: the clock stops here

ASSUME PoolAssumption == PoolSize \in Nat \ {0}
ASSUME ClockAssumption == Ttl \in Nat /\ MaxTime \in Nat
ASSUME TokenAssumption == Issued \subseteq Token /\ None \notin Token

VARIABLES
  tokens,     \* ov_tokens: id -> [expires, revoked]
  spent,      \* tokens ever issued
  clock,      \* datetime.now(UTC)
  free,       \* connections in the pool that nobody holds
  pc,         \* request -> its next statement, or what it waits for
  rq          \* request -> its locals and its answer

vars == <<tokens, spent, clock, free, pc, rq>>

Bearing == {"engine", "info", "revoke"}      \* requests that name a token
Kinds   == Bearing \cup {"basic", "login", "reset"}
Waits   == {"auth", "handler"}               \* pool.acquire()
Statements ==
  {"lookup", "roles", "info", "password", "insert", "reread", "update", "reset", "work"}
Answers == {"200", "active", "inactive", "missing", "400", "401", "500"}

\* The kind of a request, its token, and, for the properties only, whether
\* that token was live when the request arrived.
Fresh == [kind |-> None, token |-> None, live |-> FALSE, answer |-> None]

Init ==
  /\ tokens = [t \in Issued |-> [expires |-> Ttl, revoked |-> FALSE]]
  /\ spent = Issued
  /\ clock = 0
  /\ free = PoolSize
  /\ pc = [r \in Req |-> "idle"]
  /\ rq = [r \in Req |-> Fresh]

-----------------------------------------------------------------------------
\* Operators named X_Y are X with the bug Y; the model uses none of them.

Live(t) == t \in DOMAIN tokens /\ ~tokens[t].revoked /\ tokens[t].expires > clock

Go(r, from, to, locals) ==
  /\ pc[r] = from
  /\ pc' = [pc EXCEPT ![r] = to]
  /\ rq' = [rq EXCEPT ![r] = locals]

\* The next statement runs on the same connection.
Keep(r, from, to, locals) == Go(r, from, to, locals) /\ UNCHANGED free

Release_NotOnError(r, from, to, locals) ==
  /\ Go(r, from, to, locals)
  /\ free' = IF locals.answer = "401" THEN free ELSE free + 1

\* The connection goes back to the pool, whatever made the block end.
Release(r, from, to, locals) == Go(r, from, to, locals) /\ free' = free + 1

Finish(r, from, code) == Release(r, from, "done", [rq[r] EXCEPT !.answer = code])

\* An Engine request and token-info name a token and are looked up; Basic
\* and login bring a password.
Arrive(r) ==
  /\ \E k \in Kinds, t \in spent \cup {None} :
       /\ (k \in Bearing) = (t # None)
       /\ Go(r, "idle", "auth", [Fresh EXCEPT !.kind = k, !.token = t, !.live = Live(t)])
  /\ UNCHANGED <<tokens, spent, clock, free>>

FirstStatement ==
  [engine |-> "lookup", info |-> "lookup", basic |-> "password", login |-> "password",
   revoke |-> "update", reset |-> "reset"]

Acquire_Unbounded(r) ==
  /\ \/ Go(r, "auth", FirstStatement[rq[r].kind], rq[r])
     \/ Go(r, "handler", "work", rq[r])
  /\ free' = free - 1
  /\ UNCHANGED <<tokens, spent, clock>>

Acquire(r) ==
  /\ free > 0
  /\ \/ Go(r, "auth", FirstStatement[rq[r].kind], rq[r])
     \/ Go(r, "handler", "work", rq[r])
  /\ free' = free - 1
  /\ UNCHANGED <<tokens, spent, clock>>

-----------------------------------------------------------------------------
\* Statements.

Lookup_Revoked(r) ==
  /\ IF rq[r].token \in DOMAIN tokens /\ tokens[rq[r].token].expires > clock
     THEN Keep(r, "lookup", "roles", rq[r])
     ELSE Finish(r, "lookup", "401")
  /\ UNCHANGED <<tokens, spent, clock>>

\* validate_bearer
Lookup(r) ==
  /\ IF Live(rq[r].token)
     THEN Keep(r, "lookup", "roles", rq[r])
     ELSE Finish(r, "lookup", "401")
  /\ UNCHANGED <<tokens, spent, clock>>

Roles_Keeps(r) ==
  /\ \/ Finish(r, "roles", "500")
     \/ rq[r].kind = "info" /\ Keep(r, "roles", "info", rq[r])
     \/ rq[r].kind # "info" /\ Keep(r, "roles", "handler", rq[r])
  /\ UNCHANGED <<tokens, spent, clock>>

\* _roles_for_user, which fails when the default role's option is missing;
\* then require_auth returns, except below token-info.
Roles(r) ==
  /\ \/ Finish(r, "roles", "500")
     \/ rq[r].kind = "info" /\ Keep(r, "roles", "info", rq[r])
     \/ rq[r].kind # "info" /\ Release(r, "roles", "handler", rq[r])
  /\ UNCHANGED <<tokens, spent, clock>>

\* token_info reads the token again.
Info(r) ==
  /\ LET t == rq[r].token
         active == t \in DOMAIN tokens /\ ~tokens[t].revoked
     IN Finish(r, "info", IF active THEN "active" ELSE "inactive")
  /\ UNCHANGED <<tokens, spent, clock>>

\* authenticate_password and the options read before and after it.
Password(r) ==
  /\ \/ Finish(r, "password", "401")
     \/ Finish(r, "password", "500")
     \/ rq[r].kind = "login" /\ Finish(r, "password", "400")  \* scope
     \/ Keep(r, "password", "insert", rq[r])
  /\ UNCHANGED <<tokens, spent, clock>>

InsertToken(r) ==
  \E t \in Token \ spent :
    /\ tokens' = Insert(tokens, t, [expires |-> clock + Ttl, revoked |-> FALSE])
    /\ spent' = spent \cup {t}
    /\ Keep(r, "insert", "reread", [rq[r] EXCEPT !.token = t])
    /\ UNCHANGED clock

\* A token wiped in between is a TypeError outside of any handler.
Reread(r) ==
  /\ \/ rq[r].token \notin DOMAIN tokens /\ Finish(r, "reread", "500")
     \/ /\ rq[r].token \in DOMAIN tokens
        /\ IF rq[r].kind = "login" THEN Finish(r, "reread", "200")
           ELSE Keep(r, "reread", "roles", rq[r])
  /\ UNCHANGED <<tokens, spent, clock>>

\* revoke_token; the time-out of a statement that took effect is a 500.
Revoke(r) ==
  LET t == rq[r].token IN
  /\ \E code \in {"500", IF t \in DOMAIN tokens THEN "200" ELSE "missing"} :
       Finish(r, "update", code)
  /\ tokens' = [x \in DOMAIN tokens |->
                  IF x = t THEN [tokens[x] EXCEPT !.revoked = TRUE] ELSE tokens[x]]
  /\ UNCHANGED <<spent, clock>>

\* Load or unload of a demo: one transaction that truncates ov_tokens too,
\* and a summary that may fail after it.
Reset(r) ==
  /\ \E code \in {"200", "500"} : Finish(r, "reset", code)
  /\ tokens' = [t \in {} |-> None]
  /\ UNCHANGED <<spent, clock>>

\* The handler: EngineVms, VmStorage and EngineTree say what it does.  None
\* touches the tokens, nor removes a user, which would take them along.
Work(r) ==
  /\ Finish(r, "work", "200")
  /\ UNCHANGED <<tokens, spent, clock>>

\* db_command_timeout_seconds, or any error of a statement.
TimeOut(r) ==
  /\ pc[r] \in Statements
  /\ Finish(r, pc[r], "500")
  /\ UNCHANGED <<tokens, spent, clock>>

Tick ==
  /\ clock < MaxTime
  /\ clock' = clock + 1
  /\ UNCHANGED <<tokens, spent, free, pc, rq>>

Continue(r) ==
  \/ Acquire(r) \/ Lookup(r) \/ Roles(r) \/ Info(r) \/ Password(r) \/ InsertToken(r)
  \/ Reread(r) \/ Revoke(r) \/ Reset(r) \/ Work(r)

Quiet == (\A r \in Req : pc[r] = "done") /\ UNCHANGED vars

Next == Tick \/ Quiet \/ \E r \in Req : Arrive(r) \/ Continue(r) \/ TimeOut(r)

\* A statement ends, and a request that waits gets a connection at some time
\* when one is free.
Fairness == \A r \in Req : WF_vars(Continue(r))

Spec     == Init /\ [][Next]_vars
FairSpec == Spec /\ Fairness

-----------------------------------------------------------------------------
\* Properties.

Holding == {r \in Req : pc[r] \in Statements}

\* Every variable has its type.
TypeOK ==
  /\ DOMAIN tokens \subseteq spent /\ spent \subseteq Token
  /\ tokens \in [DOMAIN tokens -> [expires : Nat, revoked : BOOLEAN]]
  /\ clock \in 0..MaxTime
  /\ free \in 0..PoolSize
  /\ pc \in [Req -> {"idle", "done"} \cup Waits \cup Statements]
  /\ rq \in [Req -> [kind : Kinds \cup {None}, token : Token \cup {None},
                     live : BOOLEAN, answer : Answers \cup {None}]]

\* A request whose token was revoked, expired or wiped when it arrived gets
\* nowhere with it: it never holds a handler's connection and is never told
\* that the token is active.  No step brings a token back to life.
DeadStaysDead ==
  \A r \in Req : rq[r].kind \in {"engine", "info"} /\ ~rq[r].live =>
    pc[r] \notin {"roles", "info", "handler", "work"} /\ rq[r].answer \in {None, "401", "500"}

\* Each connection is in the pool or held by one request: error paths give
\* it back too, and no request comes to hold two.
PoolBalance == free + Cardinality(Holding) = PoolSize

\* Every request that arrived is answered, however full the pool is: no
\* request holds a connection while it waits for one.
Served ==
  \A r \in Req : pc[r] # "idle" ~> pc[r] = "done"
=============================================================================
