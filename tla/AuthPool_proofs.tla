--------------------------- MODULE AuthPool_proofs ---------------------------
(***************************************************************************)
(* Proofs, for every number of requests, tokens and connections, and every *)
(* life of a token, that the pool loses no connection and lends none twice *)
(* and that a token once dead opens nothing.                               *)
(***************************************************************************)
EXTENDS AuthPool, FiniteSetTheorems, TLAPS

-----------------------------------------------------------------------------
\* The inductive invariant.

Points == {"idle", "done"} \cup Waits \cup Statements
Locals == [kind : Kinds \cup {None}, token : Token \cup {None},
           live : BOOLEAN, answer : Answers \cup {None}]

\* Which requests come to which statement.
AtPoint(p, q) ==
  /\ p = "auth"   => q.kind \in Kinds
  /\ p \in {"lookup", "info"} => q.kind \in {"engine", "info"}
  /\ p \in {"password", "insert", "reread"} => q.kind \in {"basic", "login"}
  /\ p = "update" => q.kind = "revoke"
  /\ p = "reset"  => q.kind = "reset"

\* A request that came with a dead token still has it, the token is as dead
\* as then, and the request is not past its look-up but to be refused.
DeadEnd(p, q) ==
  q.kind \in {"engine", "info"} /\ ~q.live =>
    /\ q.token \in spent \cup {None} /\ ~Live(q.token)
    /\ p \notin {"roles", "info", "handler", "work"}
    /\ q.answer \in {None, "401", "500"}

Known(p, q) == p \in Points /\ q \in Locals /\ AtPoint(p, q) /\ DeadEnd(p, q)

\* The tokens and the clock.
TokensOK ==
  /\ DOMAIN tokens \subseteq spent /\ spent \subseteq Token
  /\ tokens \in [DOMAIN tokens -> [expires : Nat, revoked : BOOLEAN]]
  /\ clock \in 0..MaxTime

\* PoolBalance says something only of finite sets.
PoolOK == free \in Nat /\ IsFiniteSet(Holding) /\ PoolBalance

IInv ==
  /\ TokensOK
  /\ PoolOK
  /\ pc \in [Req -> Points] /\ rq \in [Req -> Locals]
  /\ \A r \in Req : Known(pc[r], rq[r])

-----------------------------------------------------------------------------
\* Steps.

\* No step brings a token back to life, nor gives one out again.
Stable ==
  /\ spent \subseteq spent'
  /\ \A t \in spent \cup {None} : ~Live(t) => ~Live(t)'

\* What is known of a request survives a step that revives no token.
LEMMA KnownStays ==
  ASSUME Stable, NEW p, NEW q, Known(p, q)
  PROVE  Known(p, q)'
BY DEF Stable, Known, AtPoint, DeadEnd

\* The pool, by what a step does with a connection.

\* A request that holds no connection takes one of those that are free.
LEMMA TakesOne ==
  ASSUME PoolOK, NEW r \in Req, NEW from, NEW to, NEW q, Go(r, from, to, q),
         pc \in [Req -> Points], from \notin Statements, to \in Statements,
         free > 0, free' = free - 1
  PROVE  PoolOK'
<1>1. Holding' = Holding \cup {r} /\ r \notin Holding
  BY DEF Go, Holding
<1>2. IsFiniteSet(Holding') /\ Cardinality(Holding') = Cardinality(Holding) + 1
  BY <1>1, FS_AddElement DEF PoolOK
<1>3. Cardinality(Holding) \in Nat
  BY FS_CardinalityType DEF PoolOK
<1> QED BY <1>2, <1>3, PoolAssumption DEF PoolOK, PoolBalance

\* One that holds a connection gives it back.
LEMMA GivesBack ==
  ASSUME PoolOK, NEW r \in Req, NEW from, NEW to, NEW q, Release(r, from, to, q),
         pc \in [Req -> Points], from \in Statements, to \notin Statements
  PROVE  PoolOK'
<1>1. Holding' = Holding \ {r} /\ r \in Holding
  BY DEF Release, Go, Holding
<1>2. IsFiniteSet(Holding') /\ Cardinality(Holding') = Cardinality(Holding) - 1
  BY <1>1, FS_RemoveElement DEF PoolOK
<1>3. Cardinality(Holding) \in Nat
  BY FS_CardinalityType DEF PoolOK
<1> QED BY <1>2, <1>3, PoolAssumption DEF PoolOK, PoolBalance, Release

\* One that goes from statement to statement, or has not asked for a
\* connection yet, leaves the pool as it is.
LEMMA KeepsWhatItHas ==
  ASSUME PoolOK, NEW r \in Req, NEW from, NEW to, NEW q, Keep(r, from, to, q),
         pc \in [Req -> Points], from \in Statements <=> to \in Statements
  PROVE  PoolOK'
<1>1. Holding' = Holding
  BY DEF Keep, Go, Holding
<1> QED BY <1>1 DEF PoolOK, PoolBalance, Keep

\* A step of one request that keeps the tokens, the pool and what all know.
LEMMA StepKeeps ==
  ASSUME IInv, NEW r \in Req, NEW from, NEW to, NEW q, Go(r, from, to, q),
         Stable, TokensOK', PoolOK', Known(to, q)'
  PROVE  IInv'
<1>1. to \in Points /\ q \in Locals
  BY DEF Known
<1>2. /\ pc' \in [Req -> Points] /\ rq' \in [Req -> Locals]
      /\ pc'[r] = to /\ rq'[r] = q
      /\ \A s \in Req : s # r => pc'[s] = pc[s] /\ rq'[s] = rq[s]
  BY <1>1 DEF Go, IInv
<1>3. ASSUME NEW s \in Req PROVE Known(pc[s], rq[s])'
  <2>1. CASE s = r
    BY <2>1, <1>2 DEF Known, AtPoint, DeadEnd, Live
  <2>2. CASE s # r
    <3>1. PICK p, k : p = pc[s] /\ k = rq[s]
      OBVIOUS
    <3>2. Known(p, k)'
      BY <3>1, KnownStays DEF IInv
    <3> QED BY <3>1, <3>2, <2>2, <1>2
  <2> QED BY <2>1, <2>2
<1> QED BY <1>2, <1>3 DEF IInv

\* A statement that only reads.
LEMMA NothingWritten ==
  ASSUME TokensOK, UNCHANGED <<tokens, spent, clock>>
  PROVE  TokensOK' /\ Stable
BY DEF TokensOK, Stable, Live

\* A statement that ends its request, whose connection goes back: with 401 or
\* 500, or with any answer when the token it came with was live.
LEMMA FinishKeeps ==
  ASSUME IInv, NEW r \in Req, NEW from \in Statements, NEW code \in Answers,
         Finish(r, from, code), TokensOK', Stable,
         code \in {"401", "500"} \/ rq[r].kind \notin {"engine", "info"}
           \/ from \in {"roles", "info", "work"}
  PROVE  IInv'
<1>1. PICK q : q = rq[r]
  OBVIOUS
<1>2. PICK k : k = [q EXCEPT !.answer = code]
  OBVIOUS
<1>3. Known(from, q)
  BY <1>1 DEF IInv, Finish, Release, Go
<1>4. /\ k \in Locals /\ k.kind = q.kind /\ k.token = q.token /\ k.live = q.live
      /\ k.answer = code
  BY <1>2, <1>3 DEF Known, Locals
<1>5. Known("done", k)
  BY <1>1, <1>3, <1>4 DEF Known, AtPoint, DeadEnd, Points
<1>6. Known("done", k)'
  BY <1>5, KnownStays
<1>7. Release(r, from, "done", k)
  BY <1>1, <1>2 DEF Finish
<1>8. PoolOK'
  BY <1>7, GivesBack DEF IInv, Statements
<1> QED BY <1>6, <1>7, <1>8, StepKeeps DEF Release

\* A request arrives with a token, known live or dead at that moment.
LEMMA ArriveKeeps ==
  ASSUME IInv, NEW r \in Req, Arrive(r)
  PROVE  IInv'
<1>1. PICK k \in Kinds, t \in spent \cup {None} :
        /\ Go(r, "idle", "auth", [Fresh EXCEPT !.kind = k, !.token = t, !.live = Live(t)])
        /\ UNCHANGED <<tokens, spent, clock, free>>
  BY DEF Arrive
<1>2. PICK q : /\ q = [Fresh EXCEPT !.kind = k, !.token = t, !.live = Live(t)]
               /\ Go(r, "idle", "auth", q)
               /\ UNCHANGED <<tokens, spent, clock, free>>
  BY <1>1
<1>3. q = [kind |-> k, token |-> t, live |-> Live(t), answer |-> None]
  BY <1>2, Zenon DEF Fresh
<1>4. TokensOK' /\ Stable
  BY <1>2, NothingWritten DEF IInv
<1>5. Live(t) \in BOOLEAN
  BY DEF Live
<1>6. Known("auth", q)
  BY <1>3, <1>5 DEF Known, AtPoint, DeadEnd, Points, Locals, Waits, IInv, TokensOK
<1>7. Known("auth", q)'
  BY <1>4, <1>6, KnownStays
<1>8. PoolOK'
  BY <1>2, KeepsWhatItHas DEF IInv, Keep, Statements
<1> QED BY <1>2, <1>4, <1>7, <1>8, StepKeeps

-----------------------------------------------------------------------------
\* The steps of a request.

\* A request that waited takes a connection: for its first statement, or to work.
LEMMA AcquireKeeps ==
  ASSUME IInv, NEW r \in Req, Acquire(r)
  PROVE  IInv'
<1>1. PICK q : q = rq[r]
  OBVIOUS
<1>2. TokensOK' /\ Stable
  BY NothingWritten DEF IInv, Acquire
<1>3. free > 0 /\ free' = free - 1
  BY DEF Acquire
<1>4. CASE Go(r, "auth", FirstStatement[q.kind], q)
  <2>1. Known("auth", q)
    BY <1>1, <1>4 DEF IInv, Go
  <2>2. q.kind \in {"engine", "info", "basic", "login", "revoke", "reset"}
    BY <2>1 DEF Known, AtPoint, Kinds, Bearing
  <2>3. PICK to : to = FirstStatement[q.kind]
    OBVIOUS
  <2>4. /\ to \in {"lookup", "password", "update", "reset"}
        /\ to = "lookup"   => q.kind \in {"engine", "info"}
        /\ to = "password" => q.kind \in {"basic", "login"}
        /\ to = "update"   => q.kind = "revoke"
        /\ to = "reset"    => q.kind = "reset"
    BY <2>2, <2>3 DEF FirstStatement
  <2>5. Known(to, q)
    BY <2>1, <2>4 DEF Known, AtPoint, DeadEnd, Points, Statements
  <2>6. Known(to, q)'
    BY <1>2, <2>5, KnownStays
  <2>7. PoolOK'
    BY <1>3, <1>4, <2>3, <2>4, TakesOne DEF IInv, Statements
  <2> QED BY <1>2, <1>4, <2>3, <2>6, <2>7, StepKeeps
<1>5. CASE Go(r, "handler", "work", q)
  <2>1. Known("handler", q)
    BY <1>1, <1>5 DEF IInv, Go
  <2>2. Known("work", q)
    BY <2>1 DEF Known, AtPoint, DeadEnd, Points, Statements
  <2>3. Known("work", q)'
    BY <1>2, <2>2, KnownStays
  <2>4. PoolOK'
    BY <1>3, <1>5, TakesOne DEF IInv, Statements
  <2> QED BY <1>2, <1>5, <2>3, <2>4, StepKeeps
<1> QED BY <1>1, <1>4, <1>5 DEF Acquire

\* A statement after which the request runs another, or waits for a handler.
LEMMA OnwardKeeps ==
  ASSUME IInv, NEW r \in Req, NEW from \in Statements, NEW to, NEW q,
         \/ to \in Statements /\ Keep(r, from, to, q)
         \/ to \notin Statements /\ Release(r, from, to, q),
         TokensOK', Stable, Known(to, q)'
  PROVE  IInv'
<1>1. PoolOK'
  BY KeepsWhatItHas, GivesBack DEF IInv
<1> QED BY <1>1, StepKeeps DEF Keep, Release

\* The look-up lets a live token through and refuses a dead one.
LEMMA LookupKeeps ==
  ASSUME IInv, NEW r \in Req, Lookup(r)
  PROVE  IInv'
<1>1. PICK q : q = rq[r]
  OBVIOUS
<1>2. TokensOK' /\ Stable
  BY NothingWritten DEF IInv, Lookup
<1>3. CASE Live(q.token)
  <2>1. Keep(r, "lookup", "roles", q)
    BY <1>1, <1>3 DEF Lookup
  <2>2. Known("lookup", q)
    BY <1>1, <2>1 DEF IInv, Keep, Go
  <2>3. Known("roles", q)
    BY <1>3, <2>2 DEF Known, AtPoint, DeadEnd, Points, Statements
  <2>4. Known("roles", q)'
    BY <1>2, <2>3, KnownStays
  <2> QED BY <1>2, <2>1, <2>4, OnwardKeeps DEF Statements
<1>4. CASE ~Live(q.token)
  <2>1. Finish(r, "lookup", "401")
    BY <1>1, <1>4 DEF Lookup
  <2> QED BY <1>2, <2>1, FinishKeeps DEF Statements, Answers
<1> QED BY <1>3, <1>4

\* The roles are read after the look-up, so only of requests let through.
LEMMA RolesKeeps ==
  ASSUME IInv, NEW r \in Req, Roles(r)
  PROVE  IInv'
<1>1. PICK q : q = rq[r]
  OBVIOUS
<1>2. TokensOK' /\ Stable
  BY NothingWritten DEF IInv, Roles
<1>3. CASE Finish(r, "roles", "500")
  BY <1>2, <1>3, FinishKeeps DEF Statements, Answers
<1>4. CASE ~Finish(r, "roles", "500")
  <2>1. \/ q.kind = "info" /\ Keep(r, "roles", "info", q)
        \/ Release(r, "roles", "handler", q)
    BY <1>1, <1>4 DEF Roles
  <2>2. Known("roles", q)
    BY <1>1, <2>1 DEF IInv, Keep, Release, Go
  <2>3. Known("handler", q) /\ (q.kind = "info" => Known("info", q))
    BY <2>2 DEF Known, AtPoint, DeadEnd, Points, Waits, Statements
  <2>4. Known("handler", q)' /\ (q.kind = "info" => Known("info", q)')
    BY <1>2, <2>3, KnownStays
  <2> QED BY <1>2, <2>1, <2>4, OnwardKeeps DEF Statements
<1> QED BY <1>3, <1>4

\* token-info answers what it read, and the connection goes back.
LEMMA InfoKeeps ==
  ASSUME IInv, NEW r \in Req, Info(r)
  PROVE  IInv'
<1>1. TokensOK' /\ Stable
  BY NothingWritten DEF IInv, Info
<1>2. \E code \in {"active", "inactive"} : Finish(r, "info", code)
  BY DEF Info
<1> QED BY <1>1, <1>2, FinishKeeps DEF Statements, Answers

\* A password is checked without a token, so no dead one gets in by it.
LEMMA PasswordKeeps ==
  ASSUME IInv, NEW r \in Req, Password(r)
  PROVE  IInv'
<1>1. PICK q : q = rq[r]
  OBVIOUS
<1>2. TokensOK' /\ Stable
  BY NothingWritten DEF IInv, Password
<1>3. CASE \E code \in {"401", "500"} : Finish(r, "password", code)
  BY <1>2, <1>3, FinishKeeps DEF Statements, Answers
<1>4. CASE q.kind = "login" /\ Finish(r, "password", "400")
  BY <1>1, <1>2, <1>4, FinishKeeps DEF Statements, Answers
<1>5. CASE Keep(r, "password", "insert", q)
  <2>1. Known("password", q)
    BY <1>1, <1>5 DEF IInv, Keep, Go
  <2>2. Known("insert", q)
    BY <2>1 DEF Known, AtPoint, DeadEnd, Points, Statements
  <2>3. Known("insert", q)'
    BY <1>2, <2>2, KnownStays
  <2> QED BY <1>2, <1>5, <2>3, OnwardKeeps DEF Statements
<1> QED BY <1>1, <1>3, <1>4, <1>5 DEF Password

\* A token is issued under a secret never used before: no dead one revives.
LEMMA InsertTokenKeeps ==
  ASSUME IInv, NEW r \in Req, InsertToken(r)
  PROVE  IInv'
<1>1. PICK q : q = rq[r]
  OBVIOUS
<1>2. PICK t \in Token \ spent :
        /\ tokens' = Insert(tokens, t, [expires |-> clock + Ttl, revoked |-> FALSE])
        /\ spent' = spent \cup {t}
        /\ Keep(r, "insert", "reread", [q EXCEPT !.token = t])
        /\ UNCHANGED clock
  BY <1>1 DEF InsertToken
<1>3. /\ DOMAIN tokens' = DOMAIN tokens \cup {t}
      /\ tokens'[t] = [expires |-> clock + Ttl, revoked |-> FALSE]
      /\ \A x \in DOMAIN tokens : x # t => tokens'[x] = tokens[x]
      /\ tokens' = [x \in DOMAIN tokens' |-> tokens'[x]]
  BY <1>2 DEF Insert
<1>4. [expires |-> clock + Ttl, revoked |-> FALSE] \in [expires : Nat, revoked : BOOLEAN]
  <2>1. PICK n \in Nat : n = clock + Ttl
    BY ClockAssumption DEF IInv, TokensOK
  <2> QED BY <2>1
<1>5. tokens' \in [DOMAIN tokens' -> [expires : Nat, revoked : BOOLEAN]]
  <2>1. ASSUME NEW x \in DOMAIN tokens' PROVE tokens'[x] \in [expires : Nat, revoked : BOOLEAN]
    <3>1. CASE x = t
      BY <1>3, <1>4, <3>1
    <3>2. CASE x # t
      BY <1>3, <3>2 DEF IInv, TokensOK
    <3> QED BY <3>1, <3>2
  <2> QED BY <1>3, <2>1
<1>6. TokensOK'
  BY <1>2, <1>3, <1>5 DEF IInv, TokensOK
<1>7. Stable
  BY <1>2, <1>3, TokenAssumption DEF Stable, Live, IInv, TokensOK
<1>8. PICK k : k = [q EXCEPT !.token = t]
  OBVIOUS
<1>9. Known("insert", q)
  BY <1>1, <1>2 DEF IInv, Keep, Go
<1>10. k \in Locals /\ k.kind = q.kind
  BY <1>8, <1>9 DEF Known, Locals
<1>11. Known("reread", k)'
  BY <1>9, <1>10 DEF Known, AtPoint, DeadEnd, Points, Statements
<1> QED BY <1>2, <1>6, <1>7, <1>8, <1>11, OnwardKeeps DEF Statements

\* The token just inserted is read back, or found wiped.
LEMMA RereadKeeps ==
  ASSUME IInv, NEW r \in Req, Reread(r)
  PROVE  IInv'
<1>1. PICK q : q = rq[r]
  OBVIOUS
<1>2. TokensOK' /\ Stable
  BY NothingWritten DEF IInv, Reread
<1>3. CASE Finish(r, "reread", "500")
  BY <1>2, <1>3, FinishKeeps DEF Statements, Answers
<1>4. CASE q.kind = "login" /\ Finish(r, "reread", "200")
  BY <1>1, <1>2, <1>4, FinishKeeps DEF Statements, Answers
<1>5. CASE Keep(r, "reread", "roles", q)
  <2>1. Known("reread", q)
    BY <1>1, <1>5 DEF IInv, Keep, Go
  <2>2. Known("roles", q)
    BY <2>1 DEF Known, AtPoint, DeadEnd, Points, Statements
  <2>3. Known("roles", q)'
    BY <1>2, <2>2, KnownStays
  <2> QED BY <1>2, <1>5, <2>3, OnwardKeeps DEF Statements
<1> QED BY <1>1, <1>3, <1>4, <1>5 DEF Reread

\* A revocation kills a token and brings none back.
LEMMA RevokeKeeps ==
  ASSUME IInv, NEW r \in Req, Revoke(r)
  PROVE  IInv'
<1>1. PICK t : t = rq[r].token
  OBVIOUS
<1>2. /\ \E code \in {"500", "200", "missing"} : Finish(r, "update", code)
      /\ tokens' = [x \in DOMAIN tokens |->
                      IF x = t THEN [tokens[x] EXCEPT !.revoked = TRUE] ELSE tokens[x]]
      /\ UNCHANGED <<spent, clock>>
  BY <1>1 DEF Revoke
<1>3. \A x \in DOMAIN tokens : [tokens[x] EXCEPT !.revoked = TRUE] \in [expires : Nat, revoked : BOOLEAN]
  BY DEF IInv, TokensOK
<1>4. \A x \in DOMAIN tokens : [tokens[x] EXCEPT !.revoked = TRUE].revoked = TRUE
  BY DEF IInv, TokensOK
<1>5. TokensOK'
  BY <1>2, <1>3 DEF IInv, TokensOK
<1>6. Stable
  BY <1>2, <1>4 DEF Stable, Live
<1>7. rq[r].kind = "revoke"
  BY <1>2 DEF Finish, Release, Go, IInv, Known, AtPoint
<1> QED BY <1>2, <1>5, <1>6, <1>7, FinishKeeps DEF Statements, Answers

\* A wipe takes all tokens away.
LEMMA ResetKeeps ==
  ASSUME IInv, NEW r \in Req, Reset(r)
  PROVE  IInv'
<1>1. /\ \E code \in {"200", "500"} : Finish(r, "reset", code)
      /\ DOMAIN tokens' = {} /\ tokens' = [t \in {} |-> None]
      /\ UNCHANGED <<spent, clock>>
  BY DEF Reset
<1>2. TokensOK' /\ Stable
  BY <1>1 DEF IInv, TokensOK, Stable, Live
<1>3. rq[r].kind = "reset"
  BY <1>1 DEF Finish, Release, Go, IInv, Known, AtPoint
<1> QED BY <1>1, <1>2, <1>3, FinishKeeps DEF Statements, Answers

\* The handler runs, and any statement may fail instead of it.
LEMMA EndsKeep ==
  ASSUME IInv, NEW r \in Req, Work(r) \/ TimeOut(r)
  PROVE  IInv'
<1>1. TokensOK' /\ Stable
  BY NothingWritten DEF IInv, Work, TimeOut
<1>2. CASE Work(r)
  BY <1>1, <1>2, FinishKeeps DEF Work, Statements, Answers
<1>3. CASE TimeOut(r)
  BY <1>1, <1>3, FinishKeeps DEF TimeOut, Answers
<1> QED BY <1>2, <1>3

\* Time kills tokens and revives none.
LEMMA TickKeeps ==
  ASSUME IInv, Tick
  PROVE  IInv'
<1>1. /\ clock \in Nat /\ clock < MaxTime /\ clock' = clock + 1
      /\ UNCHANGED <<tokens, spent, free, pc, rq>>
  BY DEF Tick, IInv, TokensOK
<1>2. TokensOK'
  BY <1>1, ClockAssumption DEF IInv, TokensOK
<1>3. Stable
  BY <1>1 DEF Stable, Live, IInv, TokensOK
<1>4. PoolOK'
  BY <1>1 DEF IInv, PoolOK, PoolBalance, Holding
<1>5. ASSUME NEW r \in Req PROVE Known(pc[r], rq[r])'
  <2>1. PICK p, q : p = pc[r] /\ q = rq[r]
    OBVIOUS
  <2>2. Known(p, q)'
    BY <1>3, <2>1, KnownStays DEF IInv
  <2> QED BY <1>1, <2>1, <2>2
<1> QED BY <1>1, <1>2, <1>4, <1>5 DEF IInv

\* Every step of the service.
LEMMA NextKeeps ==
  ASSUME IInv, [Next]_vars
  PROVE  IInv'
<1>1. CASE UNCHANGED vars
  BY <1>1 DEF vars, IInv, TokensOK, PoolOK, PoolBalance, Holding, Known, AtPoint, DeadEnd, Live
<1> QED BY <1>1, TickKeeps, ArriveKeeps, AcquireKeeps, LookupKeeps, RolesKeeps, InfoKeeps,
           PasswordKeeps, InsertTokenKeeps, RereadKeeps, RevokeKeeps, ResetKeeps, EndsKeep
        DEF Next, Continue, Quiet

\* At the start all connections are free and nobody asks.
LEMMA InitInvariant == Init => IInv
<1> SUFFICES ASSUME Init PROVE IInv
  OBVIOUS
<1>1. TokensOK
  BY ClockAssumption, TokenAssumption DEF Init, TokensOK
<1>2. Holding = {}
  BY DEF Init, Holding, Statements
<1>3. PoolOK
  BY <1>2, FS_EmptySet, PoolAssumption DEF Init, PoolOK, PoolBalance
<1>4. PICK q : q = Fresh
  OBVIOUS
<1>5. Known("idle", q)
  BY <1>1, <1>4, TokenAssumption
     DEF Fresh, Known, AtPoint, DeadEnd, Points, Locals, Live, TokensOK
<1>6. q \in Locals /\ "idle" \in Points
  BY <1>5 DEF Known
<1> QED BY <1>1, <1>3, <1>4, <1>5, <1>6 DEF Init, IInv

-----------------------------------------------------------------------------
\* The theorems.

\* The invariant above, whatever the pool's size and the tokens' life.
THEOREM Invariance == Spec => []IInv
BY InitInvariant, NextKeeps, PTL DEF Spec

\* Every variable has its type: the pool never lends more than it has.
THEOREM TypesHold == Spec => []TypeOK
<1>1. IInv => TypeOK
  <2> SUFFICES ASSUME IInv PROVE TypeOK
    OBVIOUS
  <2>1. Cardinality(Holding) \in Nat
    BY FS_CardinalityType DEF IInv, PoolOK
  <2>2. free \in 0..PoolSize
    BY <2>1, PoolAssumption DEF IInv, PoolOK, PoolBalance
  <2> QED BY <2>2 DEF IInv, TokensOK, TypeOK, Points, Locals
<1> QED BY <1>1, Invariance, PTL

\* A dead token opens nothing, however late it is looked up and whatever is
\* issued, revoked and wiped meanwhile.
THEOREM DeadTokens == Spec => []DeadStaysDead
<1>1. IInv => DeadStaysDead
  BY DEF IInv, Known, DeadEnd, DeadStaysDead
<1> QED BY <1>1, Invariance, PTL

\* No connection is lost, and none is lent twice.
THEOREM PoolKeepsItsConnections == Spec => []PoolBalance
<1>1. IInv => PoolBalance
  BY DEF IInv, PoolOK
<1> QED BY <1>1, Invariance, PTL

=============================================================================
