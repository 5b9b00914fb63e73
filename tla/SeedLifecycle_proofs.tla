------------------------ MODULE SeedLifecycle_proofs ------------------------
(***************************************************************************)
(* Proofs, for any runs of seed_cli and any kills, that a seed nobody      *)
(* disturbs ends with exactly its profile, whatever debris it started on.  *)
(* The argument follows its script statement by statement: the truncations *)
(* leave no row behind, and each insert adds what it names.                *)
(***************************************************************************)
EXTENDS SeedLifecycle, SequenceTheorems, TLAPS

-----------------------------------------------------------------------------
\* The inductive invariant.

Commands ==
  [do : {"truncate"}, table : DOMAIN Cascade]
    \cup [do : {"insert"}, rows : SUBSET Rows, needs : SUBSET Rows, strict : BOOLEAN]
    \cup [do : {"label"}, profile : Profiles]

\* q is what is left of the script after its first i statements.
Rest(q, script, i) ==
  Len(q) = Len(script) - i /\ \A j \in 1..Len(q) : q[j] = script[i + j]

\* What the database holds after the first i statements of a profile's script.
Stage(p, i) ==
  /\ i <= Len(Clear) =>
       \A k \in 1..i, x \in rows : TableOf[x] \notin Cascade[Clear[k].table]
  /\ i \in Len(Clear)..(Len(Clear) + Len(Fill[p])) =>
       rows = UNION {Fill[p][j].rows : j \in 1..(i - Len(Clear))}
  /\ i = Len(Script(p)) => rows = Whole(p) /\ label = p

\* A seeder nobody disturbed is somewhere in its script, at that stage.
OnItsWay(s) ==
  \/ /\ goal[s] = "keep"
     /\ \/ todo[s] = <<Upsert({"options"}, {})>>
        \/ todo[s] = <<>> /\ "options" \in rows
  \/ \E p \in Profiles : \E i \in 0..Len(Script(p)) :
       goal[s] = p /\ Rest(todo[s], Script(p), i) /\ Stage(p, i)

SeedInv ==
  /\ TypeOK
  /\ todo \in [Seeders -> Seq(Commands)]
  /\ \A s \in alone : OnItsWay(s)

-----------------------------------------------------------------------------
\* The scripts.

\* The clearing is seven truncations, of ov_demo_meta last.
LEMMA ClearFacts ==
  /\ Clear \in Seq(Commands) /\ Len(Clear) = 7
  /\ \A k \in 1..7 : Clear[k].do = "truncate" /\ Clear[k].table \in DOMAIN Cascade
  /\ Clear[7].table = "meta"
<1>1. \A t \in DOMAIN Cascade : Truncate(t) \in Commands
  BY DEF Truncate, Commands
<1>2. {"log", "vms", "templates", "estate", "users", "objects", "meta"} \subseteq DOMAIN Cascade
  BY DEF Cascade
<1>3. Len(Clear) = 7
  BY DEF Clear
<1>4. Clear \in Seq(Commands)
  BY <1>1, <1>2 DEF Clear
<1>5. \A k \in 1..7 : Clear[k].do = "truncate" /\ Clear[k].table \in DOMAIN Cascade
  BY <1>2 DEF Clear, Truncate
<1>6. Clear[7].table = "meta"
  BY DEF Clear, Truncate
<1> QED BY <1>3, <1>4, <1>5, <1>6


\* The commands of a profile's filling, all of them inserts.
Inserts == {c \in Commands : c.do = "insert"}

\* An insert, with or without ON CONFLICT, is a command.
LEMMA PutFacts ==
  ASSUME NEW new \in SUBSET Rows, NEW needs \in SUBSET Rows
  PROVE  Put(new, needs) \in Inserts /\ Upsert(new, needs) \in Inserts
BY DEF Put, Upsert, Inserts, Commands

\* An insert names seed rows.
LEMMA InsertFacts ==
  \A c \in Inserts : c.do = "insert" /\ c.rows \subseteq Rows
BY DEF Inserts, Commands

\* The seed rows, and the tables they are in: each is one that is cleared.
LEMMA RowsFacts ==
  /\ Rows = {"users", "default", "prod", "stage", "blank", "labVm", "vms50", "vms1000",
             "log", "surface", "options", "nested"}
  /\ \A x \in Rows : TableOf[x] \in {"users", "estate", "templates", "vms", "log", "objects"}
BY DEF Rows, TableOf

\* The minimal lab is filled by inserts only.
LEMMA MinimalFacts == MinimalFill \in Seq(Inserts)
<1>1. /\ Put({"users"}, {}) \in Inserts /\ Put({"default"}, {}) \in Inserts
      /\ Put({"blank"}, {"default"}) \in Inserts
      /\ Put({"labVm"}, {"default", "blank"}) \in Inserts
      /\ Put({"log"}, {"users", "labVm"}) \in Inserts
      /\ Upsert({"surface"}, {}) \in Inserts
      /\ EngineOptions \in Inserts /\ NestedSamples \in Inserts
  BY PutFacts, RowsFacts DEF EngineOptions, NestedSamples
<1> QED BY <1>1 DEF MinimalFill

\* So is a demo, whatever its data centers and VMs.
LEMMA DemoFacts ==
  ASSUME NEW centers \in Seq(Inserts), NEW demoVms \in SUBSET Rows
  PROVE  DemoFill(centers, demoVms) \in Seq(Inserts)
<1>1. <<Put({"users"}, {})>> \in Seq(Inserts)
  BY PutFacts, RowsFacts
<1>2. \A i \in DOMAIN centers : centers[i] \in Inserts
  BY ElementOfSeq, LenProperties
<1>3. PICK needed : needed = (UNION {centers[i].rows : i \in DOMAIN centers}) \cup {"blank"}
  OBVIOUS
<1>4. needed \in SUBSET Rows
  <2>1. \A i \in DOMAIN centers : centers[i].rows \subseteq Rows
    BY <1>2, InsertFacts
  <2>2. PICK u : u = UNION {centers[i].rows : i \in DOMAIN centers}
    OBVIOUS
  <2>3. u \subseteq Rows
    BY <2>1, <2>2
  <2>4. needed = u \cup {"blank"}
    BY <1>3, <2>2
  <2>5. "blank" \in Rows
    BY RowsFacts
  <2> QED BY <2>3, <2>4, <2>5
<1>5. PICK rest : rest = <<Put({"blank"}, {"prod"}), Put(demoVms, needed),
                           Put({"log"}, {"users"}), Put({"surface"}, {}),
                           EngineOptions, NestedSamples>>
  OBVIOUS
<1>6. rest \in Seq(Inserts)
  <2>1. /\ Put({"blank"}, {"prod"}) \in Inserts /\ Put(demoVms, needed) \in Inserts
        /\ Put({"log"}, {"users"}) \in Inserts /\ Put({"surface"}, {}) \in Inserts
        /\ EngineOptions \in Inserts /\ NestedSamples \in Inserts
    BY <1>4, PutFacts, RowsFacts DEF EngineOptions, NestedSamples
  <2> QED BY <2>1, <1>5
<1>7. <<Put({"users"}, {})>> \o centers \in Seq(Inserts)
  BY <1>1, ConcatProperties
<1>8. (<<Put({"users"}, {})>> \o centers) \o rest \in Seq(Inserts)
  BY <1>6, <1>7, ConcatProperties
<1> QED BY <1>3, <1>5, <1>8 DEF DemoFill

\* So is every profile.
LEMMA FillFacts ==
  ASSUME NEW p \in Profiles
  PROVE  Fill[p] \in Seq(Inserts)
<1>1. CASE p = "minimal"
  BY <1>1, MinimalFacts DEF Fill
<1>2. CASE p = "small"
  <2>1. <<Put({"prod"}, {})>> \in Seq(Inserts)
    BY PutFacts, RowsFacts
  <2>2. DemoFill(<<Put({"prod"}, {})>>, {"vms50"}) \in Seq(Inserts)
    BY <2>1, DemoFacts, RowsFacts
  <2> QED BY <1>2, <2>2 DEF Fill
<1>3. CASE p = "large"
  <2>1. <<Put({"prod"}, {}), Put({"stage"}, {})>> \in Seq(Inserts)
    BY PutFacts, RowsFacts
  <2>2. DemoFill(<<Put({"prod"}, {}), Put({"stage"}, {})>>, {"vms50", "vms1000"}) \in Seq(Inserts)
    BY <2>1, DemoFacts, RowsFacts
  <2> QED BY <1>3, <2>2 DEF Fill
<1> QED BY <1>1, <1>2, <1>3 DEF Profiles, Sized

\* The script of a profile, command by command.
LEMMA ScriptFacts ==
  ASSUME NEW p \in Profiles
  PROVE  /\ Script(p) \in Seq(Commands)
         /\ Len(Fill[p]) \in Nat
         /\ Len(Script(p)) = 8 + Len(Fill[p])
         /\ \A i \in 1..7 : Script(p)[i] = Clear[i]
         /\ \A j \in 1..Len(Fill[p]) :
              Script(p)[7 + j] = Fill[p][j] /\ Fill[p][j] \in Inserts
         /\ Script(p)[8 + Len(Fill[p])] = Label(p)
<1>1. PICK f : f = Fill[p]
  OBVIOUS
<1>2. f \in Seq(Inserts) /\ f \in Seq(Commands) /\ Len(f) \in Nat
  <2>1. f \in Seq(Inserts)
    BY <1>1, FillFacts
  <2> QED BY <2>1, LenProperties, SeqMonotonic DEF Inserts
<1>3. PICK one : one = <<Label(p)>>
  OBVIOUS
<1>4. one \in Seq(Commands) /\ Len(one) = 1 /\ one[1] = Label(p)
  BY <1>3 DEF Label, Commands
<1>5. PICK most : most = Clear \o f
  OBVIOUS
<1>6. /\ most \in Seq(Commands) /\ Len(most) = 7 + Len(f)
      /\ \A i \in 1..(7 + Len(f)) : most[i] = IF i <= 7 THEN Clear[i] ELSE f[i - 7]
  <2>1. PICK c : c = Clear
    OBVIOUS
  <2>2. c \in Seq(Commands) /\ Len(c) = 7 /\ most = c \o f
    BY <1>5, <2>1, ClearFacts
  <2>3. /\ most \in Seq(Commands) /\ Len(most) = Len(c) + Len(f)
        /\ \A i \in 1..(Len(c) + Len(f)) :
             most[i] = IF i <= Len(c) THEN c[i] ELSE f[i - Len(c)]
    BY <1>2, <2>2, ConcatProperties
  <2> QED BY <2>1, <2>2, <2>3
<1>7. /\ Script(p) \in Seq(Commands) /\ Len(Script(p)) = 7 + Len(f) + 1
      /\ \A i \in 1..(7 + Len(f) + 1) :
           Script(p)[i] = IF i <= 7 + Len(f) THEN most[i] ELSE one[i - (7 + Len(f))]
  <2>1. PICK w : w = most \o one
    OBVIOUS
  <2>2. Script(p) = w
    BY <1>1, <1>3, <1>5, <2>1 DEF Script
  <2>3. /\ w \in Seq(Commands) /\ Len(w) = Len(most) + Len(one)
        /\ \A i \in 1..(Len(most) + Len(one)) :
             w[i] = IF i <= Len(most) THEN most[i] ELSE one[i - Len(most)]
    BY <2>1, <1>4, <1>6, ConcatProperties
  <2> QED BY <2>2, <2>3, <1>4, <1>6
<1>8. \A j \in 1..Len(f) : f[j] \in Inserts
  BY <1>2, ElementOfSeq
<1>9. \A i \in 1..7 : Script(p)[i] = Clear[i]
  BY <1>2, <1>6, <1>7
<1>10. \A j \in 1..Len(f) : Script(p)[7 + j] = f[j]
  BY <1>2, <1>6, <1>7
<1>11. Script(p)[8 + Len(f)] = Label(p)
  <2>1. 8 + Len(f) \in 1..(7 + Len(f) + 1) /\ ~(8 + Len(f) <= 7 + Len(f))
        /\ (8 + Len(f)) - (7 + Len(f)) = 1
    BY <1>2
  <2> QED BY <1>4, <1>7, <2>1
<1>12. Len(Script(p)) = 8 + Len(f)
  BY <1>2, <1>7
<1> QED BY <1>1, <1>2, <1>7, <1>8, <1>9, <1>10, <1>11, <1>12


-----------------------------------------------------------------------------
\* Steps.

\* A script begins at its first statement, on whatever there is.
LEMMA ScriptBegins ==
  ASSUME NEW p \in Profiles, NEW q, q = Script(p)
  PROVE  Rest(q, Script(p), 0) /\ Stage(p, 0)
<1>1. PICK n : n = Len(Fill[p])
  OBVIOUS
<1>2. n \in Nat /\ Len(Script(p)) = 8 + n /\ Len(Clear) = 7
  BY <1>1, ScriptFacts, ClearFacts
<1> QED BY <1>1, <1>2 DEF Rest, Stage

\* Where an undisturbed seeder stands, its next statement takes it one on.

\* One truncation: none of the rows it clears is left, nor of those before.
LEMMA TruncateAdvances ==
  ASSUME NEW p \in Profiles, NEW i \in 0..6, Stage(p, i), rows \subseteq Rows,
         rows' = {x \in rows : TableOf[x] \notin Cascade[Clear[i + 1].table]}
  PROVE  Stage(p, i + 1)'
<1>1. PICK n : n = Len(Fill[p])
  OBVIOUS
<1>2. n \in Nat /\ Len(Script(p)) = 8 + n /\ Len(Clear) = 7
  BY <1>1, ScriptFacts, ClearFacts
<1>3. \A k \in 1..(i + 1), x \in rows' : TableOf[x] \notin Cascade[Clear[k].table]
  <2>1. ASSUME NEW k \in 1..(i + 1), NEW x \in rows'
        PROVE  TableOf[x] \notin Cascade[Clear[k].table]
    <3>1. CASE k = i + 1
      BY <3>1
    <3>2. CASE k # i + 1
      <4>1. k \in 1..i /\ x \in rows
        BY <3>2
      <4> QED BY <4>1, <1>2 DEF Stage
    <3> QED BY <3>1, <3>2
  <2> QED BY <2>1
<1>4. i = 6 => rows' = {}
  <2>1. SUFFICES ASSUME i = 6, NEW x \in rows' PROVE FALSE
    OBVIOUS
  <2>2. \A k \in 1..7 : TableOf[x] \notin Cascade[Clear[k].table]
    BY <1>3, <2>1
  <2>3. TableOf[x] \in {"users", "estate", "templates", "vms", "log", "objects"}
    BY <2>1, RowsFacts
  <2>4. /\ Clear[1].table = "log" /\ Clear[2].table = "vms" /\ Clear[3].table = "templates"
        /\ Clear[4].table = "estate" /\ Clear[5].table = "users" /\ Clear[6].table = "objects"
    BY DEF Clear, Truncate, Cascade
  <2>5. /\ "log" \in Cascade["log"] /\ "vms" \in Cascade["vms"]
        /\ "templates" \in Cascade["templates"] /\ "estate" \in Cascade["estate"]
        /\ "users" \in Cascade["users"] /\ "objects" \in Cascade["objects"]
    BY DEF Cascade
  <2> QED BY <2>2, <2>3, <2>4, <2>5
<1>5. i = 6 => {Fill[p][j].rows : j \in 1..(i + 1 - 7)} = {}
  OBVIOUS
<1>6. Stage(p, i + 1)' <=>
        /\ i + 1 <= 7 => \A k \in 1..(i + 1), x \in rows' :
                           TableOf[x] \notin Cascade[Clear[k].table]
        /\ i + 1 \in 7..(7 + n) => rows' = UNION {Fill[p][j].rows : j \in 1..(i + 1 - 7)}
        /\ i + 1 = 8 + n => rows' = Whole(p) /\ label' = p
  BY <1>1, <1>2 DEF Stage
<1> QED BY <1>2, <1>3, <1>4, <1>5, <1>6


\* One insert: the rows of the profile so far, and those it names.
LEMMA InsertAdvances ==
  ASSUME NEW p \in Profiles, NEW j \in 1..Len(Fill[p]), Stage(p, 6 + j),
         rows' = rows \cup Fill[p][j].rows
  PROVE  Stage(p, 7 + j)'
<1>1. PICK n : n = Len(Fill[p])
  OBVIOUS
<1>2. n \in Nat /\ Len(Script(p)) = 8 + n /\ Len(Clear) = 7 /\ j \in 1..n
  BY <1>1, ScriptFacts, ClearFacts
<1>3. rows = UNION {Fill[p][k].rows : k \in 1..(6 + j - 7)}
  <2>1. 6 + j \in Len(Clear)..(Len(Clear) + Len(Fill[p]))
    BY <1>1, <1>2
  <2>2. rows = UNION {Fill[p][k].rows : k \in 1..(6 + j - Len(Clear))}
    BY <2>1 DEF Stage
  <2> QED BY <2>2, <1>2
<1>4. rows' = UNION {Fill[p][k].rows : k \in 1..(7 + j - 7)}
  <2>1. 1..(7 + j - 7) = (1..(6 + j - 7)) \cup {j}
    BY <1>2
  <2> QED BY <1>3, <2>1
<1> QED BY <1>1, <1>2, <1>4 DEF Stage

\* The label, once all is there.
LEMMA LabelAdvances ==
  ASSUME NEW p \in Profiles, Stage(p, 7 + Len(Fill[p])), rows' = rows, label' = p
  PROVE  Stage(p, 8 + Len(Fill[p]))'
<1>1. PICK n : n = Len(Fill[p])
  OBVIOUS
<1>2. n \in Nat /\ Len(Script(p)) = 8 + n /\ Len(Clear) = 7
  BY <1>1, ScriptFacts, ClearFacts
<1>3. rows = UNION {Fill[p][k].rows : k \in 1..(7 + n - 7)}
  <2>1. 7 + n \in Len(Clear)..(Len(Clear) + Len(Fill[p]))
    BY <1>1, <1>2
  <2>2. rows = UNION {Fill[p][k].rows : k \in 1..(7 + n - Len(Clear))}
    BY <1>1, <2>1 DEF Stage
  <2> QED BY <2>2, <1>2
<1>4. DOMAIN Fill[p] = 1..n
  BY <1>1, FillFacts, LenProperties
<1>5. rows' = Whole(p)
  <2>1. 1..(7 + n - 7) = 1..n
    BY <1>2
  <2> QED BY <1>3, <1>4, <2>1 DEF Whole
<1> QED BY <1>1, <1>2, <1>5 DEF Stage

\* The first command of what is left is the next one of the script.
LEMMA RestAdvances ==
  ASSUME NEW q \in Seq(Commands), q # <<>>, NEW script \in Seq(Commands),
         NEW i \in 0..Len(script), Rest(q, script, i)
  PROVE  /\ i \in 0..(Len(script) - 1)
         /\ Head(q) = script[i + 1]
         /\ Rest(Tail(q), script, i + 1)
<1>1. Len(q) \in Nat /\ Len(q) > 0 /\ Len(script) \in Nat
  BY EmptySeq, LenProperties
<1>2. Len(q) = Len(script) - i /\ \A j \in 1..Len(q) : q[j] = script[i + j]
  BY DEF Rest
<1>3. /\ Head(q) = q[1] /\ Len(Tail(q)) = Len(q) - 1
      /\ \A j \in 1..(Len(q) - 1) : Tail(q)[j] = q[j + 1]
  BY HeadTailProperties
<1>4. \A j \in 1..(Len(q) - 1) : q[j + 1] = script[(i + 1) + j]
  <2>1. ASSUME NEW j \in 1..(Len(q) - 1)
        PROVE  q[j + 1] = script[(i + 1) + j]
    <3>1. j + 1 \in 1..Len(q) /\ i + (j + 1) = (i + 1) + j
      BY <1>1
    <3> QED BY <1>2, <3>1
  <2> QED BY <2>1
<1> QED BY <1>1, <1>2, <1>3, <1>4 DEF Rest

\* A statement that commits takes an undisturbed seeder one stage on.
LEMMA StatementAdvances ==
  ASSUME SeedInv, NEW s \in alone, Statement(s)
  PROVE  OnItsWay(s)'
<1>1. PICK q, st : q = todo[s] /\ st = Head(q)
  OBVIOUS
<1>2. s \in Seeders /\ q \in Seq(Commands) /\ q # <<>>
  BY <1>1 DEF SeedInv, TypeOK, Statement
<1>3. goal' = goal /\ todo'[s] = Tail(q)
  BY <1>1, <1>2 DEF Statement, SeedInv
<1>4. /\ st.do = "truncate" =>
           rows' = {x \in rows : TableOf[x] \notin Cascade[st.table]}
      /\ st.do = "insert" => rows' = rows \cup st.rows
      /\ st.do = "label" => rows' = rows /\ label' = st.profile
  BY <1>1 DEF Statement
<1>5. CASE goal[s] = "keep" /\ q = <<Upsert({"options"}, {})>>
  <2>1. st = Upsert({"options"}, {}) /\ Tail(q) = <<>>
    BY <1>1, <1>5
  <2>2. "options" \in rows'
    BY <1>4, <2>1 DEF Upsert
  <2> QED BY <1>3, <1>5, <2>1, <2>2 DEF OnItsWay
<1>6. CASE \E p \in Profiles : \E i \in 0..Len(Script(p)) :
             goal[s] = p /\ Rest(q, Script(p), i) /\ Stage(p, i)
  <2>1. PICK p \in Profiles : \E i \in 0..Len(Script(p)) :
          goal[s] = p /\ Rest(q, Script(p), i) /\ Stage(p, i)
    BY <1>6
  <2>2. PICK i \in 0..Len(Script(p)) :
          goal[s] = p /\ Rest(q, Script(p), i) /\ Stage(p, i)
    BY <2>1
  <2>3. PICK n, script : n = Len(Fill[p]) /\ script = Script(p)
    OBVIOUS
  <2>4. /\ script \in Seq(Commands) /\ n \in Nat /\ Len(script) = 8 + n
        /\ \A k \in 1..7 : script[k] = Clear[k]
        /\ \A k \in 1..n : script[7 + k] = Fill[p][k] /\ Fill[p][k] \in Inserts
        /\ script[8 + n] = Label(p)
    BY <2>3, ScriptFacts
  <2>5. i \in 0..(7 + n) /\ st = script[i + 1] /\ Rest(Tail(q), script, i + 1)
    BY <1>1, <1>2, <2>2, <2>3, <2>4, RestAdvances
  <2>6. Stage(p, i + 1)'
    <3>1. CASE i \in 0..6
      <4>1. i + 1 \in 1..7
        BY <3>1
      <4>2. st = Clear[i + 1] /\ st.do = "truncate"
        BY <2>4, <2>5, <4>1, ClearFacts
      <4>3. rows \subseteq Rows
        BY DEF SeedInv, TypeOK
      <4> QED BY <1>4, <2>2, <3>1, <4>2, <4>3, TruncateAdvances
    <3>2. CASE i \in 7..(6 + n)
      <4>1. PICK j : j = i - 6
        OBVIOUS
      <4>2. j \in 1..n /\ i = 6 + j /\ i + 1 = 7 + j
        BY <2>4, <3>2, <4>1
      <4>3. st = Fill[p][j] /\ st \in Inserts
        BY <2>4, <2>5, <4>2
      <4>4. rows' = rows \cup Fill[p][j].rows
        BY <1>4, <4>3, InsertFacts
      <4>5. Stage(p, 6 + j) /\ j \in 1..Len(Fill[p])
        BY <2>2, <2>3, <4>2
      <4>6. Stage(p, 7 + j)'
        BY <4>4, <4>5, InsertAdvances
      <4> QED BY <4>2, <4>6
    <3>3. CASE i = 7 + n
      <4>1. st = Label(p) /\ i + 1 = 8 + n
        BY <2>4, <2>5, <3>3
      <4>2. rows' = rows /\ label' = p
        BY <1>4, <4>1 DEF Label
      <4>3. Stage(p, 7 + Len(Fill[p]))
        BY <2>2, <2>3, <3>3
      <4>4. Stage(p, 8 + Len(Fill[p]))'
        BY <4>2, <4>3, LabelAdvances
      <4> QED BY <2>3, <4>1, <4>4
    <3> QED BY <2>4, <2>5, <3>1, <3>2, <3>3
  <2>7. i + 1 \in 0..Len(Script(p))
    BY <2>3, <2>4, <2>5
  <2>8. goal'[s] = p /\ Rest(todo'[s], Script(p), i + 1)
    BY <1>3, <2>2, <2>3, <2>5
  <2> QED BY <2>6, <2>7, <2>8 DEF OnItsWay
<1>7. OnItsWay(s)
  BY DEF SeedInv
<1> QED BY <1>1, <1>2, <1>5, <1>6, <1>7 DEF OnItsWay


\* A stage stays what it is when rows, label and this seeder stay.
LEMMA WayStays ==
  ASSUME NEW s, OnItsWay(s), rows' = rows, label' = label,
         todo'[s] = todo[s], goal'[s] = goal[s]
  PROVE  OnItsWay(s)'
BY DEF OnItsWay, Stage

-----------------------------------------------------------------------------
\* Every step.

\* A seeder begins with the whole script of its profile, or keeps a demo.
LEMMA BeginKeepsSeed ==
  ASSUME SeedInv, NEW s \in Seeders, phase[s] # "running", NEW p, NEW script,
         Begin(s, p, script),
         \/ p \in Profiles /\ script = Script(p)
         \/ p = "keep" /\ script = <<Upsert({"options"}, {})>>
  PROVE  SeedInv'
<1>1. script \in Seq(Commands)
  <2>1. CASE p \in Profiles /\ script = Script(p)
    BY <2>1, ScriptFacts
  <2>2. CASE script = <<Upsert({"options"}, {})>>
    <3>1. Upsert({"options"}, {}) \in Commands
      BY PutFacts, RowsFacts DEF Inserts
    <3> QED BY <2>2, <3>1
  <2> QED BY <2>1, <2>2
<1>2. /\ phase' = [phase EXCEPT ![s] = "running"]
      /\ todo' = [todo EXCEPT ![s] = script]
      /\ goal' = [goal EXCEPT ![s] = p]
      /\ alone' = alone \cup {s}
      /\ UNCHANGED <<rows, label, kills>>
  BY DEF Begin
<1>3. TypeOK'
  BY <1>2 DEF SeedInv, TypeOK, Running, Seeders
<1>4. todo' \in [Seeders -> Seq(Commands)]
  BY <1>1, <1>2 DEF SeedInv
<1>5. ASSUME NEW t \in alone' PROVE OnItsWay(t)'
  <2>1. CASE t = s
    <3>1. todo'[s] = script /\ goal'[s] = p
      BY <1>2 DEF SeedInv, TypeOK
    <3>2. CASE p \in Profiles /\ script = Script(p)
      <4>1. Rest(script, Script(p), 0) /\ Stage(p, 0)
        BY <3>2, ScriptBegins
      <4>2. 0 \in 0..Len(Script(p)) /\ Stage(p, 0)'
        BY <1>2, <3>2, <4>1, ScriptFacts DEF Stage
      <4> QED BY <2>1, <3>1, <3>2, <4>1, <4>2 DEF OnItsWay
    <3>3. CASE p = "keep" /\ script = <<Upsert({"options"}, {})>>
      BY <2>1, <3>1, <3>3 DEF OnItsWay
    <3> QED BY <3>2, <3>3
  <2>2. CASE t # s
    <3>1. t \in alone /\ t \in Seeders
      BY <1>2, <2>2 DEF SeedInv, TypeOK
    <3>2. todo'[t] = todo[t] /\ goal'[t] = goal[t]
      BY <1>2, <2>2, <3>1 DEF SeedInv, TypeOK
    <3>3. OnItsWay(t)
      BY <3>1 DEF SeedInv
    <3> QED BY <1>2, <3>2, <3>3, WayStays
  <2> QED BY <2>1, <2>2
<1> QED BY <1>3, <1>4, <1>5 DEF SeedInv

\* A statement of one seeder disturbs every other.
LEMMA StatementKeepsSeed ==
  ASSUME SeedInv, NEW s \in Seeders, Statement(s)
  PROVE  SeedInv'
<1>1. PICK q, st : q = todo[s] /\ st = Head(q)
  OBVIOUS
<1>2. q \in Seq(Commands) /\ q # <<>>
  BY <1>1 DEF SeedInv, Statement
<1>3. st \in Commands /\ Tail(q) \in Seq(Commands)
  BY <1>1, <1>2, HeadTailProperties
<1>4. rows' \subseteq Rows /\ label' \in Profiles \cup {None}
  <2>1. /\ st.do \in {"truncate", "insert", "label"}
        /\ st.do = "insert" => st.rows \subseteq Rows
        /\ st.do = "label" => st.profile \in Profiles
    BY <1>3 DEF Commands
  <2>2. rows \subseteq Rows /\ label \in Profiles \cup {None}
    BY DEF SeedInv, TypeOK
  <2>3. /\ st.do = "truncate" => rows' \subseteq rows
        /\ st.do = "insert" => rows' = rows \cup st.rows
        /\ st.do = "label" => rows' = rows
    BY <1>1 DEF Statement
  <2>4. label' \in {label, None} \/ (st.do = "label" /\ label' = st.profile)
    BY <1>1 DEF Statement
  <2> QED BY <2>1, <2>2, <2>3, <2>4
<1>5. /\ todo' = [todo EXCEPT ![s] = Tail(q)]
      /\ alone' = alone \cap {s}
      /\ UNCHANGED <<phase, goal, kills>>
  BY <1>1, <1>2 DEF Statement, SeedInv
<1>6. TypeOK'
  BY <1>4, <1>5 DEF SeedInv, TypeOK, Running, Seeders
<1>7. todo' \in [Seeders -> Seq(Commands)]
  BY <1>3, <1>5 DEF SeedInv
<1>8. \A t \in alone' : OnItsWay(t)'
  <2>1. ASSUME NEW t \in alone' PROVE OnItsWay(t)'
    <3>1. t = s /\ s \in alone
      BY <1>5
    <3> QED BY <3>1, StatementAdvances
  <2> QED BY <2>1
<1> QED BY <1>6, <1>7, <1>8 DEF SeedInv

\* A seeder that leaves, however it does, changes nothing for the others.
LEMMA LeaveKeepsSeed ==
  ASSUME SeedInv, NEW s \in Seeders, Leave(s, IF s = Server THEN "down" ELSE "failed")
           \/ Leave(s, IF s = Server THEN "up" ELSE "ended")
           \/ Leave(s, IF s = Server THEN "down" ELSE "killed"),
         kills' \in 0..MaxKills
  PROVE  SeedInv'
<1>1. PICK to \in {"down", "failed", "up", "ended", "killed"} :
        /\ phase' = [phase EXCEPT ![s] = to]
        /\ todo' = [todo EXCEPT ![s] = <<>>]
        /\ goal' = [goal EXCEPT ![s] = None]
        /\ alone' = alone \ {s}
        /\ UNCHANGED <<rows, label>>
  BY DEF Leave
<1>2. TypeOK'
  BY <1>1 DEF SeedInv, TypeOK, Running, Seeders
<1>3. todo' \in [Seeders -> Seq(Commands)]
  BY <1>1, EmptySeq DEF SeedInv
<1>4. ASSUME NEW t \in alone' PROVE OnItsWay(t)'
  <2>1. t \in alone /\ t # s /\ t \in Seeders
    BY <1>1 DEF SeedInv, TypeOK
  <2>2. todo'[t] = todo[t] /\ goal'[t] = goal[t]
    BY <1>1, <2>1 DEF SeedInv, TypeOK
  <2>3. OnItsWay(t)
    BY <2>1 DEF SeedInv
  <2> QED BY <1>1, <2>2, <2>3, WayStays
<1> QED BY <1>2, <1>3, <1>4 DEF SeedInv

\* The console writes a whole profile, and disturbs every seeder.
LEMMA UiLoadKeepsSeed ==
  ASSUME SeedInv, UiLoad
  PROVE  SeedInv'
<1>1. PICK p \in Profiles : rows' = Whole(p) /\ label' = p
  BY DEF UiLoad
<1>2. Whole(p) \subseteq Rows
  <2>1. \A i \in DOMAIN Fill[p] : Fill[p][i] \in Inserts
    BY FillFacts, ElementOfSeq, LenProperties
  <2>2. \A i \in DOMAIN Fill[p] : Fill[p][i].rows \subseteq Rows
    BY <2>1, InsertFacts
  <2> QED BY <2>2 DEF Whole
<1>3. TypeOK'
  BY <1>1, <1>2 DEF UiLoad, SeedInv, TypeOK, Seeders
<1> QED BY <1>3 DEF UiLoad, SeedInv

\* A step beside the seeders, which may use up a kill.
LEMMA OthersKeepSeed ==
  ASSUME SeedInv, UNCHANGED <<rows, label, phase, todo, goal, alone>>, kills' \in 0..MaxKills
  PROVE  SeedInv'
<1>1. TypeOK'
  BY DEF SeedInv, TypeOK, Running, Seeders
<1>2. \A t \in alone' : OnItsWay(t)'
  <2>1. ASSUME NEW t \in alone' PROVE OnItsWay(t)'
    <3>1. OnItsWay(t)
      BY DEF SeedInv
    <3> QED BY <3>1, WayStays
  <2> QED BY <2>1
<1> QED BY <1>1, <1>2 DEF SeedInv

\* The steps of this module.
LEMMA SeedStepKeeps ==
  ASSUME SeedInv, Next
  PROVE  SeedInv'
<1>1. CASE Start
  <2>1. Server \in Seeders /\ phase[Server] # "running"
    BY <1>1 DEF Start, Seeders
  <2>2. \/ Begin(Server, "keep", <<Upsert({"options"}, {})>>)
        \/ Begin(Server, "minimal", Script("minimal"))
    BY <1>1 DEF Start
  <2> QED BY <2>1, <2>2, BeginKeepsSeed DEF Profiles
<1>2. CASE UiLoad
  BY <1>2, UiLoadKeepsSeed
<1>3. ASSUME NEW s \in Cli, RunCli(s) PROVE SeedInv'
  <2>1. s \in Seeders /\ phase[s] # "running"
    BY <1>3 DEF RunCli, Seeders
  <2>2. PICK p \in Profiles : Begin(s, p, Script(p))
    BY <1>3 DEF RunCli
  <2> QED BY <2>1, <2>2, BeginKeepsSeed
<1>4. ASSUME NEW s \in Seeders, Statement(s) PROVE SeedInv'
  BY <1>4, StatementKeepsSeed
<1>5. ASSUME NEW s \in Seeders, Fail(s) \/ Finish(s) \/ Kill(s) PROVE SeedInv'
  <2>1. kills' \in 0..MaxKills
    BY <1>5, MaxKillsAssumption DEF Fail, Finish, Kill, SeedInv, TypeOK
  <2> QED BY <1>5, <2>1, LeaveKeepsSeed DEF Fail, Finish, Kill
<1> QED BY <1>1, <1>2, <1>3, <1>4, <1>5 DEF Next

\* An empty database, and nobody at work.
LEMMA SeedStarts ==
  ASSUME Init
  PROVE  SeedInv
<1>1. TypeOK
  BY MaxKillsAssumption DEF Init, TypeOK, Running
<1> QED BY <1>1, EmptySeq DEF Init, SeedInv

-----------------------------------------------------------------------------
\* Theorems.

\* The invariant holds in every state of every behaviour.
THEOREM SeedInvariance == Spec => []SeedInv
<1>1. Init => SeedInv
  BY SeedStarts
<1>2. SeedInv /\ [Next]_vars => SeedInv'
  <2>1. ASSUME SeedInv, UNCHANGED vars PROVE SeedInv'
    <3>1. kills' \in 0..MaxKills
      BY <2>1 DEF vars, SeedInv, TypeOK
    <3> QED BY <2>1, <3>1, OthersKeepSeed DEF vars
  <2> QED BY <2>1, SeedStepKeeps
<1> QED BY <1>1, <1>2, PTL DEF Spec

\* Every variable has its type.
THEOREM SeedTypesHold == Spec => []TypeOK
<1>1. SeedInv => TypeOK
  BY DEF SeedInv
<1> QED BY <1>1, SeedInvariance, PTL

\* At the end of its script an undisturbed seeder has put all of it there.
LEMMA FinishedIsWhole ==
  ASSUME SeedInv, NEW s \in alone, Finish(s)
  PROVE  IF goal[s] = "keep" THEN "options" \in rows
         ELSE rows = Whole(goal[s]) /\ label = goal[s]
<1>1. todo[s] = <<>> /\ OnItsWay(s)
  BY DEF Finish, SeedInv
<1>2. CASE goal[s] = "keep" /\ (todo[s] = <<Upsert({"options"}, {})>> \/ "options" \in rows)
  <2>1. <<Upsert({"options"}, {})>> # <<>>
    OBVIOUS
  <2> QED BY <1>1, <1>2, <2>1
<1>3. CASE \E p \in Profiles : \E i \in 0..Len(Script(p)) :
             goal[s] = p /\ Rest(todo[s], Script(p), i) /\ Stage(p, i)
  <2>1. PICK p \in Profiles : \E i \in 0..Len(Script(p)) :
          goal[s] = p /\ Rest(todo[s], Script(p), i) /\ Stage(p, i)
    BY <1>3
  <2>2. PICK i \in 0..Len(Script(p)) :
          goal[s] = p /\ Rest(todo[s], Script(p), i) /\ Stage(p, i)
    BY <2>1
  <2>3. Len(Script(p)) \in Nat
    BY ScriptFacts
  <2>4. i = Len(Script(p))
    <3>1. Len(<<>>) = 0
      BY EmptySeq
    <3> QED BY <1>1, <2>2, <2>3, <3>1 DEF Rest
  <2>5. rows = Whole(p) /\ label = p
    BY <2>2, <2>4 DEF Stage
  <2>6. p # "keep"
    BY DEF Profiles, Sized
  <2> QED BY <2>2, <2>5, <2>6
<1> QED BY <1>1, <1>2, <1>3 DEF OnItsWay

\* Whatever killed, failed and interleaved runs left behind, a run nobody
\* disturbs ends with exactly its profile and its label.
THEOREM SoloSeedsAreWhole == Spec => SoloSeedIsWhole
<1>1. SeedInv => \A s \in alone : Finish(s) =>
                   IF goal[s] = "keep" THEN "options" \in rows
                   ELSE rows = Whole(goal[s]) /\ label = goal[s]
  BY FinishedIsWhole
<1> QED BY <1>1, SeedInvariance, PTL DEF SoloSeedIsWhole

=============================================================================
