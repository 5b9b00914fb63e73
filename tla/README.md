# A TLA+ model of the oVirt API simulator

The simulator answers the oVirt Engine REST API from a PostgreSQL database: a FastAPI application on
one asyncio event loop, handlers that run SQL statements one after the other, and seeders that fill
the lab. There is little computation in it and much interleaving: **no request runs in a transaction**.
`handle_engine_request` takes a pooled connection (`src/app/ovirt/routes/engine.py:168`), asyncpg
autocommits, and every `await` lets other requests in. What a handler read may be stale when it
writes, what it wrote before it failed stays, and a process that dies leaves a half-done request
behind; so does a statement that exceeds `command_timeout` (`src/app/db/pool.py:53`). The constraints of
`src/app/db/migrations/001_ovirt_core.sql` are what holds the lab together.
The models take that literally: **one action is one SQL statement**.

## Inventory

| Component | State | Operations | What is hard | What must hold |
|---|---|---|---|---|
| VMs (`engine.py` `_handle_vms`) | `ov_vms` | create, clone, update, remove, power actions, job-only actions | every handler reads a row and writes from it later | a VM runs only on a host of its cluster; names unique in a cluster; a deleted VM stays deleted |
| Hosts, clusters, data centers | `ov_hosts`, `ov_clusters`, `ov_datacenters` | CRUD, through the parent's URL too, host actions | cascades under handlers that hold ids; a parent read, or not even read, before the INSERT | the inventory is a tree; a write stays below the parent it names |
| Networks, profiles, storage domains, connections, quotas, affinity groups, identity, tags, bookmarks, events | a table each, `ov_storage_domain_attachments`, `ov_tag_assignments` | CRUD, attach, activate, detach, assign a tag | as above; a tag is made, found and assigned in three statements | as above; an error leaves nothing behind; what is deleted is gone; PUT changes what it names |
| Templates, snapshots | `ov_templates`, their children in `ov_api_objects`, `ov_snapshots` | create (templates from a VM), remove | NICs and disks of the VM read at two moments, copied one by one | a template was given what its VM kept; no snapshot without its VM |
| Disks, attachments, NICs | `ov_disks`, `ov_disk_attachments`, `ov_nics` | attach, detach, add, remove, copy for a clone | several inserts, each committed; check, then insert | nothing hangs on what is gone; no disk twice on a VM; no orphan after a success; a clone is a copy |
| Jobs (`jobs.py`) | `ov_jobs`, `ov_job_steps` | `create_job`, called last by nearly every handler | options may be missing; a crash between job and step | the log tells the truth; a success has its job and step |
| Options (`settings.py`) | `ov_api_objects` | `option_value`, deletable through the generic API | a missing row makes handlers fail half way | handlers end; a restart repairs |
| Seeding (`seed.py`, `demo_datacenter.py`, `seed_nested.py`, `seed_cli.py`, `lifespan.py`, console) | every table, `ov_demo_meta` | clear and fill, start, load, unload | two seeders at once; processes killed anywhere | a seed run is whole; the simulator comes up again; the label tells the contents |
| Generic objects (`schema_engine.py`) | `ov_api_objects` | CRUD on collections and sub-collections | read-modify-write of whole documents | no update lost silently |
| Authentication (`auth.py`, `sso.py`, `deps.py`) | `ov_tokens`, pooled connections | password and basic login, bearer, revoke | two acquisitions per request on a bounded pool; revocation and expiry | no revoked token is accepted; nobody waits for ever |
| Migrations (`db/migrations.py`, `pool.py` `is_ready`, `health.py`) | `schema_migrations` | `migrate_cli` before the simulator starts, `/health/ready` | two migrators, kills, edited files; readiness looks at the highest version alone | a version is applied once and whole; only the packaged schema is served |
| Contract packs | one in-process pack, the route table | apply, activate | none: the swap has no `await` in it | table and pack agree |
| Resource repository, `retry_transient` | — | — | nothing in the application calls them | — |
| XML/JSON, console pages, tools, charts | none | formatting, static files | — | — |

Components call each other in one direction: a route authenticates (a connection of its own), then a
handler runs on another connection, reads options, writes tables, and ends in `create_job`. Seeders
and handlers meet only in the database.

## Plan

In this order of importance:

1. `Tables` (rows as functions), `VmInventory` (the abstract promise), `EngineVms` (the handlers,
   shown to implement it), `EngineVms_proofs`.
2. `SeedLifecycle`: start, `seed_cli`, console, kills; `SeedLifecycle_proofs`.
3. `VmStorage`: attachments, disks, NICs, the copying part of clone; `VmStorage_proofs`.
4. `AuthPool`: tokens and pooled connections; every Engine request waits for two in turn;
   `AuthPool_proofs`.
5. `GenericObjects`: PUT as read-modify-write of whole documents, sub-collections addressed by id;
   `GenericObjects_proofs`.
6. `InventorySchema`, `InventoryTree` (the abstract promise) and `EngineTree` (the handlers of
   everything that is not a VM, shown to implement it); `EngineTree_proofs`.
7. `VmTemplates`: templates made from VMs and snapshots, on top of `VmStorage`;
   `VmTemplates_proofs`, on top of `VmStorage_proofs`.
8. `Deployment`: migrators and the gate before the simulator, on top of `SeedLifecycle`;
   `Deployment_proofs`, on top of `SeedLifecycle_proofs`.

All of it is written. Every invariant and action property that a run shows to hold is also proved;
what may be added is an abstract specification of `AuthPool` and of the storage of a VM.

## Modules and how they correspond to the code

**`Tables`** — a table is a function from the ids of existing rows to rows; `Insert` and `Delete` are
the statements of that name.

**`VmInventory`** — the abstract specification: VMs, hosts and clusters change only by atomic steps
(create, rename, set power, remove, and the removals of hosts and clusters with all they take along).
It knows no request and no stale read.

**`EngineVms`** — the same inventory as the program runs it. `pc[r]` is the next statement of request
`r`, `rq[r]` its Python locals. `CreateResolve`/`InsertVm`/`CreateReread` are POST /vms,
`CloneRead`/`CloneCheck`/`InsertVm`/`CloneCopy` POST /vms/{id}/clone, `UpdateRead`/`UpdateWrite`/
`UpdateReread` PUT, `RemoveRead`/`RemoveDelete` DELETE, `ActionRead`/`ActionPrepare`/`ActionWrite` the
power actions, `JobInsert`/`StepInsert` the tail all of them share. Adding and removing hosts and
clusters are single statements. `RemoveOption` is DELETE of an engine option through the generic API,
`Restart` the death of the process and its start on the same database. `options` is one Boolean for
all the option rows. Abstracted: a VM's other columns; templates (a foreign key that may fail at any
insert); `Power` and `Release` are constants, so edits of the option that holds the action map are
not modelled. `TimeOut` is a statement that exceeds `command_timeout`: the request ends with 500 and
what it wrote stays; when the statement took effect all the same, its own action comes before
`TimeOut`. `Seed` is any inventory that obeys the schema's constraints. The large and big demos
place VMs on hosts of any cluster of the lab (`src/app/ovirt/demo_datacenter.py:404`), so
`PlacedInCluster` says of each VM that its host is there and either of the VM's cluster or the very host
the seed put it on: handlers add no misplaced VM. `UniqueNames` is per cluster, as the index is: the lab-wide
check of a clone is made one statement before the insert and does not hold against a second request.
`Restart` is one on a sized demo; under `minimal` a start seeds anew, which is `SeedLifecycle`.

**`SeedLifecycle`** — a seeder is a list of statements, `todo[s]`, each an autocommitted step; rows and
tables that are always written together, or that no property tells apart, are one: the late group, the
snapshot, the quota and the affinity group of `minimal` count with the rows before them, and tags among
the rows they need are left out. `Start` is `lifespan`, `RunCli` is `seed_cli`,
`UiLoad` the console's load and unload. The console's is one transaction that begins with TRUNCATE,
whose ACCESS EXCLUSIVE locks let nobody else in until it ends, hence one action. An `executemany` is
atomic in asyncpg and one statement here. `alone` remembers which running seeder nobody has disturbed
and is read by properties only. API requests served while a seeder runs are not modelled, and `big` is
left out: it differs from `large` in numbers only.

**`VmStorage`** — the tables below a VM. `AttachNew`, `PickDomain`, `InsertDisk`, `InsertAtt`,
`RereadAtt` are POST of an attachment with a new disk; `AttachExisting`, `CheckAttached`, `InsertAtt`
with an existing one; `CloneVm`, `ReadDisks`, `CopyDisk`, `CopyAtt`, `ReadNics`, `CopyNic` are
`_copy_vm_storage_and_nics` (`CloneCopy` in `EngineVms`). Names, sizes and interfaces of disks play no
part. `loose` (disks of the seed that hang on no VM, or left on their own by an operator) and `had`
(NICs of a clone's source nobody took away) are history that only properties read. A NIC copied to a
clone may be refused because the clone or the NIC's profile is gone (`CopyNic`), and any statement may
time out (`TimeOut`). PUT and actions of
disks and NIC plugging change no modelled state.

**`VmTemplates`** — extends `VmStorage` by three tables and two handlers; `Storage` is a step of
`VmStorage`, which takes the snapshots of a removed VM along. `TemplateRead`, `TemplateInsert`,
`TemplateReadNics`, `TemplateNic`, `TemplateReadDisks`, `TemplateDisk`, `TemplateJob`,
`TemplateReread` are POST /templates with a VM, one statement each; `SnapshotInsert`, `SnapshotJob`,
`SnapshotReread` POST of a snapshot. Whether the options are there is one choice of the database at
each statement that reads one. A child is known by template, kind and name, as its id is made of
these; so of two disks with one name the second makes no child, which `TemplateIsWhole`, a statement
about names, does not object to. Children outlive their template (`RemoveTemplate`) and go one by one
by DELETE /templates/{id}/nics/{child} or /diskattachments/{child}, which fall through to the schema
engine (`RemoveChild`), even while the template is being made. `taken` remembers those removed;
`TemplateIsWhole` speaks of the children a template was `given`. PUT of a child changes its data only.

**`InventorySchema`** — the foreign keys, unique indexes and cascades of the tables beside the VMs, as
functions of one table of all objects: `Above` is the parent of each kind, `NamedOnce` the kinds whose
names are unique in the lab, `Subtree` what a DELETE takes along, `Cut` the attachments that go too.
Permissions, which the schema hangs under users and groups, are written by the seed alone and all granted
to users, whom no handler removes; so
that cascade is left out.

**`InventoryTree`** — the abstract specification of that part: `Create`, `Change`, `Remove`, `SetLink`,
`DropLink`, each atomic, on a tree. It knows neither requests nor statements.

**`EngineTree`** — its handlers. They share one shape, so a handler is a record (`DataCenters`,
`DcClusters`, ..., `SimpleTable`) that says which methods it has, whether its URL goes through the
parent and whether it looks that parent up, when it reads an option, which methods check the row
first, and which fields PUT may set; `Routes` is `_dispatch`. `AddBegin`/`AddInsert` or `AddRefused`/
`AddReread` are POST, `PutBegin`/`PutWrite` or `PutRefused`/`PutReread` PUT, `RemoveBegin`/
`RemoveDelete` DELETE, `Read` and its siblings GET. `AttachBegin`, `AttachInsert`, `AttachReread`,
`SwitchLink`, `Detach`, `ReadLink` are the storage domains of a data center; `TagById`, `TagByName`,
`TagFind`, `TagAssign`, `TagReread` POST /vms/{id}/tags; `Act`, `JobInsert`, `StepInsert` the actions
that only write a job. A row is its kind, parent, name and one more field, `note`, that stands for
description, address or value. `Blank` is what POST gives that field when the body leaves it out.
`Unknown` is an id a client makes up. `AddReread` and its like answer 404 for a row that is gone:
the entity builder fails on `None`, and `handle_engine_request` turns that into 404. `TimeOut` may end
any request at any statement with 500, the reread after an INSERT included: the object is there then, and
`NoResidue` claims nothing of a POST answered 500.

**`Deployment`** — extends `SeedLifecycle` by the migrators. `ReadApplied` is CREATE TABLE IF NOT
EXISTS with the SELECT, `Apply` one version in its transaction, `Collide` the key violation of the
slower of two, `Mismatch` the MigrationError of an edited file; `StartMigrated` is `Start` or
`StartUnread` behind the gate of the init container or Compose's `service_completed_successfully`.
`StartUnread` is a start whose read of the label failed for whatever reason. `seed_cli` waits for no
migrator and fails while there are no tables (`FailNoTables`). The repository packages one version;
`Latest` is a constant because the code is written for several. The race of two first CREATE TABLE IF
NOT EXISTS, which PostgreSQL may end with an error, is a migrator that dies, as `KillMigrator`.

**`AuthPool`** — who gets a connection and what for. `pc[r]` is `auth` or `handler` while a request
waits in `pool.acquire()` and the name of its statement while it holds a connection; `Keep` goes on
with the same one, `Release` leaves the `async with` block, by whatever exit. An Engine request is
`Acquire`, `Lookup`, `Roles` (the end of `require_auth`), `Acquire`, `Work`; with Basic credentials
`Password`, `InsertToken`, `Reread`, `Roles` come first; `Info` and `Revoke` are the SSO endpoints, and
`Reset` the console's load and unload, which truncate `ov_tokens`. No handler removes a user, so none
takes tokens along. The row of an SSO login and the one of a Basic session differ in their TTL only and
share one. `live` remembers whether the token was live when the request arrived, for `DeadStaysDead`.
A token revoked *after* `Lookup` is used to the end of its request; the property does not forbid it,
nor does the code.

**`GenericObjects`** — `ov_api_objects` as the schema engine uses it. `Post`, `Remove` cover both
levels; `PutRead`/`PutWrite` are PUT of a top-level object, `SubPut` the one below a parent, which
finds its row by the id alone and replaces the document; `Reread` is the row each answer shows. Two
fields stand for the document: `name`, which has a column too, and `note`. `last` (what was last given
to each field), `stale` and `disturbed` are history that only properties read. Engine options live in
the same table and are left out, for each start writes them anew; `EngineVms` has them.

Names of the form `X_Y` are the operator `X` with a plausible bug `Y`. No specification uses them:
they are there to show that each property can fail.

## Runs

| Run | Configuration | Shows |
|---|---|---|
| `vms_safety` | 2 VMs, 2 hosts, 2 clusters, 2 names, 2 concurrent requests | types, placement, names, the job log, no resurrection, and that `EngineVms` implements `VmInventory` |
| `vms_liveness` | 2 VMs, of which a demo has placed one on a host of the other cluster, 1 host, 2 clusters, 2 requests, fair | the inductive invariant on reachable states; every request is answered or lost in a restart |
| `seed` | `Deployment`: two migrators, two versions, a new database or one with an edited file; one `seed_cli` run beside the simulator, two kills, fair as the chart is | no version by halves and no gap; only the packaged schema is served; an undisturbed seeder leaves exactly its profile whatever debris it found; under the chart's restarts the simulator ends up ready |
| `seed_killed` | no overlap, two kills | **violation**: a demo cleared half way keeps its label and is kept |
| `seed_race` | overlap, no kills | **violation**: two seeders end in an inventory the label does not describe |
| `storage_safety` | 2 VMs, 3 disks, 3 attachments, 2 requests, symmetry | no double attachment, no unexplained orphan, a clone copies the disks it read |
| `storage_liveness` | `VmTemplates`: 2 VMs, 2 disks, 2 attachments, 2 NIC names, 1 template and 1 snapshot to make, 1 request, fair | nothing hangs on what is gone; a template was given what its VM kept; no snapshot without its VM; every loop ends |
| `auth` | 2 requests, a pool of 1, 3 tokens of which 1 is old, TTL of 1 tick of 2, fair | a token dead on arrival opens nothing; connections neither leak nor double; every request is answered |
| `objects` | 2 ids, 2 collections, 1 parent, 2 values, 2 requests | nothing moves or comes back; PUT keeps each field's last value where no race or foreign path came in |
| `objects_lost` | as above | **violation**: of two PUTs that name different fields one is written back |
| `tree` | 12 objects of 12 kinds, 2 ids to make, 2 names, 2 notes, 1 VM to tag, 2 requests, symmetry | the inventory is a tree with unique names; no residue of a POST refused with 400, 404 or 409; what is deleted is gone; tags answered are there; writes touch what they name; `EngineTree` implements `InventoryTree` |
| `storage_clone` | the storage of `storage_liveness` | **violation**: a clone answered 200 without its source's NICs |

Why the bounds are enough. A race here needs two actors on one row: two requests, or one request and
a removal. `Vm` has one id more than the seed, so one VM is created and every other slot is a VM that
may vanish; two clusters and two hosts are what "the wrong cluster" and "another host" need. Ids are
spent for good, as `uuid4()` never repeats one, so behaviours end when the ids do: `VmStorage` is
checked without deadlock checking for that reason (requests are made once and bounded id sets run
out; the program does not), and its `Answered` excuses a request waiting for an id (`NoIdsLeft`).
`EngineVms` and `SeedLifecycle` are checked
for deadlock. In `SeedLifecycle`, `MaxKills` = 2 lets both
the seeder and the simulator die, or the simulator twice; `Overlap` separates what two seeders do to
each other from what one dying seeder does. The storage safety run has
two requests, but NICs only while one of them was made and nobody changed disks or storage domains
beside it (the constraint `MCNicsBound`), the liveness run has one request and no such bound: their
product is out of reach in the time allowed, and NICs and attachments do not interact.

A pool of one is the smallest limit at which a request that kept its first connection would block
itself and the other; two requests make one wait on the other. Three tokens are one old and one per
request that issues, so ids never run out there. `Ttl` = 1 and `MaxTime` = 2 let a token expire
before, during and after a request, and one that is issued late expire or not. In `objects` a parent
and a top-level object, two collections and a spare id give each write a wrong row to hit; two
values tell old from new. Both runs are checked for deadlock.

In `tree` the seed has a chain of three in two branches (data center, cluster, host; data center,
network, profile), which is all the depth the schema has, a second data center for URLs that go
through the wrong parent, and one object of most other kinds; two new ids let each request make an
object, below the other's if it likes. A third request could only repeat what one of two does to the
other, for no handler reads more than one foreign row it depends on later. The run is checked for
deadlock. In `seed` two versions are the fewest that can leave a gap, two migrators the fewest that
race. `storage_liveness` has one request because everything else that changes the tables runs beside
it at any moment; what two requests do to each other is `storage_safety`.

Symmetry is used in `storage_safety` and `tree`, over requests or ids the seed does not name; neither
has a liveness property.

## Fairness

`WF` on the statements of each request: they commit at once and wait for no other request, and asyncio
resumes a coroutine whose statement returned. Beginning a request, removing things, deleting options,
timing out and dying are never fair. In `AuthPool` waiting for a connection is a step like the others:
asyncpg hands a returned connection to a waiter, and as each request of a run is made once, no stream of
newcomers can starve one.

In `Deployment` the fairness is that of the Helm chart, `ChartFairness`. A running seeder or migrator
goes on. A Deployment's pods have restartPolicy Always, so the kubelet starts the init container
`migrate` again until it ends well, and the simulator whenever it ends
(`src/helm/ovirt-api-simulator/templates/deployment.yaml:19`); the image runs uvicorn without
`--reload`, which exits when the lifespan fails (`ENTRYPOINT` of `src/Dockerfile`). **Compose promises
neither**: its `migrate` has `restart: "no"` (`src/docker-compose.yml:63`) and its simulator runs
`uvicorn --reload` (`src/docker-compose.yml:84`), whose supervisor stays up over a failed lifespan, so
`restart: unless-stopped` never applies. `ReadyAgain` is therefore claimed of the chart only; the safety
properties of `Deployment` need no fairness and hold of both. A chart installed with
`migrate.enabled=false` has no gate and is outside the model, as are edits of a bind-mounted migration
between two starts. Kills are bounded, and nothing is promised where an applied file was edited: such a
migrator fails for ever, by design. `EngineTree` and `GenericObjects` have
safety properties only.

## Findings

* `seed_killed` (`src/app/ovirt/seed.py:52`): the label is truncated last, so a `seed_cli` that dies
  while clearing leaves "large" over a lab without VMs, and each later start keeps it, which is not
  what `docs/seed-profiles.md` says a kept demo is. Any new seed run repairs it (`SoloSeedIsWhole`).
* `seed_race` (`src/app/lifespan.py:53`): nothing excludes a start that seeds and the seed Job.
* `storage_clone` (`src/app/ovirt/routes/engine.py:2397`): NICs are read after disks, the source's
  existence is not checked again.

* `objects_lost` (`src/app/ovirt/schema_engine.py:140`): PUT merges into a document it read one
  statement earlier and writes the whole, so of two overlapping PUTs one is partly undone, although
  both were answered 200.

## Proofs

Every safety property and action property of the runs that pass, and both refinements, are theorems,
for every value of the constants that satisfies the named assumptions. Each invariant `IInv` below was
checked by TLC on the states of the component's run before it was proved.

| Module | Inductive invariant | Proved from it |
|---|---|---|
| `EngineVms_proofs` | `IInv` of `EngineVms` | `TypeOK`, `PlacedInCluster`, `UniqueNames`, `JobsTellTheTruth`, `JobsComplete`, `NoResurrection`, `ImplementsInventory` |
| `EngineTree_proofs` | `IInv` | `TypeOK`, `TreeSound`, `NoResidue`, `GoneForGood`, `TagsTellTheTruth`, `ScopedWrites`, `NamedFieldsOnly`, `ImplementsTree` |
| `VmStorage_proofs` | `IInv` | `TypeOK`, `AttachedOnce`, `NoGhosts`, `OrphansExplained`, `CloneCopiesDisks` |
| `VmTemplates_proofs` | `AllInv` | `TemplateIsWhole`, `SnapshotsOfVms`, and of `VmStorage` `NoGhosts`, `OrphansExplained`, `AttachedOnce` under `SpecAll` |
| `AuthPool_proofs` | `IInv` | `TypeOK`, `DeadStaysDead`, `PoolBalance` |
| `GenericObjects_proofs` | `IInv` | `TypeOK`, `UndisturbedKeeps`, `HomeKept` |
| `SeedLifecycle_proofs` | `SeedInv` | `TypeOK`, `SoloSeedIsWhole` |
| `Deployment_proofs` | `IInv`; `SeedInv` under `SpecAll` | `ReadyIsMigrated`, `ServesPackagedSchema`; `TypeOK`, `SoloSeedIsWhole` in the whole deployment |

**What is assumed.** `SeedAssumption` (one in each of `EngineVms`, `EngineTree`, `VmStorage`,
`GenericObjects`): the tables at the start obey the constraints the database enforces on any row,
however it came in; in `GenericObjects`, that top-level documents show the name of their row.
`NoneAssumption`, `UnknownAssumption`, `TokenAssumption`: Python's `None`, and an id nobody made, are
none of the ids, names, tokens or answers. `ActionAssumption`: the actions that free a VM's host have a
status too. `PoolAssumption`: the pool has at least one connection. `LatestAssumption`: there is a first
version. `ClockAssumption`, `MaxKillsAssumption`, `OverlapAssumption`, `ServerAssumption`,
`BlankAssumption`, `DiskNameAssumption`: the types of the constants. No set is assumed finite: that the
requests holding a connection are is part of `AuthPool_proofs`.

**Why the properties are not inductive**, and what is added:

*VMs.* An action's handler writes a host it read earlier. What carries `PlacedInCluster` is
`StaleReadAgrees`: a VM never changes its cluster and a host never changes its cluster, and no id is
used twice (`LiveIsSpent`), so whatever the handler remembers of the VM and the host is either still
true or about a row that is gone, and then the UPDATE matches nothing or the foreign key refuses it. A
host the seed put the VM on is excepted in both.
`TargetKnown` does the same for the job log: the target of a request past its write has existed, and
a removed one cannot come back. `JobFollows` orders job, step and answer; a time-out may
leave a job without its step, but only behind an answer 500. `LocalsKnown` says which
locals are assigned at which statement. The proof has one lemma per action and conjunct group; the
refinement maps each write to the abstract step of its kind.

*Tree.* `TreeSound` alone is a matter of the three statements: `InsertSound`, `ChangeSound` and
`DeleteSound` show that each keeps any tree of the schema a tree, the last because the schema is at most
three generations deep (`AboveFacts`) and `Subtree` therefore takes every descendant. What the answers
say is harder: a handler checked the row one statement ago. `RowKnown` says that an id is spent for good
and its row keeps its kind; `AtPoint` what the handler relies on at each statement (that a tag assigned
is still assigned or gone, that both ends of an attachment are of the right kind, that nothing was
inserted before an option was read); `AnswerHolds` what its answer keeps meaning afterwards;
`ScopeKnown` that a PUT holds no value for a field its body does not name and that a handler goes
through a parent only for kinds that have one. `Stable` (ids, kinds and parents of what lives stay; what
is gone does not come back) is shown of each step, and `KnownStays` concludes that what *other* requests
know stays true. `Refinement` maps each write to `Create`, `Change`, `Remove`, `SetLink` or `DropLink`,
and all else to a stutter.

*Storage.* `TablesOK` is what the constraints keep true. `AttachedOnce` is among it: the index refuses
what the check let through. `OrphansExplained` needs to be stated of a request at each statement:
only the last disk a clone made can be unattached, for the one before was attached, or the request
ended, before the next was inserted. `CloneCopiesDisks` needs that the copies made and the disks left
make up those read, all through the loop, and that each copy was a new id when it was made
(`Different`). `StorageInv` leaves the points of requests open, so that `VmTemplates_proofs` can
cite each lemma for requests that are at statements of its own.

*Templates.* `TemplateIsWhole` speaks of the end; `NicsDrawn` and `DisksDrawn` say it of each
statement: what the VM has had all along is still to be read, still to be copied, or copied.
`DrawnStays` shows that nobody else can take a thing from this but by removing it from the VM, as ids
are not used twice, and a child removed from a template is still among those it was `given`.

*Tokens and the pool.* `DeadEnd` follows a request that came with a dead token: it still has that
token, which is still dead (a row is revoked, expired or wiped; its id is not issued again, the clock
does not go back), and it is at a statement before the look-up or past its refusal. `PoolOK` adds to
`PoolBalance` that the holders are a finite set, without which their number means nothing.

*Generic objects.* `PutWrite` merges into what `PutRead` saw. `ReadIsCurrent` adds that a document a
request holds is either stale or the one in the row: `OthersAge` shows that whoever writes an object
makes all documents of it held by others stale (the step `Aged` in `Go`), and `WriteKeeps` does the
rest for both kinds of PUT.

*Seeding.* `SoloSeedIsWhole` is about the last statement of a script. `OnItsWay` says where an
undisturbed seeder is: the rest of its script is a suffix of it (`Rest`) and the database is at that
`Stage`, first without the tables truncated so far, then with exactly the rows inserted so far. Its
proof walks through the scripts of `minimal`, `small` and `large` as they are. The same lemmas serve
`Deployment`, where migrators and starts that cannot read the label come in between.

*Migrations.* What makes `Apply` keep the recorded versions a prefix is that a migrator has seen all
below the one it applies, and what it has seen is still recorded, with the same checksum
(`SeenIsRecorded`); a migrator that ended has seen all (`EndedIsDone`), and the simulator left "down"
only past the gate (`StartedIsMigrated`). The steps of seeders touch none of this but the phase of
the simulator.

**What the proofs changed.** Two statements of the model were not what they were meant to be.
`VmStorage` counted disks the seed leaves unattached as nobody's, which its run could not show, as its
seed attaches every disk; they are in `loose` from the start now. `OrphansExplained` took any ended
request for an excuse; an answer that says success is one no longer. Two more were only made
provable: `VmTemplates` draws the id of a template from those not spent, and `DemoFill` has the
parentheses that the two parsers of TLA+ need to read it the same way.

**Left to TLC**: liveness (`Answered`, `ReadyAgain`, `Served`), which needs fairness and ENABLED; the
four properties that are expected to fail; and that the models' numbers are those of the code (the
scripts of the seeders and the depth of the schema are definitions the proofs expand).

## Not modelled, and why

* Reads that only show rows of the tables modelled: a storage domain's disks, a host's VMs, a user's
  permissions and roles, a VM's tags.
* PUT of a disk and the disk actions. PUT writes back the size it read when the body has none, so it may
  undo another PUT's (`src/app/ovirt/routes/engine.py:977`); no property says otherwise.
* POST of a template without a VM (the same insert without the copying) and template actions (a job).
* A POST below networks, users and most other objects that no handler has a branch for falls through to
  the schema engine, whose rows the handlers' own lists never show; `GenericObjects` has that engine.
* XML and JSON conversion, search, ordering and paging of lists: formatting without state.
* `contract_loader`, `registry`, `mount`: the swap of a pack runs without an `await`, under a lock, so
  nothing interleaves; the packs are generated data.
* `db/primitives.py` and `db/repositories/resources.py`: no route uses them.
* Row and table locks. PostgreSQL detects the one deadlock they allow (TRUNCATE goes from child to
  parent, a cascading DELETE from parent to child) and turns it into an error of one of the two.
* Tools, charts, Pulumi suites: they run outside the simulator; the seed Job is `RunCli`.
