# Formal models of Grom

Grom is an administration layer in front of a Distribution (OCI) registry: it
issues the tokens Distribution accepts, proxies `/v2/` through a policy
gateway, keeps an inventory of what was pushed, deletes artifacts under review
and retention rules, and takes backups. This directory holds TLA+ models of the
parts whose correctness depends on the order in which things happen, TLC runs
that check them on small instances, and TLAPS proofs of what holds for every
instance. Paths below are relative to `src/backend/internal` unless they start
with `src/`, `docs/` or `backend/`.

- [The system](#the-system)
- [The modules](#the-modules)
- [What the runs show](#what-the-runs-show)
- [Disagreements between the code and its documents](#disagreements-between-the-code-and-its-documents)
- [What is proved](#what-is-proved)
- [What is not modelled](#what-is-not-modelled)
- [Plan](#plan)

## The system

One Go process (`src/backend/cmd/grom`) with a SQL database (SQLite or
PostgreSQL), in front of one Distribution process that a small agent
(`src/backend/cmd/grom-registry-maintenance`) supervises, and a backup agent
(`src/backend/cmd/grom-backup`). Every HTTP request is a goroutine. A database
transaction commits at once; nothing else spans two calls. SQLite has one writer
at a time, PostgreSQL runs transactions beside each other under READ COMMITTED.

| Component | State | Operations | Hard about it |
|---|---|---|---|
| Maintenance controller `platform/maintenance`, gate in `httpapi/server.go` | flag, counter of requests, a channel | `Enter`/leave around counted requests, `Begin`/end around maintenance | a channel captured under a lock and awaited after it; a deadline racing the last request; three callers |
| Deletion plan `registry/application/manifest_deletion.go` | local | `deletionChildDigests` | deletes from the map it ranges over |
| Artifact deletion `registry/application/artifact_deletion_service.go` | `artifact_deletions` rows | `Preview`, `Execute` | reads and deletes Distribution call by call while clients push; partial failure; two administrators |
| Inventory `registry/application/inventory_service.go`, `persistence/bun/lifecycle.go` | manifest, platform and tag rows | `ObservePush`, `Reconcile`, `MarkManifestDeleted` | commits what was read earlier; observations arrive late, in another order, or never; transactions that overlap on PostgreSQL |
| Lifecycle retention `registry/application/lifecycle_service.go` | policies, previews, runs, a lock row | preview, execute, takeover of a stale lock | two executors after a takeover; unguarded status writes; a client that leaves |
| Storage accounting `persistence/bun/storage.go` | snapshots with a version | refresh in every inventory transaction, stale marks | versions come from clocks read before the transaction |
| Gateway `registry/infrastructure/distribution/gateway.go` | none | forwards, checks immutable tags, observes pushes | check then act |
| Repositories `registry/application/repository_service.go` | repositories, policies | create, list, archive, remove, replace policies | a read that writes; removal in several steps |
| Pull-through `registry/application/pull_through_service.go` | in-flight imports, slots | `Ensure`, `settle` | shared imports, project deletion, archival meanwhile |
| Tokens `registry/application/token_service.go` | none | issue, verify | rights outlive the role they came from |
| Identity `identity/` | users, sessions, keys, resets | login, disable, reset, create keys | last administrator, key limit, reset once, login against disable |
| Projects `projects/` | projects, memberships | membership changes, deletion | check then act |
| Registry maintenance agent `platform/registrymaintenance` | the Distribution process, its slot, a channel of fatal errors | `Start`, `Stop`, `collect` | timeouts, restarts, who reads the channel |
| Backup `platform/backup` | last operation, sets, restore marker | start, delete, restore, boot | a lock released around a remote call; an agent that outlives its caller; renames that a stop cuts short, and a roll back that goes on past a failed one |
| Limiter `httpapi/security.go` | failures per key | allow, failure, success | window, block and eviction |
| Database `platform/database` | migration lock | migrate | lock timeouts |
| Audit, configuration, diagnostics, classifier, search, frontend | | | sequential or read-only |

How they meet: the gate surrounds every mutating request, so a collection, a
repository removal and a backup exclude pushes and deletions; requests that only
read go past it, and one of them writes. The gateway calls `ObservePush` after
Distribution accepted a manifest. Manual deletion and retention both start with
`Reconcile`, both plan with `deletionChildDigests` and both delete with
`deleteManifestTree`; the rows they mark are the ones the next plan is computed
from. The deletion of a project asks pull-through for its imports. Collections
and backups call agents in containers of their own, which go on when Grom stops.

What makes each part correct: the gate gives exclusive use, and gives it back;
a plan takes everything that nothing else needs and nothing more; a deletion
takes what was reviewed, keeps what is tagged, listed or referred to, and tells
the truth about it afterwards; the inventory's tables agree with each other, and
with Distribution once nothing moves; retention has one executor until a lock
is stale, uses a preview once and deletes what it showed; a removal leaves no
content behind; imports are counted, however they end; a collector runs alone
and Distribution comes back or somebody is told; a listed backup is of one
moment, and a restored installation has no live credentials of that moment; one
enabled administrator remains. `PROJECT.json` lists, line by line, the hazards
these statements come from.

## The modules

| Module | What it is |
|---|---|
| `ExclusiveGate` | abstract: requests share a gate, one operation at a time may shut it and is granted exclusive use |
| `Maintenance`, `MaintenanceProofs` | the controller: flag, counter, channel; implements `ExclusiveGate` |
| `ManifestGraph`, `ManifestGraphProofs` | operators: inventory rows, references, the largest safe plan, discovery order; what they compute for every inventory |
| `PlanComputation`, `PlanComputationProofs` | `deletionChildDigests`, loop by loop, against `ManifestGraph` |
| `RegistryContent` | what Distribution serves and which tags there are; used by `ArtifactDeletion`, `InventoryTransactions` and `Retention` |
| `ArtifactDeletion`, `ArtifactDeletionProofs` | the inventory tables, pushes with their observations, reconciliations, deletions, failures |
| `InventoryTransactions` | the transactions on the inventory tables, statement by statement, on both databases |
| `RetentionPolicy` | operators: which policies match, what they protect, which rows they select |
| `Retention`, `RetentionProofs` | previews, executions, the lock and its takeover, stops |
| `Repositories` | the repository's row, its removal, listings, pushes with their tokens, tag policies, deletion of the project |
| `PullThrough`, `PullThroughProofs` | EXTENDS `Repositories`: imports next to all of that |
| `CollectionAgent` | the supervisor of Distribution under the collector |
| `Backups` | the manager in Grom and the agent with its volume |
| `Recovery` | EXTENDS `Backups`: restoring a set and booting after it |
| `Operations`, `OperationsProofs` | EXTENDS `Recovery` and `CollectionAgent`: both agents, a writer and the gate in one installation that stops and starts |
| `Access`, `AccessProofs` | users, links, sessions, keys, at the statements of READ COMMITTED |
| `MCMaintenance`, `MCPlanComputation`, `MCArtifactDeletion`, `MCInventoryTransactions`, `MCRetention`, `MCRepositories`, `MCOperations`, `MCAccess` | instances for TLC |

`Repositories`, `PullThrough`, `Backups` and `Operations` use the operators of
`ExclusiveGate` as their gate; that the controller behaves like it is what the
runs and the proofs of `Maintenance` establish.

An operator preceded by a comment that starts with `Fault:` is not part of the
model. It is a plausible mistake in the operation that follows it; the mutants
of `PROJECT.json` put it in place of that operation to see that a property
notices.

**Maintenance.** One variable per field of `Controller`; `closed` is the set of
closed channels, `phase` and `waitsOn` are the program counter and the local
`zero` of each `Begin`. A critical section is one action. A channel is a model
value that `make` may reuse once no `Begin` holds it, which is what lets the
model be finite without a bound on how often the gate is used. `Expire` is the
end of a caller's context; `TimedOwners` are the removal (server.go:1577) and the
backup (manager.go:185), whose contexts have a deadline, while a collection waits
as long as its client does (server.go:451). A refused `Enter` or `Begin` has no
effect and is no action.

**ManifestGraph and PlanComputation.** An inventory is a function from digests
to rows with a state, whether a tag points there, the subject and the platform
digests; a leaf lists itself, as `fetchManifestTree` records it. `DeletionPlan`
is the union of the sets that could go together with the target. The code
computes it by pruning a closure while ranging over that map, so a turn of the
range is an action, any pending digest may be next, and a digest is judged
against what is left by then. `PlannedChildren` is the result as a sequence and
is what `ArtifactDeletion` uses for a call of the function, `PlanComputation`
being the justification.

**ArtifactDeletion.** `live` and `tagOf` are Distribution; `row`, `tagRow` and
`attached` are `registry_manifests.state`, `registry_tags.manifest_id` and
`detached_at IS NULL`. `job[j]` is a handler: its phase and its local variables.
The phases follow the code from top to bottom:

| Phase | Step | Code |
|---|---|---|
| `tags` | `ListTags` | `Reconcile` lists the tags |
| `fetch` | `FetchTag` per tag, then `ListKnown` | fetches every tag's tree, reads the known rows |
| `probe` | `Probe` per digest, then `SweepReferrers` | looks the others up, walks the referrers |
| `commit` | `CommitReconcile` | one transaction |
| `view` | `ReadView` | the rows `Reconcile` returns |
| `resolve`, `aliases`, `relations` | `ResolveTarget`, `ReadAliases`, `ReadRelations` | rest of `Preview`; `Execute` compares with what was reviewed |
| `list`, `record` | `ListInventory`, `RecordStart` | second listing, the record and the audit event |
| `livetags`, `check`, `remove` | `ReadLiveTags`, `Revalidate`, `Remove` | `deleteManifestTree`, once for the target and once per child |
| `mark` | `MarkDeleted` per digest, `Complete` | rows and record |

Between two steps of one handler anything else may happen. A transaction on the
tables is one step, which is what SQLite makes of it; `ActiveIffTagged` and
`ReconcileHeals` depend on that, the other properties speak of Distribution or
of transactions that do not overlap. Three groups of calls are one step: a resolve with the fetch or the delete that follows it directly,
the calls of one listing or one revalidation, and the sweep over all referrers.
A client's push is one step of Distribution and two of its observation. A
manifest's content is a constant: digests are content addresses. `missing` rows
are probed at most once an hour in the code, so which of them are probed is any
subset. The failures are a failing read, a failing audit event, a failing
delete, a delete whose answer is lost, a failing mark, a lost observation, and
the end of a handler at any step.

Not in the model: cached copies of Distribution's answers, manifests with the
same platform listed twice, the creation and removal of the repository itself
and changes of policy during a deletion.

**InventoryTransactions.** `row` and `tagRow` are the committed tables, `tx[x]`
a handler: what it has read of Distribution, where its transaction is, its local
variables, and the rows it has written and not committed. Those rows are its
locks: a statement that writes one of another transaction waits, and then looks
at its conditions again, on what was committed. `kind` is the database: on SQLite
a transaction begins when no other is open (each begins with a write, or is
refused as busy, which is a roll back). `RollBack` stands for a failing call, a
client that leaves, a stop, and the end of a deadlock on PostgreSQL. The phases
of an observation are `work` (the next manifest is upserted), `old`, `tag`,
`exists`, `refresh`, `active`; a reconciliation goes on with `detach` and
`unseen`; a mark has `mark`, `marking`, `marked`. The observations of a tree are
upserted in any order. What a handler reads of Distribution is one step, since
the gaps between those reads are the subject of `ArtifactDeletion`. Left out:
subjects, platform rows, storage facts and snapshots, and the look-up of the
row's identifier in `MarkManifestDeleted`, for rows are never removed.
`AloneIsOneStep` is what lets the other modules take a transaction as one step
where transactions do not overlap.

**Retention.** `run[e]` is a handler of an execution with its run row: `expire`
and `acquire` decide on the preview and take the lock row, `begin` and `start`
make the run, `sweep` is the reconciliation with the second evaluation of the
policies, `items`, `remove`, `mark` and `update` go through the items, `fail`
and `consume` close the run and the preview, `release` gives the lock back. A
failure anywhere leads where the code's early return leads. `Stop` ends the
process, and with it every execution where it is. `Leave` is a client that hangs
up: from then on every call of its handler fails, the completion of the run
included (`CompleteFails`, which also happens to a handler whose client is
there); only the release of the lock has a context of its own. `unclosed` marks
a run whose completion failed. Time is ticks: a preview lives
one, a lock is stale after two. What the items are is computed by
`RetentionPolicy` from the rows, at the preview and again at the execution. Left
out: more than thirty minutes between the lock and the first row of its
run (`StartsPromptly`), in which a takeover finds no run to close; an executor
that was superseded writes its own run row only. `moved` records the tags that
were pushed after an execution's reconciliation: the code asks again about the
reviewed tags only, so a tag that came later goes with its item.

**Repositories and PullThrough.** One path with at most one row (`repo`), its
observed manifests, what Distribution has there (`stored`, `tagOf`), whether the
catalog names it (it may go on naming an emptied path), and the project. A job
is one request of any kind, with what it read in its record: the removal
validates, shuts the gate, drains, validates again and deletes; a listing reads
the catalog and adopts what it found, outside of the gate; a push asks for a
token, which may create the row, puts manifests under it while it lasts, each
evaluated against the policies, forwarded and observed. An import resolves,
joins one under way or leads, counts itself, waits for a slot, looks again,
copies, settles and observes; all of it inside the gate, since the pull that
leads stays until the import ends. One tag, the two statements of
`UpsertDiscoveredRepository` in one step, no index children; a deleted project
is not made again; a copy resolves the tag upstream once more, so it may bring
an older digest than the one that was looked up.

**CollectionAgent, Backups, Recovery, Operations.** The agent of the collector
is the process it supervises (`child`), the slot `commandRuntime` keeps for it,
the channel of fatal errors, and how far `collect` and `Start` are; every
deadline may pass while its caller waits. `Backups` follows the manager: busy or
not, ask the agent with the lock released, look again, shut the gate, drain,
checkpoint, call the agent, record, open. The agent does one job at a time under
its lock, and goes on when the caller has gone (`orphan`). A set holds a version
of the database and one of the registry's files; a write makes them differ and
then agree, so that a consistent set is one in which they are equal. `Recovery`
puts the pieces in place one rename at a time, in the order of the code for
SQLite and for PostgreSQL. A roll back goes through them from the last to the
first, any of them may be stuck, and it goes on with the others; a stop
(`LeftDirty`) ends either where it is. The boot invalidates, records and consumes the
marker. Versions say what belongs together, no more, so a boot relabels what it
finds, and an observation that failed and was only logged (gateway.go:65) gives
the database the version of now as well: it lacks a row, which a reconciliation
repairs, and is of the same moment. When the agent decides to exit, nothing is modelled until its container
is gone.

**Access.** One variable per table that matters, and in `job` the statements
that a transaction has executed and not committed, which is what others wait
for. An update that has to wait for a row begins when it can go on and looks
at its conditions again; a statement whose snapshot is older than the wait is
not modelled. The handler's check of the role is part of the first step, for
the session is read before the service is called.

## What the runs show

| Run | Instance | States | Shows |
|---|---|---|---|
| `maintenance` | 4 requests, 3 owners, 2 with deadlines, 2 channels | 262 | exclusion, no double close, the gate shut only by an owner, refinement of `ExclusiveGate`, three liveness claims |
| `plan` | 1,290 inventories of 4 digests, nested two deep | 30,559 | the result is the largest safe plan in discovery order for every order of the map, the function returns |
| `deletion_quiet` | 5 manifests, 2 tags, one of them protected, 1 handler, 2 pushes, 3 starts, all failures | 178,489 | pushes happen between handlers: what goes was reviewed and is unlisted, rows and records tell the truth |
| `deletion_overlap` | 4 manifests, 2 tags, lost observations; 2 pushes during 3 handlers of one administrator, or 4 handlers of two | 599,869 | a child that gains a tag survives, a quiet reconciliation repairs |
| `inventory_transactions` | SQLite and PostgreSQL, 3 manifests, 2 tags, 2 handlers, 3 transactions | 273,201 | a transaction that nothing overlaps has the effect of one step, each leaves what it saw, on SQLite the tables agree |
| `retention` | 3 manifests, 2 previews, 2 executions, 2 sets of policies, clock to 3, 1 trouble | 928,121 | executors exclude each other until a lock is stale, a preview is used once, a run that says running has the lock unless its completion failed, what goes was shown |
| `operations` | SQLite and PostgreSQL, 1 writer, 2 backups, 1 set, 4 events, 2 writes | 685,795 | listed sets are of one moment, the collector runs alone, Distribution does not go silently, a restored Grom serves with dead credentials and one record |
| `repositories` | 3 requests, 2 digests, 1 import slot, 5 starts, 1 trouble | 418,364 | a removal leaves no content without a row, imports and slots are counted, an import makes a row over content only |
| `access` | 2 users, 2 jobs, 2 keys, 4 starts | 198,346 | an administrator remains, keys keep their limit, links are spent once, ended sessions stay ended |
| `retention_child`, `torn_backup`, `immutable_tag` | one claim each | | the first three disagreements below |

*Bounds.* They bound how much happens, not in what order. Four counted requests
and three owners with two channels let every owner meet every other in each
phase of a drain; the theorems remove this bound. For deletions two pushes are
what it takes to move a tag onto a manifest and then to change an index that
lists it; three starts are a preview, an execution and a sweep or a second
execution after a failure; the target has two children, so that a failure can
fall before, between and after their deletes, and a second index lists one of
them. Three transactions are two that overlap and one
that follows alone on what they left; a third manifest takes a tag from the
image, or loses it. For retention two previews and two executions are the least for a
takeover and for a preview that is executed twice; the clock can pass the age
of a lock once; one push, policy change, asked reconciliation, failure or client that
leaves may fall anywhere (`MaxTrouble`), stops of Grom anywhere without a bound. For
repositories three requests at a time are a removal, a push and an import, or a
leader, a follower and a third that waits for the only slot; five starts let a
repository be made, filled, emptied, archived and removed; one failure or
restart. In operations `MaxEvents` bounds collections and backups begun,
deletions, failing calls and stops together: four are a backup, a stop of Grom,
a recovery and a failure in it. Two writes let a set be older than the content.
In access two jobs are enough for every race between two transactions, two
users for the last administrator, four starts for a login and a reset around a
disabling.

*Where pushes may fall.* `OverlapPhases` names the phases of a deletion during
which others act. In `deletion_overlap` pushes may fall anywhere except after
the tags were read for a round (`check`, `remove`): Distribution has no
conditional delete, so a push between the last read and the delete cannot be
noticed by any code, and the property is that everything up to that read is. In
`deletion_quiet` pushes fall between handlers, because its properties are about
failures. Two administrators are in `deletion_overlap` alone. With them
`CompletedMeansGone` does not hold: the reconciliation of one that read a
manifest before the other deleted it writes its row back, and it stays so until
the next reconciliation. What is proved about the tables holds of any number of them, with transactions
one at a time.

*Exceptions in the properties.* `ExecutorsExclude` excuses an execution that has
been at it for more than thirty minutes and has lost the lock, which is what the
thirty minutes are for. It speaks of the time, not of how far apart the two
executions began: with three executions, one that began before a takeover can
get the lock that the taker gave back, while the overtaken one still works. `BackupsConsistent` excuses a set during whose
creation Grom stopped; `torn_backup` shows why. `RunningHasLock` excuses a run
whose completion failed; what becomes of it is disagreement 4. `RestoredBoot`
excuses a roll back that took the marker away and left the database: SQLite's
when its rename back failed, PostgreSQL's when `pg_restore` had committed and a
staging directory could not be removed (disagreement 5). `ChildrenUnlisted`
is checked where pushes fall between handlers and are observed; disagreement 8 is
what happens otherwise. `EndedStaysEnded` excuses a session
of a login that was under way when its user was disabled. `CollectorAlone`
speaks of collections whose caller is there: when the client of a collection
leaves, the gate opens while the collection goes on. `NeverSilentlyDown` allows
that Distribution stays down after a start that failed and said so;
docs/data-and-disaster-recovery.md:188-189 reads as if it always came back.

*Fairness.* `Maintenance`: a select with a ready case proceeds, and an operation
that was granted ends (the callers `defer` it). On top of that each claim names
what it needs: `TimedDrainReturns` that deadlines pass, `DrainReturns` and
`GateReopens` that counted requests finish, which the code does not enforce for
a blob upload, hence the separate claim for callers with a deadline.
`PlanComputation`: a sequential function keeps running. The other modules state
safety only: their handlers may stop anywhere with the process, and nothing in
the code takes up what a stop left.

*Deadlock.* A finished plan and an exhausted bound stop the system, so only
`maintenance` asks for deadlock.

## Disagreements between the code and its documents

Each of these is a configuration that TLC ends with a counterexample. The first
three are runs of `PROJECT.json`, the others configurations to run by hand.

1. `retention_child` (`MCRetentionChild.cfg`): the platform manifests of an image
   are untagged rows since they were first observed, so a policy with an untagged
   grace period selects them (lifecycle_service.go:182-195) though the index that
   lists them is kept. docs/architecture.md:171-173 lets only children go that
   have "no tags, other indexes, or referrers".
2. `torn_backup` (`MCTornBackup.cfg`): the agent archives to the end whatever
   becomes of its caller. When Grom stops meanwhile and starts again, it serves
   writes, and the agent publishes a set whose database is older than its
   registry. docs/data-and-disaster-recovery.md:66-70: "The recovery point
   therefore remains consistent".
3. `immutable_tag` (`MCImmutableTag.cfg`): whether the tag exists is asked before
   the put is forwarded (gateway.go:132), so of two first pushes of an immutable
   tag the second overwrites. presets.go:26: "Existing v* tags cannot be
   overwritten."
4. `MCStaleRun.cfg` (module `MCRetention`): the completion of a retention run uses
   the context of the request (lifecycle_service.go:433, 493), the release of its
   lock does not (line 303). When the client hangs up, the run stays running
   without a lock, its preview stays executing, and no later execution closes
   them, since `AcquireLifecycleLock` closes the run of a lock row it finds
   (persistence/bun/lifecycle.go:584-605). The test of an interrupted run says
   "expected stale lifecycle run recovery"
   (backend/tests/integration/core_test.go:357).
5. `MCRolledBack.cfg` (module `MCOperations`): the roll back of a restoration goes
   on past a rename that failed (restore.go:153-161) and moves the marker back
   though the database stays. The operator reads that the restore was refused
   (recovery.go:121-124), not that the volumes are dirty; a boot on them finds no
   marker. docs/data-and-disaster-recovery.md:113-115: "On the first normal boot,
   Grom [...] invalidates restored web sessions and reset links".
6. `MCMissingRow.cfg` (module `MCInventoryTransactions`): on PostgreSQL an
   observation may commit between the two selects of a reconciliation
   (persistence/bun/lifecycle.go:222, 247): the manifest it tagged becomes missing
   under an attached tag. docs/architecture.md:128-129: "Reconciliation [...]
   keeps disappeared items as missing or deleted history."
7. `MCLateReferrer.cfg` (module `MCArtifactDeletion`): the referrers of the target
   are read while the preview is repeated (artifact_deletion_service.go:103) and
   not again, so a signature pushed before anything is deleted loses its subject.
   docs/architecture.md:171: "Subjects with referrers and referrer artifacts are
   protected."
8. `MCLostObservation.cfg` (module `MCArtifactDeletion`): an index pushed by digest
   whose observation failed has neither a tag nor a row, so the revalidation does
   not ask it (manifest_deletion.go:170-189) and its child goes.
   docs/architecture.md:171-173, as above.
9. `MCDeletionNested.cfg` (module `MCArtifactDeletion`): planning treats an index
   of the same deletion as internal (manifest_deletion.go:75-77), the per-child
   revalidation (lines 179-189) as foreign. An image that lists a leaf, and an
   index listing the same leaf, cannot be deleted: the target goes and then the
   deletion fails. The API describes the children as those nothing "outside this
   deletion references" (backend/api/openapi.yaml:2619).

Seen while modelling, each reproducible in the modules, without a run of its own:

- `Preview` of a deletion (artifact_deletion_service.go:93-112) does not ask
  whether a live index lists the target: a platform manifest deleted by digest
  leaves its tagged index dangling, against README.md:61 and
  docs/architecture.md:169. A tag put back on the target after it was deleted
  does not protect its children (manifest_deletion.go:175-177).
- The delete of a project has no condition and cascades: a repository made after
  the guard looked goes with it, though docs/rbac.md:177 says "Project deletion
  requires no logical repositories."
- Two links requested at once for one user both live, though docs/rbac.md:94-95
  says "Creating a new link invalidates unused earlier links." A login under way
  while its user is disabled leaves a session that works again after a
  reactivation (docs/rbac.md:91). A registration link that was outstanding when
  its user was activated and disabled again still enables the account
  (docs/rbac.md:96-97).
- On PostgreSQL a mark that overlaps an observation of the same manifest may leave
  an attached tag on a deleted row. Whatever overlapping transactions leave, the
  next reconciliation that none overlaps repairs the tag rows and the rows of
  what it sees (`AloneIsOneStep`).
- A client that leaves its collection opens the gate while the agent collects. A
  client that leaves its deletion of a set clears `deleting`, and a backup may
  start; the lock of the agent keeps the two apart.

## What is proved

`tlapm` checks the theorems for every value of the constants that satisfies the
named assumptions.

`MaintenanceProofs`, from `MaintenanceAssumption`. The invariants are not
inductive by themselves. The inductive one (`IInv`) adds that the counter is the
number of requests being served, that the channel is closed exactly when the
counter is zero, and that a draining owner waits on the channel the controller
still has: without these, that the captured channel is closed would say nothing
about who is being served. `TypeCorrect`, `Exclusion`, `GateHasAnOwner`,
`NoDoubleClose` and `SingleMaintenance` (two operations never overlap, drains
included; no run repeats it) follow, and `RefinesGate` maps every step to a step
of `ExclusiveGate` or to a stutter. The counter needs `serving` to be finite,
which the invariant carries, so there is no assumption that `Requests` is
finite.

`PlanComputationProofs`, from `GraphAssumption` and `InputsAssumption`.
`PruningIsExact`: when the loop stops, the closure is `DeletionPlan` with the
target, for every inventory, however deep, and every order of the map. Two
inclusions carry it: the plan is never pruned (a member of a safe set stays
removable against any superset of that set, because a larger deletion has fewer
references from outside), and at the end of a pass that changed nothing the
closure is itself a safe set. Discovery contributes that the closure is the set
of descendants. `OrderIsDetermined` (`ResultIsDetermined`): the sequence the
function returns is the one `PlannedChildren` defines, so a preview and an
execution over the same rows agree. The loops and the recursive functions of
`ManifestGraph` are advanced together: after n expansions the worklist is the
n-th value of the function. `OthersStayWhole` (`PlanKeepsOthersWhole`) follows
from `PruningIsExact`: the plan itself is safe.

`ManifestGraphProofs`, from `GraphAssumption`, is what both of these and the
deletions rest on. The library's induction theorems take an operator and cannot
be used by the installed provers, so induction is stated of a set of numbers
(`SetInduction`), which is a value; `Iteration` derives from it that the
recursive functions of `ManifestGraph` satisfy their equations, and `WalkFacts`,
`DiscoveryFacts` and `PlannedFacts` that the walk starts at the target, repeats
nothing, ends, and yields a sequence of members of the plan.

`ArtifactDeletionProofs`, from `GraphAssumption`, `ContentAssumption` and
`DeletionAssumption`, for any shape of the manifests, any number of clients and handlers, pushes during
every phase, and with or without failures and lost observations, where a
transaction is one step (SQLite; on PostgreSQL disagreement 6 refutes the first,
and `inventory_transactions` checks it of SQLite's statements):
`TablesAgree`
(`ActiveIffTagged`) and `ReconciliationHeals` (`ReconcileHeals`). A commit of a
reconciliation writes what was read many steps ago, so the inductive invariant
speaks of handlers in the middle of one: every tag a handler found leads to a
manifest it has seen (otherwise a tag row could stay attached to a row called
missing), and, while nothing changed in Distribution since it listed the tags,
what it found is what the tags are and what it has seen is served. A change of
Distribution marks every running handler `dirty`, and the claim about what is
current is made of the others only. The steps of a handler outside the sweep
are discharged together (`Outside`): they touch neither stores nor reads.

The theorems about deletions need to know when clients do not push, because no
code can see a push between its last read and its delete. Each says so of
`OverlapPhases`, the phases of a handler during which pushes may fall; the rest
is free: any manifests, tags and policies, failures at every step.

| Assumption | Met by | Theorems |
|---|---|---|
| no push in `check`, `remove` | both runs | `TaggedChildrenStay` (`ChildrenUntagged`) |
| no push from `relations` and `list` to `remove` | `deletion_quiet` | `ReferrersStay` (`ReferrersProtected`), `OnlyTheReviewedTagsGo` (`OnlyReviewedTags`) |
| pushes between handlers and all observed (`Quiet`; then handlers do not overlap either) | `deletion_quiet` | `ListedChildrenStay` (`ChildrenUnlisted`), `DeletedStaysGone` (`DeletedIsGone`), `CompletedIsGone` (`CompletedMeansGone`) |

The second is stronger than the first because the aliases and the referrers of
the target are read once, in the preview. `TypeCorrect` needs none. A delete
comes many steps after the reads that justify it, so the inductive invariant
(`DInv`) carries what was read from the read to the delete, part by part:
`WindowOK` that the tags of the round are all there are and that nothing below
them is about to go; `ReviewOK` that the target has the reviewed tags and no
referrer; `ListingOK` that the inventory that was listed has a live row for all
that is served, which makes the revalidation see every index that lists a child.
That in turn needs the sweep of the same handler to have accounted for all that
is served (`SweepOK`), from a state in which what is served has a row or a push
that is still to be observed (`LiveKnown`). `GoneOK` and `RecordOK` tie what a
handler deleted to the registry, the rows and its record. The invariant claims
each part only under the assumption it needs, so the theorems come from one
induction; other handlers that delete meanwhile only take away, and every part
survives that. TLC checked `DInv` on the two runs' instances, and on a third
in which pushes overlap handlers outside of `relations`, `list` and what follows,
before it was proved.

`Quiet` is not more than its theorems need. On the instance of `deletion_quiet`,
TLC breaks the first two when observations may be lost (an index pushed by digest
has no row, so nobody sees that it lists a child; a manifest pushed again stays
deleted), the first when pushes fall inside a reconciliation, and the last two
when they fall while rows are marked. The third breaks as well when such a lost
index is the target, for it has no row to be made history.

`AccessProofs`, from `AccessAssumption`, for any number of users and of requests
at once: `TypeCorrect`, `AnAdministratorRemains` (`LastAdminStays`),
`KeyLimitHolds` (`KeysBounded`) and `EndedForGood` (`EndedStaysEnded`). What a
transaction counted is true at its commit only because of the locks, so the
invariant speaks of the jobs between the two: one job at a time is past the
advisory lock, and while it is, there are two administrators or its victim is
none (`AdminInv`); one job at a time is past the lock of the account's row, and
what it counted still holds (`KeyInv`); the links and sessions of every job are
ones that were made, a link that a job is about to spend is not spent
(`LinkInv`), and a session is either of the present epoch of its user or marked
as late (`SessionInv`).

`PullThroughProofs`, from the assumptions of `Repositories` and `PullThrough`:
`TypeCorrect`, `CountsAreKept` (`ImportsCounted`), `RemovalIsSafe`
(`RemovalKeepsContent`) and `ImportsAreNotEmpty` (`NoEmptyImport`). Both action
properties rest on who is inside the gate: the invariant says whom the gate
counts, by handler and phase, that a removal past its drain is alone with the
path (`GateInv`) and, once it has validated for the second time, that nothing is
stored there (`RemovalInv`); and that a pull which serves what it saw has it
there unless a row was made since (`SettleInv`). The counters are cardinalities,
so a step that adds or takes a leader is a lemma about finite sets, and `Jobs`
is assumed to be finite.

`RetentionProofs`, from `RetentionAssumption`, for any number of executions and
previews, any policies and any inventory to begin with: `TypeCorrect`,
`ExecutionsExclude` (`ExecutorsExclude`), `PreviewsUsedOnce`
(`PreviewUsedOnce`), `RunningRunsHaveLock` (`RunningHasLock`) and `OnlyReviewed` (`OnlyReviewedRemoved`). `LockInv` says of each execution by
itself what it means to have lost the lock: it began longer ago than a lock is
good for, and its run row does not say running unless its completion failed.
`PreviewInv` says that a preview
which has a run is never ready again, though three of the four places that write
its status do so without a condition. `ReviewInv` says that, from the evaluation
to the delete, what an execution chose has the tags that were chosen, but for
tags pushed since, and none that a policy it read keeps out. The proof is where
the first form of `ExecutorsExclude`, that the two began more than thirty minutes
apart, turned out to be wrong.

`OperationsProofs`, from `BackupsAssumption` and `OperationsAssumption`, for any
number of runs, sets and events: `TypeCorrect`, `BackupsHoldOneMoment`
(`BackupsConsistent`), `CollectorRunsAlone` (`CollectorAlone`), `DownIsReported`
(`NeverSilentlyDown`) and `BootEndsRestoration` (`RestoredBoot`). The gate is in
Grom's memory while the work is done by agents that outlive Grom, so the
invariant has to say who is where: `AgentInv` and `OrderInv` tie the collector
to its process and to the call that waits for it, `GateInv` says who has shut
the gate and who is alone inside, `ContentInv` when the database and the
registry agree, `CallInv` and `JobInv` that the agent writes for a run that
still waits or that the set it writes is excused, `StatusInv` what the agents
have reported, and `PlacesInv` and `BootInv` that the marker of a restoration
stays as long as its database, until a boot ended or a roll back took it away;
a roll back comes to the marker last, so that what it leaves is known by then.

Model-checked only: the liveness claims of `Maintenance` and `PlanComputation`,
which are out of this prover's reach; the properties of `InventoryTransactions`;
and the disagreements, each of which is a counterexample. Every other invariant
and action property of a passing run has a theorem. Three theorems state what no
run checks by itself: `TablesAgree`, `OthersStayWhole` (it follows from
`PruningIsExact`) and `ReferrersStay`.

## What is not modelled

`PROJECT.json` gives the reason per component.

- Storage accounting: snapshots that no modelled decision reads. Their versions
  are clock readings taken before the transaction, so what orders them is skewed
  time and not the order of steps.
- The limiter of failed logins: one map, one critical section per call.
- Migrations: the locks are those of the database and of the file system.
- Profiles and classification, names and addresses, passwords, mail, pages and
  searches, configuration, diagnostics, archive formats, checksums, tokens'
  signatures and the frontend: sequential, read-only or data.
- `RepositoryService.List` is called by tests only; the handler adopts a page of
  the catalog instead, and that is in `Repositories`.

## Plan

The runs are complete: nine that pass, so that one full verification stays
short, and three that end with a counterexample. Their safety properties are proved but for
those of `InventoryTransactions`. What is left, in this order:

1. `PullThrough` and `Operations` use the operators of `ExclusiveGate` as their
   gate. That their steps are steps of `ExclusiveGate` is to be stated and proved
   as the refinement that `MaintenanceProofs` proves of the controller.
2. `ArtifactDeletion`: what `ListedChildrenStay` says of several handlers when
   nothing is pushed; `Quiet` keeps handlers apart together with the pushes.
3. `InventoryTransactions`: `SerialTablesAgree` and `AloneIsOneStep`, by an
   invariant that says what each phase has written of the effect of the whole.
4. `Retention`: the properties of its deletions that `ArtifactDeletion` states
   of manual ones, along the same invariant.
