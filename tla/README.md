# A TLA+ verification project for yakshed

yakshed is a desktop application that runs coding agents ("harness providers")
on work items and keeps what they did in a local database. This directory holds
TLA+ modules that model the parts of it that are hard to test, the TLC
configurations that check them on small instances, and theorems with proofs that
TLAPS checks for every instance. `PROJECT.json` names, for every definition, the
lines it stands for.

    tlc -workers 2 -config MCAppStore.cfg MCAppStore          # one run
    tlapm AppStoreProofs.tla                                  # the proofs

Below, SUP is `src/crates/yakshed-application/src/run_supervisor.rs`, SQL is
`src/crates/yakshed-store/src/sqlite.rs`, ACT is
`src/crates/provider-codex/src/actor.rs`, MAC is
`src/crates/yakshed-desktop/src/macos.rs`, ART is
`src/crates/yakshed-store/src/artifacts.rs`, CFG is
`src/crates/yakshed-store/src/config.rs` and MOCK is
`src/crates/provider-mock/src/lib.rs`. Files named without a path below are in
`src/crates/yakshed-secrets/src/`.

## 1. The system

### Inventory

| component | state | operations | hard behaviour | what makes it correct |
|---|---|---|---|---|
| application database (SQL) | projects, work items and their tree, runs, approvals, timeline, projection cursors, audit trail, artifact metadata; one worker thread, one transaction per call | create and archive work, create and transition runs, record, begin and confirm approvals, append batches, page through rows | compare-and-set on a stale status or cursor, repeated calls whose reply was lost, several tables in one transaction | every commit leaves the tables consistent with each other; a batch is applied once |
| run supervisor (SUP) | `Inner.state` (routes, runs, handshake buffers, uncertain starts, open approvals), the pump's handle, one task per start, call, pump and consumer | start, steer, interrupt, resolve, respond, reconcile, restart | many tasks and one mutex, state read before an await and used after it, an event stream that may break at any time, answers that never come, restart between any two steps | no event twice, no invented outcome, no decision sent that is not recorded, no run forgotten |
| timeline projection (SUP, `apply_event`, `DeltaBuffer`) | deltas collected for a run, requests for input | push, flush, append, answer | deltas are written later than they arrive; store failures between flush and event | nothing lost or reordered; context before question |
| Codex provider actor (`provider-codex`) | pending requests, server requests, login, runs and their items | JSON-RPC over a child process: read and log in to the account, start and steer runs, answer the provider's requests, shut down | correlation, notifications that come before the answer they follow from, death of the process between a write and its answer, another runtime after it | every request settled once, every run ended once, nothing that may have been heard reported as unsent |
| Codex harness of the desktop (MAC) | providers by connection, correlated runs, early events | start, look up, evict idle providers, account calls | registration against events, eviction against use, crash of a process in use | no event of a known run lost; no run under a stale secret |
| desktop startup and credential migration (MAC) | the locals of `migrate_interim_secrets` | compose, migrate, store a connection, set its credential | a kill or a failed write between any two steps, a file half purged, an entry somebody else made | no secret lost or mistaken for another; "ready" means the plaintext is gone |
| configuration store (CFG) | `config.toml`, the snapshot and its revision | open, read, `update` with one of its changes | a write that reports a failure though it was made, and a file that cannot be read back | what is on the disk is valid, and the process that goes on without it does no harm |
| secret broker and backends (`broker.rs`, `local_file.rs`, `local_os.rs`) | keyed locks, deadlines, a store file under its locks, the keychain, blocking threads | put, delete, resolve, purge | a caller that gives up while its thread works on, two backends at one file, a failure reported after the commit | no lost update; an answer never says more than is known |
| artifact store (ART) | staged and promoted files, sidecars, metadata | publish, verify, collect, recover, reconcile | crash between file and metadata | metadata never points to a file that is not there |
| harness port (`yakshed-harness`) | the bounded event channel and its permits | reserve, send | back-pressure, a permit dropped with its future | bounded events in flight |
| mock provider (MOCK) | plans, runs, requests, pending deliveries, a runtime that fails | start, drive, respond, steer, interrupt, release a delay | calls on one run that interleave at each await or are dropped there | the script is followed, each step once |
| desktop API, Tauri shell, contract host, cache and paths | – | – | data transfer, presentation, path arithmetic | – |

### How the parts interact

The desktop API calls the supervisor. The supervisor calls the store (async calls
answered by the worker thread) and the harness port. The harness delivers one
stream of events for all its runs; the supervisor's pump routes each event by the
provider's run id into a bounded channel, and a consumer task per channel writes
to the store. The store's work-item revision and the supervisor's `AppEvent`
broadcast tell the user interface that something changed. After a restart only the
database is left, and `reconcile_startup` rebuilds `Inner.state` from it.

Before the supervisor exists, `compose` opens the configuration, awaits the credential
migration, and builds the broker from what the configuration then says; a harness asks the
broker for the secret of its connection. Nothing else runs during the migration. The
supervisor never sees which provider is behind the port: the Codex harness in the
application, the mock provider in the tests.

## 2. The modules

| module | models | extends |
|---|---|---|
| `RunLifecycle` | the promise: a run is created once and ends at most once; an approval is decided at most once and is void in the step in which its run ends undecided | – |
| `RunTables` | the tables `runs` and `approval_requests` and the five transactions that write them; the refinement mapping to `RunLifecycle` | – |
| `AppStore` | the database as a whole under arbitrary clients: work tree, revisions, audit, timeline batches, cursors and receipts | `RunTables` |
| `AppStoreProofs` | the theorems about `AppStore` | `AppStore` |
| `Selections` | what the code keeps of a list (`filter`, `retain`), as a recursive function | – |
| `SupervisorState` | `struct State` and what each method does to it under one lock | `RunTables`, `Selections` |
| `RunSupervisor` | the tasks of the supervisor between their awaits, the external provider, store failures, a broken stream and restarts | `SupervisorState` |
| `SupervisorInvariants` | the parts of the inductive invariants of `RunSupervisor`, and what its steps may change | `RunSupervisor` |
| `RunSupervisorProofs` | the theorems about `RunSupervisor` | `SupervisorInvariants` |
| `TimelineProjection` | one step of the consumer in detail: the delta buffer, batches and unique item ids, requests for input | – |
| `TimelineProjectionProofs` | the theorems about `TimelineProjection` | `TimelineProjection` |
| `CodexActor` | the Codex provider: the adapter's one live runtime, the actor's commands and frames, the login, the provider's requests, the end of the actor; the child process is external | – |
| `CodexActorProofs` | the theorems about `CodexActor` | `CodexActor` |
| `CodexHarness` | the harness of the desktop: one adapter per connection, credential rotation and eviction, registration of runs, the one stream of their events | – |
| `CodexHarnessProofs` | the theorems about `CodexHarness` | `CodexHarness` |
| `ArtifactStore` | the files of artifacts: publishing, repair of a corrupt blob, recovery at startup, collection; kills and power losses between any two of their steps | – |
| `ArtifactStoreProofs` | the theorems about `ArtifactStore` | `ArtifactStore` |
| `ConfigStore` | `config.toml` and the snapshot: the connections' bindings, the backends, a recorded migration; validation, the changes, what becomes of a write | – |
| `SecretBackends` | the local store files, the keychain and the blocking threads at work on them | `ConfigStore` |
| `CredentialBroker` | requests for a connection's secret: keyed lock, dispatch, deadline, the three kinds of answer to a write | `SecretBackends` |
| `CredentialMigration` | an installation over its launches: the migration await by await, then requests and changes of connections, kills in between | `CredentialBroker` |
| `CredentialMigrationProofs` | the theorems about `CredentialMigration` | `CredentialMigration` |
| `MockProvider` | the deterministic provider and the bounded channel of the harness port | – |
| `MockProviderProofs` | the theorems about `MockProvider` | `MockProvider` |
| `MCAppStore`, `MCRunSupervisor`, `MCCodexActor`, `MCCodexHarness`, `MCArtifactStore`, `MCCredentialMigration`, `MCMockProvider` | the symmetry sets and scopes of the small instances, the plans of faults, the installations and the scripts | |

**AppStore.** The worker runs one closure at a time inside one transaction (SQL 1499-2572), so a
transaction is one step. A transaction that returns an error rolls back, so it is no step,
except for appends, whose answer the clients remember. Rows that do not exist yet have the
status `absent`. `IssueBatch` is the client's half of an append: it reads the cursor and builds
a batch that it may send at once, later, or again; a committed append may lose its reply. A
batch id comes with one set of items and one cursor, so the comparison of the payload's digest,
and the `Conflict` that a reused batch id with another receipt gets (SQL 2003-2011), have
nothing to do. `create_run` may be given the provider's identity (SQL 1760-1783); its one caller
passes none (SUP 519), and so does the model. `Subtree` is the recursive query written as a
least fixed point.

**RunSupervisor.** A step is what a task does between two awaits or under one lock
of `Inner.state`. `task` holds, for the start in progress (`start_lock` allows one),
for the pump, for the pump's clean-up and for each caller, the step it is at and
the locals it carries across awaits; `consumers` holds the channels and the tasks
that read them. Reads of the store that are used after an await (`get_run` before a
transition, the cursor before an append) are steps of their own or part of the
step before the await, so that what they saw can be stale. The provider is
external: it accepts or refuses, emits events in any order between runs, and may
leave the outcome of any call unknown. `Crash` keeps the tables and the timeline and
loses everything else, the events in flight included; it may also end any run at
the provider. Paging is left out: pages only group the runs.
`retain_uncertain_start` holds the lock while it sends (SUP 882-895); the model lets
others in between, which only adds behaviours.

**TimelineProjection.** Text is the list of the events it came from, so that "lost", "repeated"
and "out of order" can be told apart. The run keeps its route; the rest of the supervisor is
replaced by a restart that loses the buffer and either reattaches the run or finds that its
provider cannot reconnect it. What several callers do to each other, the read of a status and
the transition made from it, and the kinds of terminal event are the business of
`RunSupervisor`: here one `respond_user_input` is in progress at a time, a terminal event is
read and recorded in one step, and there is one kind of it. A run that is reconciled after its
consumer stopped is also in `RunSupervisor` only.

**CodexActor.** The actor is one task that takes one command or one frame at a time (ACT
371-594), so a step is what it does with one of them, the write to the child included. `calls`
holds what became of each call of the adapter's methods, `commands` the channel into the actor,
`frames` what the child wrote and the actor has not read. A write to a child that has just died
fails or is swallowed by the pipe; `TakeRequest` is the write that returns, `TakeRequestFails`
the one that does not. `Close` is `settle_runtime` and the drop of everything the actor owned:
pending requests get `Lost(c)`, the active runs their terminal, and callers whose sender is
dropped hear what `lib` makes of that (`Dropped`). The child is external: `child.heard` records
which mutations it has really read, which the actor cannot know. Items, threads and the text of
requests are left out, except that a request without a text is accepted and then called
malformed, and that a request the actor cannot use, about an active run or about none, is
rejected with an answer to the child and a word to the run. That a request's id is new is an
assumption about the child; the rejection of a duplicate (ACT 1298) takes the same path. A start
of the runtime that fails is refused or disconnected. There is no deadline on a request: a
silent child leaves its callers waiting.

**CodexHarness.** `start` is the start in progress (the supervisor's `start_lock` allows one)
with what it carries across awaits; `providers` is the map of `RunState`, `registered` its three
maps of runs, which change together. `consumer` is where `next_event` is: between `recv` and the
lock it holds an event (`received`), between the test of `pending_events` and the wait it has a
`Notified` (`full`, `listening`), and `permit` is the notification stored in `event_ready`. An
adapter is kept by whoever holds its `Arc` (`Held`); dropping the last one kills its process
(`DropAdapter`). A call that finds no process starts one without the secret (`WithProcess`). A
generation is the hash of a secret; the model uses the secret. Of what `CodexActor` models only
the story of a run is left: progress, then one end, which is a crash when the process died under
it; nothing follows the end, since the actor is gone with its process. `account_read`'s second
try is the process started anew. Events without a run, `lookup_run` and `reconnect`, which only
read, are left out. Run ids are used in the order the supervisor makes them.

**ArtifactStore.** A name points to an inode; a rename moves a name, a hard link adds
one, and the age belongs to the inode. `shard` holds the two names a digest may have
(its own and the sidecar's), and `disk[d]` every state of them that a power loss may
leave: a rename adds one, a sync of the directory leaves only the last. Removals from
quarantine and staging take effect on the disk at once; the contents of a file are
synced before it is promoted, and a power loss may bring a lost promotion back as a
staging file. The lock of a digest and the registry of active staging files are in
memory and belong to publishers, so they are read off where the publishers are
(`Free`, `Active`). Nothing in `src/` but the tests calls `publish` and
`collect_unreferenced`; the caller is therefore the contract of their comments: the row
is committed while the lease runs (`PutArtifactMetadata`), and the set of referenced
digests is read when the collection begins. `rotted` only remembers, for the property,
that the disk spoiled a blob. The hard link of a corrupt blob and the sync of `quarantine/` are
one step. Paths, permissions and symlink checks are left out.

**ConfigStore.** A change is an operator on a configuration with the condition under which
`apply_change` accepts it (`CanBegin`, `CanRecord`, ...); `Update` validates it and writes.
Of a write four things may come: it is done; it fails before the rename (`unwritten`); it
fails after it and the file is read back (`reported`); it fails after it and cannot be read
(`unread`), after which the snapshot is older than the file. A manifest is the domain of its
receipts. Ids of connections, display names and settings that no step looks at are left out.

**SecretBackends, CredentialBroker.** A thread's step is what it does between two points at
which another thread could act: under the lock of a file it reads a copy and replaces the
file by the copy with one entry changed, and a lock that did not hold would lose the other's
entry. `abandoned` is the flag that the guard of a dropped future sets; a thread on a file
reads it before the lock and under it, a thread on the keychain never does, which is why
`worker` goes on after `GiveUpWork`. `promised` is no state of the code: it is what a caller
may conclude from its answers, the value of the last acknowledged write, with the values of
writes that ended uncertain since or may still land.

**CredentialMigration.** `app` is where the launch is and the locals it carries. `memory` is
`None` while no process runs. `Ended` is the end of a process wherever it is: memory, requests
and threads are gone, the disk stays, and what threads were doing stays uncertain. After `Quit`
the user may start again; after `Kill` too. What a launch finds is one of `Installations`, with
the faults that may follow. A change of a connection carries the revision its caller has just
read (`PutConnection`): a conflict changes nothing, so it is no step. The source and the target
of a migration are constants, so the check that a recorded migration names them (MAC 448) always
succeeds.

**MockProvider.** A call looks at the run under the lock, waits for a place in the channel
without the lock, looks again under it and only then sends and records, so these are four steps,
and `Cancel` drops the call at any of them, with the permit it may hold. The channel is first
in, first out; it is kept as what was sent for each run and how much of it waits. Left out are
what no run can bring about by itself: a receiver that was dropped, which fails every
reservation; a response of the wrong kind for its request (MOCK 1214-1222), which is refused without a change; and the faults of the runtime that calls about
sessions consume (MOCK 903-1009).

## 3. What is checked

Except in `credential_migration`, which is checked for deadlock, every run ends on its own
(`CHECK_DEADLOCK FALSE`): with all ids used and all events applied the system has nothing
left to do, which is legitimate.

| run | question | instance | states |
|---|---|---|---|
| `store` | Do the tables, the audit trail and the revisions stay in step, and do they implement the lifecycle? Is a batch applied once or not at all, and is an archived tree closed? | 2 runs, 1 provider identity to compete for, 1 approval, 3 transitions per run; and 3 work items in 2 projects, any tree, 2 batches of 1 or 2 items, 2 streams, stale cursors, lost replies, repeats | 0.25 M |
| `supervisor` | Does every event reach the timeline at most once and every outcome come from the provider, through every buffer? Can the provider hear a decision that is not recorded, or two? | 1 run, 2 channels of capacity 1, 2 events, 1 store failure; 1 caller that reconciles and commands, or 2 callers, 1 approval and 1 restart | 0.83 M |
| `supervisor_liveness` | Does every start settle, every orphaned consumer end and a restart account for every run; are the maps consistent and the buffers bounded? | 2 runs, room for 1 uncertain start, 1 broken stream, 1 restart, fair tasks | 0.17 M |
| `projection` | Are deltas conserved and written before what follows them; is every open request offered, and none recorded as answered that was not? | 4 events of 2 commands, a message, approvals and requests for input, batches of 2, 2 answers, 1 store failure, 1 restart | 7.0 M |
| `codex_actor` | Is every call told the truth and every run ended once, however the child and the actor end; is the login in progress real? | 3 calls of any kind but logout, 1 run, 1 request of the provider, 2 runtimes, 1 frame in flight, 1 notification per runtime | 3.8 M |
| `artifact_store` | Does a committed row keep its blob, and does nothing but a collection remove one, whatever is interrupted; does a collection leave alone what is being published? | 2 publishers of 1 digest, 3 staging files, 1 collection at a time, grace 1 of 2 ticks; 1 rotten blob with 2 failing operations, 1 kill or 1 power loss | 6.5 M |
| `codex_harness` | Can a start rotate a credential under a run, or run with an old one; is every event of a run handed out? | 1 connection, 2 runs of up to 3 events, 2 secrets, 2 provider states, 3 adapters; plans of 1 crash, 1 change of the settings, 1 account call or command, 1 failed call | 0.52 M |
| `credential_migration` | Does a binding ever lead to a secret nobody expects; does "ready" mean what it says; does relaunching complete a migration? | 13 installations of 2 connections, 2 locators, 2 secrets, with plans of up to 2 kills, 1 failure each of the configuration, the file and the keychain, 3 requests; 2 callers, 2 threads | 0.34 M |
| `mock_provider` | Are scripts followed and requests answerable exactly when sent; does every call return? | 6 lists of scripts with every fault, 2 callers, 4 calls, 2 runs, a channel of 1 place, 1 refusal of the runtime | 0.16 M |

Three more runs look for a counterexample and find one; see section 5.

**Bounds.** All bounds are CONSTANTS named `Max...`, plus the capacities, which are 1 or 2
instead of 256 or 16 so that "full" happens after two events. Two runs are what a mix-up needs;
two channels per run are what a stale consumer and a new one need; one failure of each kind at
any point covers every place a single failure can strike. One provider identity for two runs
makes them compete for it. Three transitions take a run from starting through unknown and back
to an end, and two batches let a batch be overtaken while a repeat of it is under way. In
`codex_actor` three calls are a start and two answers to one request, or two logins and an
account read; the second runtime shows what is left of the first one. A `logout` is not in the
instance (it is sent and lost as the other mutations are, and clears the login as an account
read does); the theorems hold for every set of kinds. One frame in flight is enough because the
actor handles frames one by one: a second one is sent when the first is read.
In `codex_harness` two runs are one that is registered and one that starts; three adapters are a
first one, one after a rotation and one after an eviction; room for two early events lets an
event overtake one and lets the buffer be full. In `artifact_store` a digest is a lock of its
own and shares nothing with another but the listing, so one is enough; two publishers and a
collection are what a race for it needs, and the third file is the one a repair brings. With a
grace period of 2 of 3 ticks the same properties hold (24 M states, in two parts). The faults
come in plans, because a power loss includes what a kill does.

`store` and `supervisor` look at two halves of their system each, which meet in few rules:
the `CONSTRAINT Scope` of their MC modules names them, and a state outside both is checked
but not followed. In `supervisor` the half with items and the half with approvals share the
start, the buffers and the store failure. `StateIsConsistent` is checked in
`supervisor_liveness` only, with one event and no client; that the maps stay consistent under
several events, full buffers and overflow is the theorem `StateStaysConsistent`, for every
capacity.

In `credential_migration` two locators let one be moved while the other is not, and let a secret
be mistaken for another's; two threads are what a lost update and a late write need. The
installations are the starting points that `migrate_interim_secrets` tells apart: secrets with
and without bindings, a binding without a secret, no file, another backend at the same path,
another backend under the target's id, an entry that is there already, two bindings that become
one reference. In `mock_provider` one place makes every second call wait, a third call can
change the run while two wait, and the fourth finds what they left; two permits at once, which
one place excludes, are left to the theorem, which is for every capacity. Request ids are used
twice, by an approval and an input, because the scripts allow it.

**Fairness.** `FairSpec` assumes that a task that can go on goes on: tokio polls every
ready task, the store's worker answers every call, and a harness call returns. The last
is an assumption about the provider: its requests have no deadline of their own (only the
handshake at start-up has one), so a call returns when the provider answers, or when its
process ends or breaks the protocol and every pending request is settled. A provider that
stays alive and silent for ever is excluded. `FairSpec` assumes nothing about users,
the provider's own steps (`Accept`, `Emit`), failures or crashes. In `StartSettles`
the store does not fail (`MaxStoreFaults = 0`): the code makes one attempt to mark a
start that ended, and a start whose mark fails stays `starting` until the next
restart.

In `CodexHarness` fairness is that of the start's task and of the pump; the process, the
callers and the user may stop.

In `CredentialMigration` every step of a launch is taken (`compose` awaits the migration, and
its awaits are file operations and keychain calls that return), and the user who left starts
the application again: `MigrationSettles` is a promise about relaunching and could not hold
without it. It excepts the obstacles that no launch can remove, each named in `Obstructed`; a
failed write or a killed process is none. In `MockProvider` the subscriber receives and a call
that is not dropped is polled; without a subscriber a full channel keeps a call waiting by
design.

Each property has a mutant in `PROJECT.json`: a definition changed the way a bug would
change it, under which TLC finds the property violated.

## 4. What is proved

`AppStoreProofs` proves, for every set of runs, work items, approvals, streams and
batches and every value of the bounds:

| theorem | says |
|---|---|
| `TypeCorrect` | `[](TypeOK /\ RowsAreComplete)` |
| `OpenApprovalsAreLive` | no unanswered approval of an ended run |
| `ProviderRunsAreUnique` | a provider run belongs to one run |
| `ArchivesAreClosed` | nothing active below an archived work item |
| `CommitsMoveRevisions` | every change of a run moves its work item's revision by one |
| `CursorsCountItems` | a stream's cursor is the number of its items |
| `AuditsReplay` | the audit trail alone tells the state of every run and approval |
| `RepliesAreTrue` | an append answered with success is in the timeline once |
| `StoreImplementsLifecycle` | `Spec => Lifecycle!Spec` |

**Assumptions.** `NoneAssumption` (`None` is no id) and `BoundsAssumption` (the bounds
are numbers, a batch has at least one item, runs and approvals have different ids).
No theorem assumes that a set is finite except where the code's list is finite anyway:
`AppendCounts` is about the finite domain of a sequence.

**Argument.** Everything rests on `TypeOK /\ RowsAreComplete`. The types alone are not
inductive: `Bump(runWork[r])` writes a row of `workItem` only if `runWork[r]` is a
work item that exists, `RowsOf(b)` is a sequence of rows only if `b` was issued, and an
approval row that is being answered has a run. `RowsAreComplete` says that all
references between rows point at rows; it is inductive because no transaction deletes a
row (lemmas `WorkRowsStay`, `RunRowsStay`, `ApprovalRowsStay`). `OpenApprovalsAreLive`
then needs only that the transition that ends a run voids its approvals
(`TransitionEffect`). `ArchivesAreClosed` uses that `Subtree(root)` is closed under
children (`SubtreeClosed`), which the least-fixed-point definition gives directly.
`CursorsCountItems` splits the rows of a stream after an append into the old ones and
the new ones and adds their cardinalities (`AppendCounts`). `AuditsReplay` keeps one
statement per row: a run's trail grows by one transition from its last entry to the new
status (`RunTrailGrows`), and an approval's trail is a function of its row
(`ApprovalTrail`). `OkMeansAppliedOnce` is not inductive: a repeat is answered from the
receipt in the cursor, of which it says nothing. `RepliesInv` adds that whatever was
answered with success or has a receipt is one stretch of the timeline (`LaidDown`); an
append adds such a stretch because `RowsAreNew` refuses a batch whose rows are there
(`LaidByAppend`), and leaves the others where they are (`LaidStays`). The refinement theorem maps
each transaction to one step of `RunLifecycle` or to a stutter
(`TablesImplementLifecycle`); transitions among unsettled states and the confirmation of an
answer stutter. What the transactions of `RunTables` do is stated and proved in this module and
again in `RunSupervisorProofs`, as far as each of the two needs it.

`RunSupervisorProofs` proves, with the invariants that `SupervisorInvariants` defines, for every
set of runs, approvals, decisions, callers and channels, every capacity and any number of failures
and restarts:

| theorem | says |
|---|---|
| `DecisionsAreHeard` | `[]ProviderHearsTheRecordedDecision`: the provider is told no decision but the recorded one |
| `ResolvedIsDelivered` | `[]ResolvedMeansDelivered`: what the database calls resolved was taken by the provider |
| `SupervisorImplementsLifecycle` | the supervisor implements `RunLifecycle` |
| `EventsAreWrittenOnce` | `[]TimelineHasEachEventOnce`: no event is appended twice, and only items are appended |
| `OutcomesAreTheProviders` | `[]OutcomeIsTheProviders`: a run is recorded as ended only as its provider ended it, or as failed when its start was refused |
| `StateStaysConsistent` | `[]StateIsConsistent`: types, the two maps of routes and the bounds of the buffers |
| `RestartsAccountForRuns` | `RestartAccountsForEveryRun`, if no store call fails: after a restart no run is `starting`, and a run that is `running` has a route or somebody is about to write that it was lost |

They assume what `RunTables`, `SupervisorState` and `RunSupervisor` assume of their constants
(`None` is no id, the provider's identities are the runs, no caller has the name of a task). A
decision may be sent from several places, none of which reads the row again: `responses`, what
`load_requests` restored for a reattachment, and the task between `begin_approval_response` and
`respond`. `AnswersInv` says that each of them holds the decision of the row, and it is inductive
because a decision that is written stays (`DecisionsStay`) and only a task that was told "taken"
confirms (`ConfirmStep`). For the lifecycle every write must be a transaction about a run that
exists: a task or consumer past its first step is about one (`RunsInv`), and the receiver a
reattachment waits to activate is its own (`ReceiversHeld`): while a restart prepares receivers,
nothing else reattaches. That refinement is proved without a run of its own; the `store` run
checks the refinement of the transactions it rests on.

The other three need an invariant of the whole supervisor, `WholeInv`. That an event is written
once is a statement about every place where it can be on its way (`Places`): the stream, the
buffer of the handshake, an uncertain start, what a task has left to send, the queue of a channel,
the consumer's hand, the timeline. `Once` says that an event is in one of them at most, and there
once; each step moves events from one place to another, drops them or copies none. A new event is
in no place because all places hold only what was emitted (`Known`). The moves are right because
a channel has one consumer and one run, which has its route there (`ChannelsInv`, `SendersInv`,
`RoutesInv`). For the outcomes, a start that has not been sent yet finds no run at the provider
and one about to be marked as failed was refused (`StarterInv`); the provider emits for runs it
has and a terminal event last (`EmissionsInv`), so the event in a consumer's hand is the end of
its run. `StateInv` says of `State` alone what each method under the lock keeps: the types, the
two maps of routes inverse to each other (`Routed`), the buffers within their bounds (`Bounded`).

`RestartsAccountForRuns` has a hypothesis about failures, `MaxStoreFaults = 0`, and needs it: a
run whose clean-up cannot read the row stays `running` without a route, which TLC finds as soon
as one store call may fail. `BootInv` holds from the crash until the API answers.
Nobody but the pump, its clean-up and the consumers is at work (`BootTasks`); a run has one
channel at most, so a consumer that ends because its senders are gone knows that its run has no
route (`BootChannels`); and every run that has been looked at is not `starting`, and `Watched` if
it is `running` (`BootRuns`). `Watched` is stronger than the `Accounted` of the property: it does
not count a task or consumer that is merely about the run, but one whose next step writes the
loss or that read `running` and will. That makes it inductive, for such a write does not miss: no
other step makes a run `running` again before the restart is over (`Calm`).

The module begins with what those proofs need of lists. Induction over data is done with sets
instead of predicates: the naturals that are not in a set have a least one (`LeastNumber`), so a
set that holds 0 and with every number the next holds all (`EveryNumber`). With it, a recursive
function exists and satisfies its equation (`AmongDefined`), what is kept of a list is picked
from it in order (`AmongPicks`), and nothing is kept that was not there or twice that was there
once (`AmongEntries`). `CodexHarnessProofs`, `TimelineProjectionProofs` and
`MockProviderProofs` begin with the same induction.

`TimelineProjectionProofs` proves, for every number of commands and events, every size of a batch
and any number of failures, restarts and answers:

| theorem | says |
|---|---|
| `NothingLost` | `[]NothingIsLost`: types; timeline, batch and buffer together are the deltas received, in order; a completed run has everything in its timeline |
| `ApprovalsHaveContext` | `[]ApprovalsFollowTheirContext`: everything said before a request for approval is in the timeline when it is recorded |
| `InputsAreSettled` | `[]InputsAreSettledByAnswers`: a running run offers every request without a recorded answer, and a request is recorded as answered, or taken from the user while its run goes on, only if the provider got an answer to it |

They assume `ProjectionAssumption` (a batch has at least one chunk, the bounds are numbers). Text
is a list flattened from parts, and everything about it rests on two lemmas by induction:
flattening two lists of parts gives the two texts one after the other (`FlattenConcat`), and what
is in the text is in a part (`FlattenEntries`). From the first, `Items` says that the rows which
`take_items` makes have exactly the buffer's texts, each command's under its own id, which needs
the induction over the commands (`CommandItems`).

The inductive invariant is `ProjectionInv`. `DeltasAreConserved` is almost inductive by itself: a
delta goes to the end of the buffer (`PushedTexts`), the buffer goes to the end of the timeline
(`Flushed`), and other rows add nothing (`PlainRow`), the row of an answer included, which may be
written between a batch and its flush. It needs that the buffer is empty while a batch is
written (`AtEvent`). The other two say what is in the timeline at a later step than the one that
put it there: `Covered` follows every event from the moment it is taken to the timeline, the
batch or the buffer, so that when an approval is recorded or the run is completed, with no batch
and an empty buffer, only the timeline is left (`AllWritten`). That nothing follows the end of a
run (`Emitted`) makes "everything taken" everything there is. An approval's context stays because
the timeline only grows (`Moves`, `Recorded`). For the requests, `InputsOpen` speaks of the batch
as well as of the timeline, since a request is open before its row is written, and a request is
forgotten only when its answer is recorded (`Answering`). That a recorded answer was sent rests on
the call in progress, which is past `respond` only if the provider took the answer, and on no other
step writing such a row (`AnswersSent`).

`CodexActorProofs` proves, for every set of calls, runs and requests and every bound:

| theorem | says |
|---|---|
| `TypeCorrect` | `[]TypeOK`; a call has an answer exactly when it is done |
| `RunsOutlived` | nothing the actor keeps is about a run that has ended |
| `UnsentUnheard` | what failed with an error that allows it to be sent again was not heard |
| `WaitersReachable` | a call that waits is in a place from which the actor answers it |
| `StoriesEndOnce` | the events of a run begin with its acceptance and end once |
| `OutcomesAreTheTurns` | a run is said to be completed only if the child completed its turn |
| `RequestsAnsweredOnce` | a request of the provider gets one response at most, and a caller's only if that caller is told so |
| `PendingLoginsAreOpen` | a login shown as in progress is, or the word that it is over is on its way |

They assume `ActorAssumption`: `None` is no id, no kind of mutation and no word of the event
stream, whose words are no requests, and the bounds are numbers.

`UnsentMeansUnheard` and `WaitersAreReachable` follow from one invariant, `CallsInv`, that
says where each call is. A call that waits is in exactly one of three places (`Queued`,
`Written`, `Joined`, `Placed`): in the channel, where nobody has heard of it; pending and
no login; or among the waiters of a login that is starting. What was heard is pending,
waits for a login, or was answered with something that admits it (`Heard`). When the
actor ends, what is pending becomes `unknown` if it is a mutation, waiters become
`unknown`, and only the channel loses its senders (`CloseCalls`). The invariant needs the
distinctness of the channel's entries: the call at its head must not be in its tail.

`RunsEndOnce` is not inductive: a second response for the same turn would begin its story
again. `StoryInv` adds that a run of which something was told belongs to a start that is
done (`Accepted`) and that a response on its way names the turn opened for its call
(`ResponsesNameTheirTurn`); a response is read only while its call is pending, and a
pending start is not done. `AllGo` shows that every step leaves a story alone, makes it
longer or begins it. `NothingOutlivesItsRun` needs that a request on its way names the run
it was made for (`RequestsNameTheirRun`).

`OutcomeIsTheTurns` follows a frame from the child to the event (`OutcomeInv`): a frame that
says completed is of a turn the child completed (`EndsAreTrue`), the child never revises the end
of a turn (`EndsStay`), and whatever the actor itself says of a run that its child leaves behind
is not that word. `RequestsAreAnsweredOnce` needs where each request is (`AskInv`): on its way
once, and then neither open nor answered (`AskedOnce`, `AskedAnew`); unanswered while it is open
(`OpenUnanswered`); and a response row is written by the step that takes the request out of the
open ones and kept from then on (`RespondersStay`), also when the actor ends.

`PendingLoginIsOpen` is about a word that may overtake the answer. The strengthening
(`EndsAreHeard`) speaks of a login that is starting too: if it is over, the word is on its way or
it is in `completion`, which the answer to the start then settles by (`StartEnds`). A new start
takes nothing of an earlier login, since a call still in the channel cannot be over: what is over
was heard of, and the channel holds only what nobody has heard of (`LoginsHeard`). No word is of
a login the child has not read (`FramesOfRead`), and the logins it knows of become no fewer while
the actor lives (`LoginsGrow`), because only an account call is made again, as no login
(`RowsMove`).

`ArtifactStoreProofs` proves, for every set of digests and publishers, every set of fault plans,
every grace period and every bound on time and files:

| theorem | says |
|---|---|
| `TypeCorrect` | `[]TypeOK` |
| `StoreConsistent` | `[]StoreIsConsistent`: no staging file is taken from the publisher that handles it |
| `CollectionsRemove` | `OnlyCollectionsRemove`: once no power loss can take a digest's file, only a collection does |
| `RowsKeepTheirBlob` | `[]RowsHaveTheirBlob`, if `PowerLossesAlone`: the blob of a committed row is there, and sound unless the disk spoiled it |

They assume `ArtifactAssumption` (`None` is no digest, the bounds are numbers, a fault plan is a
number for each kind of fault). The types are not inductive: a power loss may put the inode of
any name back into `staging/`, so `StoreInv` says that names are of inodes that were made, and
that a publisher at work has a digest. That a step of one publisher leaves the files of the
others alone needs that no two have the same (`OwnFiles`); that a collection does needs the set
of active files (`Active`). `OnlyCollectionsRemove` rests on the lock of the digest
(`LocksExclude`; the recovery at startup takes it too (ART 611-612), but then no publisher is at
work yet, so that `starting # {}` says as much): it keeps the blob's name in place at the steps
of a repair that count on it (`RepairInv`), so that putting the blob aside or dropping the
sidecar never leaves a digest without a name, on the disk or on its way there (`DiskInv`,
`DisksGo`), and a reconciliation leaves a name where there was one (`ReconciledHasNames`).

`RowsHaveTheirBlob` does not hold for every plan of faults: a failed sync or a killed process
followed by a power loss breaks it through the reuse of an unsynced blob that `artifact_durable`
shows. `PowerLossesAlone` therefore asks that a plan with power losses has neither failures of
operations nor kills; the plans of the run `artifact_store` are such plans, and any number of
failures and kills, or of power losses, at any steps are left, with any number of blobs that the
disk spoils. The inductive invariant is `BlobsInv /\ KeptInv`. What names a digest has or may have
after a power loss are names of its own files, and of none that a publisher has yet to move
(`OwnNames`), and a staged file is whole (`HeldFiles`), so that a blob only changes with its disk
and a file that gets the name of a blob is sound; the files and names go as `InodesGo` and
`NamesGo` say of every step. A repair that has put its file in place has made the blob sound
(`RepairedInv`). While power may be lost, the names of a digest are on the disk as they are except
in the middle of a repair, or after a collection took the blob (`SyncedInv`). The blob of a row is
sound and no repair of it is under way (`Kept`); nobody begins one (`RepairsBegin`), and the only
other step that could take its name is that of a collection which does not know the row. That one
finds the blob young: `KeptInv` follows the time from the lease to the row, since the row was
written while the lease ran (`PutArtifactMetadata`), the lease is no longer than the grace period
from the moment the blob was touched, and the collection read the rows and its clock before the
row was written (`ClocksInv`). The argument needs what section 2 says of the caller: it reads the
rows and calls `collect_unreferenced` at once, with a grace period no shorter than the lease. A
row written between the two could be of a blob whose lease is over by the collection's clock.

`CredentialMigrationProofs` proves, for every set of connections, locators, secrets, callers
and threads, every bound and every set of valid installations:

| theorem | says |
|---|---|
| `TypeCorrect` | `[]TypeOK` |
| `InterimOver` | `[]InterimIsOver`: after "ready" nothing of the interim releases is left, on the disk, in the snapshot or in the store file |
| `SecretsStayKept` | `[]SecretsAreKept`: what a connection's binding leads to is a value that was promised to it, or a migration's copy of one, through the copies, the checkpoint and the purge |

They assume `ConfigAssumption` and `BackendsAssumption` (`None` is no id, no setting, no secret,
no caller, no record of a migration and no store) and `InstallationAssumption`
(the configuration a launch finds passes `AppConfig::validate`, and the id of the interim
backend belongs to that backend or to none).

That no plaintext comes back is not inductive. A store file is created by the first thread that
finds none, for the backend it works for, so one must know that no thread works for the interim
backend (`NothingAtTheSource`), hence that the running broker has no handle for it, hence that
the snapshot it was built from had none (`ReadyIsOver`), and that a thread which holds the lock
of a file works for the file's owner (`LocksHold`), or it could save into a store that another
backend has claimed. "Ready" is reached in two ways: the migration finds nothing to do, for
which the file must still be what the launch saw (`StepsRely`) while nothing else runs
(`MigrationIsAlone`); or it finishes, for which the file must be gone at that step and a
configuration in its cleanup must not name the interim backend (`Sound`). `Sound` is kept by
every change (`WithConnectionSound`, ..., `CheckpointedSound`) and by every outcome of a write
(`UpdateKeepsSound`), because a write leaves the old or the new configuration in both places.

`SecretsAreKept` speaks of the places the bindings lead to, and the checkpoint makes all of them
lead elsewhere in one step. `KeepInv` says what must be true for that step to lose nothing. While
the migration runs the snapshot is what is on the disk (`ConfigsAgree`). How far its loop is
(`LoopsAlong`): every locator of the manifest that is no longer to be done has in the keychain
what the interim file has, hence all of them at the checkpoint. That stays so because, once a
receipt is on the disk that says a copy may have been made, nothing writes into the interim store
for the interim backend, in this launch or a later one (`SourceIsFrozen`). A file holds a
promised value unless nothing leads to the interim file any more, which the purge needs
(`FilesAreKept`); an entry of the keychain is promised or is a copy that a migration in progress
has announced (`KeychainIsKept`, `Coming`). The threads need that each works for its own request
and that a store's lock has one holder (`JobsMakeSense`, `OneEach`), and that a write nobody
waits for was promised when its caller gave it up (`DroppedIsPromised`).

`CodexHarnessProofs` proves, for every set of connections, provider states and secrets, and
every number of runs, adapters and disturbances:

| theorem | says |
|---|---|
| `SecretsAreFresh` | `[]NoRunUsesAStaleSecret`: a run works with the secret its start read, or with none |
| `RotationsAreIdle` | `NoRotationUnderRuns`: the runtime a start shuts down has no registered run that still works |
| `TypeCorrect` | `[]TypeOK`; with the pending events within their capacity |

They assume `HarnessAssumption` (`None` is no id, the bounds are numbers). Which secret a
process has is stated nowhere but in the generation kept beside its adapter
(`GenerationsTell`), and the generation is written a step after the process was started: until
then the start itself tells it (`Promised`). An adapter belongs for ever to the connection it
was made for (`Owned`), so what happens to the processes of other connections does not matter.
From the removal of the old provider to the start of a new process the connection's provider has
no secret (`Renewing`), and a process that an account call starts beside the start never gets one
(`AroundMoves`). So a start that skips the restart found the generation of the secret it read
(`Using`). For the rotation, the only run that could be registered after a start found none is
its own (`StartKnowsRuns`), since starts exclude each other, and registered runs work at
adapters of their own connection (`RunsKnown`). The types (`Types`, `Begun`) serve those
two theorems; `TypeOK` adds the events. The number of pending events is a recursive function over
the runs; that it grows by one when one run's events do, whichever run it is, is proved with
`EveryNumber` (`CountDiffers`). The bound then rests on the consumer: it listens only when it
found room, and takes one event before it looks again (`Room`). A run is told no more than its
last event beyond its progress (`Told`), and a start that has opened no turn yet finds the turn
still to be opened (`TurnAhead`).

`MockProviderProofs` proves, for every set of scripts, request ids, answers and calls, every
capacity of the channel and every bound:

| theorem | says |
|---|---|
| `ScriptsStayFollowed` | `[]ScriptsAreFollowed`: types and the capacity; what is sent for a run is its acceptance, the fault of its plan and the script as far as it has gone, in order, each step once, closed by one terminal event; its requests are those it has sent, and it goes past an await only with an answer |

It assumes `MockAssumption` (the channel holds at least one event, the bounds are numbers, there
are finitely many callers, `None` is no id, answer, fault, step or delivery). The invariant is
`ProviderInv`. Of each run, `Story` says that what was sent and what is left of the script belong
together: the rest is the end of the script (`RestInv`), and the fault is yet to come, about to
come or told, which the last event tells (`FaultInv`); `AskedAre` and `AwaitedAre` say the same of
its requests. A call keeps an event and a place in the script across its awaits, while another
call may advance, interrupt or crash the run; what it finds when it goes on is decided by the
record alone, so `CallsInv` says very little of what a waiting call holds (`CallFits`): a run that
is there, and an event that no script awaits. The step that commits appends to the run and takes
from the script at once (`SaidMore`), or nothing. Which script steps are told is a recursive
function over lists, treated as in `RunSupervisorProofs`. The capacity and the number of runs
count the calls that hold a permit or a start (`PlacesInv`, `CountMoves`), which is what the
finiteness of the callers is for.

**Only model-checked.** Liveness under fairness, `ENABLED`, `RECURSIVE` operators, `SelectSeq`
and the folds with an operator as parameter are out of the prover's reach; recursive functions
are not. So the liveness properties of `supervisor_liveness` and of the other runs
are checked on small instances only. Of the safety properties, `RowsHaveTheirBlob` is a theorem
only for the plans of faults named above, and `RestartAccountsForEveryRun` only for a store that
answers.

## 5. Findings

Each is a run that states what a document or a test says and a counterexample TLC finds.

* `supervisor_terminal`: between `get_run` and the transition in `transition_to_terminal`
  (SUP 1554) a command of unknown outcome writes `outcome_unknown`; the transition is
  refused and the terminal event is dropped.
* `projection_commands`: the flushed output of a command and its completion carry the same
  provider id (SUP 1839, 1675), which the schema makes unique (SQL 293); the second insert
  fails and ends the consumer.
* `artifact_durable`: a process killed between the promotion and the sync of the directory
  leaves a blob whose name is not yet on the disk; the next `publish` finds it, verifies
  it and returns (ART 208-210) without a sync, and a power loss then takes it.

Known weaknesses that the models contain and that no property names yet, because nothing
in the repository says what should happen.

*Supervisor and projection.* `reconcile_run` of a run whose start is in flight loses the race
for the transition, and `remove_route_state` (SUP 1020) removes the route that the start made:
the run is `running` and nobody follows it. The stream may break between a start's registration
and its route: `handle_pump_failure` clears `work_items` (SUP 1386), the start then routes the
run without inserting its work item again, and `active_run` refuses to steer or interrupt it. A
start between the two locks of `handle_pump_failure` (SUP 1398 and 1399) finds the dying pump's
handle, so no pump is started and the run's events stay unread until another call. Events
buffered during a handshake are sent after the lock is released (SUP 613, 625), so a later event
can overtake them; an event of a run nobody knows is put into the oldest empty uncertain start
(SUP 394-405), which may be another run's; reconciling an attached run leaves its status
`outcome_unknown` (SUP 1127-1140); a failed downgrade in `reconcile_startup` leaves prepared
routes behind (SUP 939); a run that lost its route stays `running` when the clean-up's `get_run` or
transition fails (SUP 1348, 1404); an answer to a request for input is sent before it is recorded,
so it may be sent twice; approvals in `responding` are not voided when their run ends.

*Actor.* `settle_login_start` takes the login's state whatever it is (ACT 1008), so the late
response of a start that `account/updated` had cleared forgets a login started since; a
question without a text stays answerable though it was never offered; a `turn/completed`
that comes before the response to `turn/start` is dropped (ACT 926) and the run never ends.

*Harness.* Every way in which a provider leaves the map while a start uses its adapter ends
the new run: the end of the last run of a crashed runtime (MAC 1396) after the start has
restarted the process, or an account call after a change of the provider state (MAC 1149).
The start returns, the last `Arc` is dropped, and `CodexAdapter::drop` kills the process; until
then two processes may share one Codex home, and a command is sent to the adapter that took
the place. A process that dies between `prepare_mode_b_runtime` and `turn/start` is
replaced by one without the secret, and a run of a connection that became delegated uses
the process that still has one. An event received before `register_run` and routed after
it overtakes those in `replay_events` (MAC 1612); when it is the end of the run, the others
are refused, and an error of `next_event` ends the pump.

*Artifact store.* A repair that fails between the replacement of a corrupt blob and the
renewal of its lease leaves a file with the age of its staging; a publisher that had
already returned for that digest loses its lease with it, and a collection may take the
blob it is about to commit. `RowsHaveTheirBlob` therefore says nothing of a digest between
its decay and the next publication that returns. A staging file that its publisher renames
after the collection listed it makes the whole collection fail (`CollectStaging`). A
caller that reads the referenced rows long before the collection, or whose `publish`
is delayed between the renewal and its return, has less than the grace period.

*Credentials.* The checkpoint moves bindings to the keychain without looking whether one is
there already under the same locator (CFG 599): the store accepts two connections with one
reference, and the broker of every later launch refuses it, so the application no longer
starts. A write of the keychain that was given up is not stopped (`broker.rs` 267), so it may
land after a later write was acknowledged; `SecretsAreKept` allows the uncertain value for as
long as its thread is at work. When the write that begins the migration was made but reported
as failed, and the file could not be read back, the process goes on with a snapshot without a
migration and lets a credential be set at the source; the manifest lacks it, and the migration
stays pending for ever (the last obstacle that `Obstructed` names). `put_connection` registers
the target's backend whatever had its id, while the running broker keeps the handle it was
built with.

## 6. What is not modelled

* Of the database: projects, artifact metadata beyond what `ArtifactStore` needs, paging,
  opening and migrating the schema, the worker's queue. Paging and formatting only read; a
  schema migration is one transaction of fixed statements.
* Of the supervisor: the `AppEvent` broadcast, which tells a listener to read again and
  carries no state, and logging.
* Of the domain types: the id newtypes and their validation.
* Of the Codex actor: health and diagnostics, and `start_session`'s and `start_run`'s
  sequences of several calls. Whether `CodexHarness` over `CodexActor` implements the external
  provider of `RunSupervisor` is not checked: the product is too large for TLC, so each keeps
  only what it needs to know of the other.
* Of the configuration: `RemoveConnection`, `PutSecretBackend`, `RemoveSecretBackend`,
  `SetUiTheme` and `Reset`, which the application never calls, and the pure migrations of
  older files.
* Of the secrets: the 1Password command line (it only reads, through a child process), the
  in-memory backend of the tests, audit records, and the child's environment. The keychain is
  external: its two steps of a put are the calls that `local_os.rs` makes.
* Of the mock provider: sessions, which no run changes, and a subscriber that goes away.
* Tauri shell and frontend, desktop API, contract host, cache and paths: presentation, data
  transfer, a command line that drives the other parts by hand, and path arithmetic; none
  keeps state that a step of another could find stale.
