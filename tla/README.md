# Formal models of OpenTendril

TLA+ modules, TLC configurations and TLAPS proofs for the Stem, the Go daemon
and command line of OpenTendril (`src/cmd/stem` and its `internal` packages,
with the provider client of `src/roots/llm`). `PROJECT.json` is the index:
components, runs, mutants, the source lines of every definition, findings,
hazards and theorems.

How to run it, in this directory:

    tlc -workers 2 -config SeedGrowth.cfg SeedGrowth
    tlapm SeedGrowthProofs.tla

`SeedGrowth` and `SeedLedger` have configurations of their own. The `MC` modules put several components
side by side: most extend one of them, so that a theorem about it and a run speak
of the same property, and instantiate the others. Components of one `MC` module share no variable: a
variable `focus`, chosen in the initial state, says which of them moves, and the
others rest in their initial state. TLC then explores the disjoint union of
their graphs in one run, and each property says of which `focus` it speaks. To
look at one component alone, restrict `focus` in `MCInit`, or write a module
that EXTENDS it and gives values to its constants.

Definitions marked `MUTANT` are what a plausible bug would make of the
definition that follows; no specification uses them. `PROJECT.json` names for
every property the mutant that TLC finds to violate it.

## 1. What the system is

The Stem grows *Seeds*: it runs a coding agent (a *Sprout*) in a sandbox (a
*Terrarium*) until a verifier is satisfied, and publishes the result (*Fruit*).
A detached Seed belongs to a session (a *Phytomer*), is owned by a caller
identity (a *Pollen*), and can be steered while it grows (*continuation*).
*Sequences* are files of steps, each step one or more Sprouts on a checkout of a
*Substrate* (a repository). The Stem also fires scheduled Sequences, streams
telemetry to browsers and sinks, keeps memories (*Rhizome*), takes pushes of
other Stems over the mesh, and gates delegated requests with grants. Several
Stem processes may share one SQLite history database: `tendril serve`, and one
`tendril mcp` per editor; the commands of the *Botanist* (the operator) are
processes, too.

### Inventory

Paths are under `src/cmd/stem/internal` unless they start with `cmd` or `roots`.

| Component (source) | State | Operations | Hard behaviour | Correct when | Modelled in |
|---|---|---|---|---|---|
| Seed ledger (`historydb/continuation*.go`) | rows of Seeds and continuations | open, accept, claim, mark delivered, fence, complete, fail, reconcile | any order of transactions; a restart between any two | accepted intent is never lost, reordered or left behind a settled Seed | `SeedLedger`, `SeedLedgerProofs` |
| Seed growth (`conductor/seed.go`, `core/continuation.go`, `core/seed.go`) | one goroutine per Seed; quarantine | build, deliver, confirm, judge, fence, settle, finalize, continue | a crash between steps; a storage call that failed after it committed; two processes | only acceptable Fruit settles; what was delivered was requested, in order | `SeedGrowth`, `SeedGrowthProofs`, `SeedPromise` |
| Seed opening (`core/seed.go`) | mutex, row, Phytomer | find, prepare, record, recover, discard, launch | two processes with one retry identity; ambiguous failure | at most one growth per identity | `SeedOpening`, `SproutsProofs` |
| Session manager (`session`) | cache, rows, message log | get, adopt, update, touch, message, prune, evict | copies written outside the lock | acknowledged updates stay, a pruned session stays gone | `SessionManager` |
| Run rows and retention (`historydb/historydb.go`, `cmd/stem/sproutrunpersist.go`, `core/sprout.go`) | rows of runs and Seeds | open, write, settle, watch, sweep | one-shot commands; age against growth | what is reported is on record, and under its own name | `HistoryRows` |
| Scheduler (`scheduler/scheduler.go`) | schedules, latches, queue, file | tick, reload, fire, attempt, back off, release, stop | reload during a run; cancellation | no overlap, no lost queued fire | `Scheduler`, `SchedulerProofs` |
| Cron expressions (`scheduler/cron.go`) | a search | one step per branch of `Next` | zones that lose or repeat an hour | the first minute that matches | `Cron` |
| Sequence runner (`conductor/sequence*.go`) | file, copy in memory | dispatch, fail, retry, pause, append, save, resume | failure policies, two runners of one file | dependencies first, no stall, nothing complete runs again | `Sequence` |
| One step (`conductor/selection.go`, `sequence.go`, `parallelsprouting.go`) | checkout, worktrees | grow alone, crew, graft, consensus | candidates in parallel; stashes; failing git | only the fit are grafted; what is reported good has landed | `StepRun`, `Substrate` |
| Sprout run (`conductor/docker.go`, `outcome.go`) | checkout, branch, stash, worktree | isolate, stash, grow, commit, merge, undo | runs that overlap; death; detached ends | the operator's edits and branch are given back | `SproutRun`, `Substrate`, `BranchesProofs` |
| Turns and Terrarium (`conductor/sprout.go`, `terrarium/docker.go`) | conversation, container | ask, call tools, stop, measure | three clocks stop one container | a run cut off is not filed as broken | `SproutTurns`, `SproutsProofs` |
| Mind call (`roots/llm`) | stream, token channel | fail over, decode, publish | pieces of calls; channel against end | a call acted on is whole | `MindCall`, `SproutsProofs` |
| Model choice (`roots/llm`, `conductor/assessor.go`, `sequencegenotype.go`) | registry, listing | resolve, route, discover | a listing arrives between two searches | constraints yield in their order | `ModelChoice`, `SproutsProofs` |
| Task context (`conductor/taskcontext.go`, `historydb`) | index of symbols | scan, select | edits and broken scans | quoted lines are those of the text | `TaskContext` |
| Rhizome memory (`rhizome`, `conductor/chronicler.go`, `cmd/stem/cmdmemory.go`) | memories | propose, confirm, reject, supersede, remove, recall | read-modify-write by processes | what is ruled out stays out | `Memory` |
| Dormancy watcher (`dormancy`) | records per run | observe, probe, report, evict | probe outside the lock | one report per silence | `Dormancy`, `SproutsProofs` |
| Run workspaces, owned refs (`conductor/runworkspace*.go`, `ownedrefs.go`) | allocation ledger, refs, worktrees | allocate, roll back, release, reconcile, abandon | a crash between any two writes; a command beside the Stem | Fruit keeps a branch with an owner | `RunWorkspaces` |
| Delegated workspaces (`conductor/delegatedworkspace.go`, `gitbranchlifecycle.go`, `git.go`, `gitapply.go`) | worktree per Pollen, branches | resolve, replace, commit, push, request, prune | the lock is let go between resolving and acting | commits stay reachable until the forge has them | `DelegatedWorkspaces` |
| Checkouts (`conductor/checkout.go`, `gitfetch.go`, `workspace.go`) | tracking ref, packs, work | staged fetch, start point, refresh | collection between import and update | work starts from the remote as asked for, or newer | `Checkouts`, `BranchesProofs` |
| Fruit publication (`conductor/delegatedapigit.go`, `git.go`, `githubapp.go`) | branch on the forge | create, commit, look, replay | lost requests and answers | once, and "none was accepted" only if so | `FruitPublication`, `BranchesProofs` |
| EventBus (`eventbus`) | handlers, sinks, history | subscribe, publish, attach, shut down | close against send; full channel | every event received or counted as dropped | `EventBus`, `EventBusProofs` |
| Gateway (`gateway`) | channel and two pumps | subscribe, greet, replay, pump, release | slow client; break at any point | no gap, no handler left behind | `Gateway`, `EventBusProofs` |
| Exporters, health monitor (`telemetry`, `healthmon`) | log, archives, connection; last health | harden, send, retry; check, publish | an archive half written; overlapping checks | what was taken in is kept, a change is announced once | `Telemetry`, `EventBusProofs` |
| Delegation (`core/delegation*.go`, `authority.go`) | grants file, confirmations | create, remove, add, revoke; authorize; approve, deny | read-modify-write by processes; expiry; restart | authorized means granted, confirmed where asked, once | `Delegation`, `DelegationProofs` |
| Credentials and observation (`core/accesstoken.go`, `pollinatorcredentials.go`, `receptors`) | credentials, tokens, views | issue, revoke, mint, resolve, show | authority that changes while it is shown | each sees its own | `Observers`, `ReceptionProofs` |
| Daemon (`cmd/stem/cmdserve.go`, `cmdservesocket.go`) | lease, socket, port, key | start, serve, stop, die | two Stems and one path; order of shutdown | no socket is stolen; drained in order | `Daemon`, `ReceptionProofs` |
| Public ingress (`cmd/stem/publicingress.go`, `remotetls.go`, `cmdserve.go`) | pools, bucket, staged bodies | connect, admit, mint, stage | every exit gives its slot back | limits hold | `Ingress`, `ReceptionProofs` |
| Mesh (`mesh`, `conductor/meshpush.go`) | keys, terrariums, branches | sign, verify, apply, govern, push | lost answers, rotated keys | what is pushed was governed | `Graft`, `ReceptionProofs` |
| Substrate registry (`substrateconfig/registry.go`, `conductor/substratesconfig.go`) | one document | add, clone, remove, edit, read | commands and editors; stale copies | others are left alone | `Registry` |
| Heartwood encryption, triggers, front ends | - | - | none | - | not modelled |

`PROJECT.json` says of each what it leaves out, and lists under `hazards` the
places where the code is hard to test, with the properties that watch them.

Who meets whom: growth calls the ledger, the Sprout run, the verifier and the
publication; the opening creates the row that a growth belongs to; the scheduler
fires the sequence runner, which runs steps, which run Sprouts, which run turns,
which call a mind; every one of them publishes on the bus, whose sinks are the
history database and the exporters, and whose handlers are the gateway's
connections and the dormancy watchers; authorizer, credentials and ingress
stand before all of it. Each module takes its neighbours as an environment that
chooses its outcome, except where two are composed: SeedGrowth has the ledger as
INSTANCE, StepRun and SproutRun share the operators of Substrate.

## 2. Modules

    SeedPromise <--refined by-- SeedGrowth --instance--> SeedLedger
                                    |                        |
                             SeedGrowthProofs  ------> SeedLedgerProofs
    Scheduler <-- SchedulerProofs        Delegation <-- DelegationProofs
    MCEvents  <-- EventBusProofs         MCReception <-- ReceptionProofs
    MCBranches <-- BranchesProofs        MCSprouts  <-- SproutsProofs
    Substrate <-- SproutRun, StepRun     the others stand alone

| Run module | Extends | Puts beside it |
|---|---|---|
| `SeedGrowth` | `SeedLedger` (instance) | - |
| `SeedLedger` | - | - |
| `MCStem` | `Scheduler` | `Cron`, `SessionManager`, `Registry` |
| `MCEvents` | `EventBus` | `Gateway`, `Telemetry` |
| `MCReception` | `Ingress` | `Observers`, `Daemon`, `Graft` |
| `MCBranches` | `FruitPublication` | `RunWorkspaces`, `DelegatedWorkspaces`, `Checkouts`, `SproutRun` |
| `MCRulings` | `Delegation` | `Memory`, `HistoryRows` |
| `MCSprouts` | `SeedOpening` | `Sequence`, `StepRun`, `ModelChoice`, `TaskContext`, `SproutTurns`, `MindCall`, `Dormancy` |
| `MCEndings` | - | eight of these, for liveness |

### Seeds and what is on record

**SeedLedger.** `seeds[p]` is the row of Phytomer p, `continuations[p]` the
sequence of its continuations (the position is the sequence number, which the
code allocates in the transaction). Each exported method of the store is one
action, because each is one SQLite transaction and the database has one
connection. A refused call changes nothing and is no step. Messages, digests,
times and encryption are left out; an intent is a value. Rows of the statuses
`satisfied`, `exhausted` and `withered` are found only in old databases: the
code writes `settled` alone and treats all of them alike.

**SeedGrowth.** The ledger with what calls it: a goroutine per Seed that goes
through the steps `loop, deliver, build, confirm, judge, fence, settle,
finalize`, and `phytomer.continue` requests between resolution and acceptance
(`asking`, at most one per process). `Call` is a storage call: its transaction
commits or not, and independently the caller sees success or an error, where a
mismatch is a fault. `Crash` takes a process with its goroutines and its
quarantine; `Boot` runs the reconciliation before it serves. The Sprout, the
verifier and the publication choose their outcome.

**SeedPromise.** What a caller relies on: an accepted intent waits, is delivered
oldest first, or fails with its Seed; a Seed is sealed with nothing waiting, and
bears Fruit only behind the seal.

**SeedOpening.** `OpenDetached` between processes: inside a process the mutex
serializes requests, between processes the unique index decides. The steps are
`find, prepare, record, recover, launch, discard`.

**SessionManager.** One session stands for all, since no operation relates two.
A request is a critical section on the cache followed by storage calls made with
the copy it took. `idle` abstracts the age of `LastActiveAt`; time passes only
while no request is in the middle, as no request lasts as long as the TTL. The
ghost `mishaps` records that two requests overlapped or a load failed.

**HistoryRows.** The row a Sprout run opens before its caller hears of it, the
writes that follow from its goroutine, the evidence a one-shot command must leave
before it exits, whose runs a Phytomer carries, and the sweep by age. A failed
write is a fault. `Reused` lets a caller name an old step id, `LongRuns` lets a
run be older than the retention.

**Registry.** One document, rewritten as a whole by commands that are processes
and take no lock: each reads it, and later replaces it, and any number of others may
do so in between. `stem` is the copy of the daemon's start, `growth` what a run has
read. A command carries the ghost `was`, the registry at the moment of its read,
against which `OthersAreKept` judges what it writes; that nothing written in between
is lost (`NoChangeIsLost`) is refuted, as the code has nothing to prevent it.

### Sequences, steps, runs

**Sequence.** `file` is the checkpoint, `run[r]` the copy of a runner. A step's
outcome is chosen; a verifier's failure buds a Debugger, a Meristem appends
steps. Every change of the copy is saved as a whole, and a save may fail.

**Substrate, SproutRun, StepRun.** Substrate has the git commands on one
checkout as operators on a record; a commit is the set of runs whose grafts it
holds, so that ancestry is inclusion. `Clashes` says which edits are new files whose
name a run's commit has too: git merges and checks out nothing over such a file
(`Obstructed`), and a stash that holds one is not laid down in full (`Overrun`).
SproutRun is `RunSprout`: every exit undoes what was prepared so far, in reverse, and
each undoing may fail. The last of them pops the stash, and where untracked files
could not be restored `recoverFailedStashPop` takes them for OpenTendril's own and
drops the entry, whoever they are of; both ways are in `Restore` and
`DropRedundant`, so that the operator's edits are kept *but for* a new file that a
Sprout's commit has too. StepRun is one step in each of its kinds. An earlier attempt
may have left branches with a commit it found unfit (`Past`); as names are
deterministic and an existing branch is taken as it is, a selection may graft what is
on one (`GraftIsOfThisAttempt`, refuted).

**SproutTurns.** The turn loop, its tool calls and the container, which the
watchdog, a clock, the dormancy capture or the teardown stops, whoever is first. A
line of the agent is printed whole or in part: a pipe shut within one hands the part
out without an error, so that the run ends with what does not decode, and does not ask
who shut the pipe.

**MindCall.** The client, the wire, the decoder of the two streaming dialects,
and the channel between the call and the goroutine that publishes its tokens.

**Dormancy.** `rec[w][r]` is what watcher w has retained of run r. Whether a
silence is long is a choice between in time and overdue.

**ModelChoice, TaskContext, Memory.** What a mind is told and who it is. A
search reads the registry anew each time; a scan writes file after file; a
memory is read, changed and written back as a whole.

### Branches, trees, forges

**RunWorkspaces.** One branch with its worktree, the two files that say whose it
is, the Stem's git lock, and a reconciliation or abandonment by the command
line. `Alone` says that Stem and command line do not work at the same time.

**DelegatedWorkspaces.** A tip is the set of commits beyond the default branch.
A call resolves under the lock, lets it go, and takes it again to act. The run has it
twice: one Pollen with a named feature, two commits, ignored files and a crash; and
two Pollens, each with its own lock, of which one prunes branches by name while the
other commits on one. An ignored file keeps a workspace from being replaced if it is
there when the workspace is inspected, as `delegatedworkspace.go:236` wants it; one
that is made later goes with the worktree, which git removes without `--force`.

**Checkouts.** A commit is its number on the remote's one branch. A fetch takes
packs in, keeps them by a marker, and moves the ref in a transaction. The refresh of a
run resets the checkout to its branch, and fails the run if it cannot; of a Substrate
that names no branch (`"track"`) it resets to the upstream of what is checked out, and
goes on with the checkout as it was if that fails (`ResetMissed`).

**FruitPublication.** A branch is a chain of commits on the forge; a request may
be refused, never sent, or lost on its way back and take effect later.

**Graft.** A patch that is applied, governed, committed and pushed by the
central Stem; `keys` are the generations of the two key files.

### Events and doors

**EventBus.** One event type, as handlers of different types do not meet.
Publishers walk: history and snapshot under the write lock, handlers without a
lock, sinks under the read lock, in an order that is left free.

**Gateway.** One connection over its own abstraction of the bus. A socket works
until it is `broken`.

**Telemetry.** Three parts that share nothing: the Resin log and its archives,
one remote sink with its attempts, the runs of the health checks.

**Scheduler, Cron.** The ticker goroutine, the file, a pool of run goroutines; a
run goroutine keeps the entry it was started with, as in the code. `Init` is after the
start, where the file is read first and its mtime taken later: the entries and the
file are chosen apart from each other, as an edit may lie between. At this
commit no command calls `scheduler.New`. Cron has small units of time given as
constants, and zones whose offset changes once.

**Delegation.** `grants` is the file; a command reads it and later replaces it
as a whole. A request loads the file once, then is denied, authorized or
escalated; an escalated one uses up an approval in one lock section (`Consume`),
or finds none and creates a confirmation in another. `Restart` loses the
confirmations.

**Observers.** Who is let in and what it is shown, in four views of a Phytomer.

**Daemon.** Stems of one principal in one directory: key, lease, socket, port,
requests in flight, and the order of shutdown. An outsider may touch the path.

**Ingress.** Each pool is a channel of slots. A request takes them one after the
other and gives them back on every exit; a bucket is counted in parts of a mint.

## 3. Runs

| Run | Instance | What it shows |
|---|---|---|
| `seed_growth` | 1 Phytomer, 1 Pollen, 2 keys, 2 intents, 2 processes, 2 passes, 1 fault | no claim replaces intent that still waits; what was delivered was requested, what was acknowledged is on record, an outcome is settled or quarantined, Fruit passed its verifier; the processes implement `SeedPromise` |
| `ledger` | 2 Phytomers, 2 Pollens, 2 keys, 2 intents | nothing waits behind a settlement, accepted intent is permanent, a settled Seed is final |
| `stem` | schedules: 1 that skips or queues, 3 run goroutines, 1 retry, 2 edits; a calendar of 2 minutes, 4 hours, 3 days, 2 months, 4 zones; session: 2 callers, every call may fail; registry: 2 names, and 2 commands that overlap with 1 edit, or 1 command with 1 edit and a growth | runs of a schedule never overlap, a queued fire is grown, edits that load are in force, the search finds the first minute that matches; a session is kept unless requests overlap or a load fails; a command writes back what it read of the Substrates it does not name |
| `rulings` | delegation: 2 requesters of 1 Pollen, 2 commands, 2 operations, 2 Substrates, 2 confirmations, 2 authorizations; memories: 1 proposal, 2 rules, 3 commands, 2 chroniclers; rows: 2 runs, 1 fault | single use, of the very call that was approved, under a grant; a command opens only what it names; what was ruled out is not recalled; rows tell the truth |
| `events` | 2 publishers, 2 handlers, 2 sinks with a channel of 1, 2 events; gateway: channel 2, window 1, 3 events, 2 types, 2 sessions; exporters: 6 events, archives of 2, 3 posts with 2 attempts; 2 probers with 4 runs | every event is accounted for at every sink; no send after close; what a browser or an archive shows is true; nobody is held up |
| `reception` | observers: 2 Pollens, 2 runs, 2 changes; Stems: 2, with 2 ports, 2 inodes, 3 starts; ingress: 2 clients, pools of 1 and 2, bucket of 1; mesh: 2 Stems, 2 grafts, 2 keys, crashes | each sees its own; pools, pace and bodies are bounded; no socket is stolen and shutdown is in order; what is pushed was governed |
| `branches` | workspaces: 2 runs, 1 crash, 1 fault; delegated: 1 Pollen, 1 feature, 2 calls, 2 commits, 1 crash, ignored files, and 2 Pollens with 2 calls and 2 commits; checkouts: 2 callers of every kind, with and without a branch, outsiders, 2 pushes; run on the checkout: 2 runs, one perhaps a candidate, 2 edits of which one is a new file that the first run's commit has too, 1 fault, 1 death; publication: 2 calls, 2 tries, 1 foreign commit | Fruit keeps a branch with an owner; commits stay reachable; fetched objects are kept until a ref holds them; the operator's edits and branch are given back; a change is published once |
| `sprouts` | opening: 2 processes, 1 identity, 2 digests, 3 Phytomers, 2 faults; sequence: 3 steps and 2 spare, 1 runner, 2 starts, 1 fault; step: a crew of 2, 2 faults, 2 edits; choice: 2 providers and an unknown one, 1 discovery, a table that begins with a local model; context: 2 paths, 3 bytes, 2 edits, 3 runs; turns: 3 with 2 calls; mind call: 2 addresses, 2 calls of 2 pieces; dormancy: 2 runs, 2 signs | one growth per opening and one answer per request; dependencies first and nothing complete runs again; only the fit are grafted; constraints on the model yield in their order; quoted lines are those of the text; a cut-off run is not filed as broken; an answer acted on is whole; one report per silence and watcher |
| `endings` | eight components at smaller bounds | Seeds and openings settle, silences are reported, sequences, steps, runs, turns and calls end |
| `seed_growth_orphan`, `cron_fall_back`, `dropped_stash` | 2 processes; a zone that repeats an hour; 2 runs, 2 edits, no fault | refuted: section 4 |

**Why the bounds are enough.** The hazards are about two actors and one
resource: two processes or goroutines and one row, channel, file, branch or
pool. Two of each actor give every interleaving of a pair, and where a third
matters (two runs behind one that holds a latch) there are three. Two keys and
two intents tell a retry, a conflict and an order apart. Two passes of the Seed
loop are one that may continue and one that is the last. Channels and pools are
smaller than what wants to go through them, so that they fill; in Gateway the
window is smaller than the capacity, as 100 < 256. Clocks go just beyond every
limit, inclusive and exclusive. Each fault or crash may come at any step; more
of them are more of the same step, and the proofs have no such bounds. A run
with several components is the disjoint union of their graphs: nothing is lost
by exploring them in one run, as they share no variable. A property of such a
run is a conjunction of named parts, one for each component in focus.

Symmetry is taken over sets of values that no operation tells apart, one
permutation at a time over the sets of all components together; runs with a
liveness property have none. `CHECK_DEADLOCK FALSE` stands where the system
really stops: all events are published, all passes used, a Seed is done.

**Fairness.** Every WF is on the steps of a goroutine that the Go runtime keeps
running and whose waits are bounded by contexts or timeouts, and on `Boot`: a
Stem that went down is started again by its supervisor or its editor. The
scheduler's `Stop` is strong: its `select` picks at random among the ready
cases, so a cancelled context that stays ready is taken in the end although the
ticker is ready again and again. In `events` only publishers are fair without a
condition; what else is needed (a sink's `Consume` returns, the goroutines of a
connection run on) is the hypothesis of an implication in the property. Edits,
publishing, requests, crashes and failures are never assumed to happen.

## 4. Findings

Each is a property that a doc, a comment or a test states and TLC refutes. Three
are runs (`seed_growth_orphan`: reconciliation at start settles the Seeds that
another live process is growing; `cron_fall_back`: the search for a fire time
does not end in a zone west of UTC on the night an hour is repeated;
`dropped_stash`: a stash is dropped as redundant with the operator's new file in it,
because the Sprout committed a file of that name). Of the
others `PROJECT.json` quotes under `findings` those with the plainest text. To
see one, write a module that EXTENDS the one named, gives its constants values
as in the run of its component, and a configuration with the property; the
comment above the property says what else it takes.

| Module | Property | What TLC shows |
|---|---|---|
| `SeedGrowth` | `DeliveredCrossedProvider` | a continuation is confirmed as delivered on an authentication probe that was rejected; no Sprout request carried it |
| `SessionManager` | `SavedIsDurable` | a failed load replaces a stored session by a blank one; of two overlapping requests the older copy is saved last |
| `SessionManager` | `PrunedStaysPruned`, `EvictionIsTransparent` | a pruned session is stored again by a request that overlapped the Prune; an update of an evicted session is told that it does not exist |
| `Scheduler` | `QueuedFireGrowsItsEntry`, `DueEntryFires`, `StartsOnTheFile` | an edit between the load at start-up and the first stat is taken for seen and never loaded; a queued fire grows the entry from before the edit; a tick that reloads the file skips the fires that are due |
| `Cron` | `SearchEnds` and the parts of the search | besides the search that hangs: a fire time in the past, the first of two repeated hours skipped |
| `EventBus` | `DrainedAtExit` (`OneShot = FALSE`), `NothingIsDropped` | the daemon exits before its sinks are drained; audits of delegations share the lossy lane |
| `Gateway` | `GreetingComesFirst`, `ReplayPrecedesLive`, `BrokenIsReleased` | a live event is queued before the greeting or among the replayed ones; a burst fills the channel before the greeting and the handlers stay |
| `Telemetry` | with 2 Stems | two Stems that share `resin.log` lose what is written between archiving and truncation (`resin.go:133`); a WebSocket post counts as delivered when it is written; the last announced change of health may be the older one |
| `Delegation` | `RevokedStaysRevoked` | a concurrent grant command undoes a revocation: the mutex guards goroutines, the callers are processes. The same holds of credentials in `Observers` |
| `Observers` | `SeesOnlyItsOwn` | the live stream and the stored events ask once who the Phytomer belongs to |
| `Sequence` | `CompleteStaysComplete` | two runners of one file each save their own copy of the whole |
| `StepRun` | `CompleteStepHasLanded`, `CheckoutIsNotJammed`, `GraftIsOfThisAttempt` | a branch left by an earlier attempt is grafted with the commit that attempt found unfit; a step reported complete may have landed nothing, when it detached; a failed merge leaves the checkout in the middle of it |
| `SproutRun` | `DroppedIsRedundant`, `MaturedDidNotFail`, `CheckoutIsRespected` of overlapping runs | the stash that is dropped held a new file of the operator's; a run that failed late is announced as matured; two runs on one checkout restore each other's branch and stash |
| `SproutTurns` | `KillIsNeverUndecodable`, `ObservationEndsNothing`, `MeasuredTreeIsStill` | a kill that falls into a line of the agent is dressed as a decode failure; the dormancy capture stops the Terrarium; commands write while the tree is measured |
| `Dormancy` | `OneReportPerSilence`, `SilenceFromBirthIsReported` | every watcher that heard of a run reports it (`docs/DESIGN-DORMANCY.md:15`); a run that never shows life is never reported |
| `MindCall` | `ShownIsTheAnswer` | tokens of an attempt that failed over stay on the screen; with `Cuts`, a call a provider cut at its output limit and reports as complete is acted on (`AnswersAreWhole`) |
| `ModelChoice` | `AutonomousDrivesTools` | a model that drives no tools is selected; a named provider is left by routing; an unknown provider runs as the local one; a failed discovery is cached |
| `TaskContext` | `LinesFitTheText` (`Reverts = TRUE`) | a file changed and changed back between two scans is quoted by the wrong lines |
| `Memory` | `ProposalsPreserve`, `NeverBoth`, `OneOfTheTwo`, `MarkingPreserves` | two Stems write one memory (`docs/DESIGN-RHIZOME.md:79`); two commands leave a memory and its correction both established, or an assembly reads both; a stale copy overwrites the Botanist's word |
| `RunWorkspaces` | `RowsAreRecoverable`, `EveryBranchHasAnOwner`, `LiveTreeIsSpared`, `NothingIsLost` | a crash leaves a row no command accepts; with `Alone = FALSE` the git lock of a process does not keep the command line out |
| `DelegatedWorkspaces` | `PruneRestsOnFreshEvidence`, `NamesAreFreed` | a branch is listed once and deleted by name; its record stays |
| `Checkouts` | `TracksTheRemote`, `OperatorsWorkIsKept`, `InvestigationIsStill`, `MarkersAreDropped`, `RefsNeverGoBack` | a run of a Substrate without a branch starts from the tree the last one left, as the reset failed unnoticed; the status is read before the lock; a refresh moves a tree that is being looked at; a failed fetch leaves its marker; an outsider moves the ref back |
| `FruitPublication` | `CreatedIsUsed` | a branch left at the base by a lost creation is taken for somebody else's |
| `HistoryRows` | `RowIsOneRun`, `LateFruitIsKept` | a step id named again mixes two runs; a Seed older than the retention loses its Fruit |
| `Graft` | `BranchNamesItsCommit`, `ErrorMeansNotPushed` | HEAD is read twice; an answer is lost after the push |
| `Daemon` | `ServedKeyIsOnDisk`, `OrderlyExitDrains` | two first starts each generate a key; the process exits while its shutdown still drains |
| `Registry` | `NoChangeIsLost`, `RemovalIsDependencySafe`, `OthersKeepTheirCredential`, `OneConnection` | of two overlapping commands the later undoes what the earlier wrote; a grant added meanwhile names a removed Substrate; a forced profile changes another's credential; a growth mixes two entries |

Noticed and not checked: `docs/GUIDE-INSTALL.md` and `ARCHITECTURE.md:237` still
speak of Seeds that settle as satisfied, exhausted or withered, where the code
writes `settled`; `docs/DESIGN-SCHEDULER.md:56` says that `cmdserve` always arms
the hot reload, where no command starts a scheduler; the comment at
`core/delegation.go:75` says that no confirmation surface exists.

## 5. Proofs

Eight modules, checked by TLAPS from the assumptions named in the component
modules and in the run modules: types of the constants, values that stand for
nothing (`NoSeedIsNoRow`, `FreeIsNobody`, `NoneIsNothing`, `NoneIsNobody`), counts
that are numbers (`CallsAreCounted`, `SomeTier`, `FeedIsBounded`, `OutsideIsBounded`,
`GrowthIsBounded`, which also says that the protected branch is no run's,
`ContextIsIndexed`, which also says that the files of a workspace are finitely many),
watchers that belong to runs (`WatchersRun`), one Stem to a log (`OneStem`, as two
lose events: section 4), the capacity of a channel, the positive pace of a bucket,
finite sets of clients and probers. Nothing is assumed about how many Seeds, processes, publishers,
sinks, handlers, schedules, retries, faults, requests, mints, calls, fragments,
providers, commits or callers there are.

The components that a run module puts beside the one it extends are proved about
through it: `Alone` in the name of a theorem says that it is about the component's
own specification, its twin that the property of the run, which names the focus,
follows of the composition, because a step of the composition is a step of the
component or leaves its variables.

| Theorem | Property of a run | Module |
|---|---|---|
| `NothingUnresolvedBehindFence`, `FruitOnlyWithEveryIntent`, `SettledSeedsAreFinal`, `AcceptedIntentNeverChanges` | `SettledLeavesNothingUnresolved`, `FruitCarriesEveryIntent`, `SettledIsFinal`, `AcceptedIntentIsPermanent` | `SeedLedgerProofs` |
| `IntentIsNeverStranded`, `GrowthIsAlwaysAccountable`, `PromiseIsKept` | `NoIntentIsStranded`, `GrowthIsAccountable`, `PromiseKept` | `SeedGrowthProofs` |
| `LedgerIsImplemented` | (`Ledger!Spec`, refinement) | `SeedGrowthProofs` |
| `RunsNeverOverlap`, `QueuedFiresAreGrown` | `OneRunAtATime`, `QueuedFireIsGrown` | `SchedulerProofs` |
| `ApprovalsServeOnce`, `ApprovalsAreOfTheCall`, `AuthorizationsAreCovered`, `CommandsOpenWhatTheyName` | `ApprovalIsSingleUse`, `OnlyTheApprovedIsConsumed`, `GrantAndConfirmation`, `CommandWidensOnlyWhatItNames` | `DelegationProofs` |
| `EventsAreAccountedFor`, `ShutdownLeavesNothing` | `EveryEventIsAccountedFor`, `ShutdownIsClean` | `EventBusProofs` |
| `FeedHasNoGapAlone`, `TelemetryIsTrueAlone`, `ShownIsTrueAlways` | `WhatIsShownIsTrue` | `EventBusProofs` |
| `EveryPartKeepsItsSpec` | (`Spec`, `Feed!Spec` and `Outside!Spec`, of `MCSpec`) | `EventBusProofs` |
| `IngressStaysBounded` | `IngressIsBounded` | `ReceptionProofs` |
| `ObserversSeeTheirOwn`, `SeenByItsOwnerHolds` | `SeenByItsOwner` | `ReceptionProofs` |
| `GraftsAreGovernedAlone`, `GraftsAreGovernedHolds` | `GraftsAreGoverned` | `ReceptionProofs` |
| `ServiceIsOrderlyAlone`, `ServiceIsOrderlyHolds` | `ServiceIsOrderly` | `ReceptionProofs` |
| `ChangesArePublishedOnce`, `ChangesArePublishedOnceAlways` | `PublishedOnce` | `BranchesProofs` |
| `CheckoutsAreInOrderAlone`, `FetchesHoldAlways` | `FetchesHold` | `BranchesProofs` |
| `CheckoutIsRespectedAlone`, `CheckoutIsRespectedAlways` | `CheckoutIsRespected` | `BranchesProofs` |
| `RacesOpenOnce`, `RacesOpenOnceAlways` | `OpenedOnce` | `SproutsProofs` |
| `OpeningsArePermanent` | (an opening keeps its Phytomer and digest) | `SproutsProofs` |
| `TurnsAreHonestAlone`, `TurnsAreHonestAlways` | `TurnsAreHonest` | `SproutsProofs` |
| `AnswersAreWholeAlone`, `AnswersAreWholeAlways` | `AnswersAreWhole` | `SproutsProofs` |
| `ConstraintsYieldAlone`, `ConstraintsYieldAlways` | `ConstraintsYieldInOrder` | `SproutsProofs` |
| `SilencesAreReportedAlone`, `SilenceIsReportedOnceAlways` | `SilenceIsReportedOnce` | `SproutsProofs` |
| `ContextIsSoundAlone`, `ContextIsSoundAlways` | `ContextIsSound` | `SproutsProofs` |

Each module also proves the types of its component (`TypeCorrectness`), and the
inductive invariant itself where it says more than the properties.

**SeedLedgerProofs.** The invariant is a predicate of one Phytomer's row and
continuations, `Sound`, for all Phytomers, next to the types. The invariants say
of the row of a settled Seed that nothing is unresolved, of Fruit that all was
delivered, of failed intent that the row reports it. None of them is inductive
alone: completing needs what held at the fence, a status that is `settling` with
nothing unresolved, and the error of a row has to be related to the failed
continuations in every status. The two action properties follow from the types
and one step per action.

**SeedGrowthProofs.** The invariant is the types, the ledger's invariant, and
three predicates of one Phytomer. `Joined`: growth, row and process go together,
so that a goroutine at a given step finds the row in the status its transaction
expects, and a process that is down grows nothing. `Tracked`: the list a
goroutine claimed is what is delivering, and everything delivering is older than
everything pending; without it a claim could replace a list that still holds
intent, and delivery could leave its order. `Told`: what a caller or the ledger
was told is true, which needs the list. From the invariant every step of the
processes is one transaction of `SeedLedger` or leaves its rows alone, which
carries the ledger's theorems over (`LedgerIsImplemented`). The same steps are
one step of `SeedPromise` or none under the mapping `Standing`/`Fate`
(`PromiseIsKept`): delivery takes the oldest, because a claim takes all that was
pending and what is pending since is younger; withering covers a failure and a
restart.

**SchedulerProofs.** `OneRunAtATime` says that the latch of a schedule is held
exactly while one goroutine grows it, and that a queue slot is used only then.
It is inductive with the types, `Scheduled` (a fire time belongs to a schedule
in force) and `AttemptsLeft` (who backs off has an attempt left). From the
invariant follow `QueuedFireIsGrown` and that reloads are wholesale.

**DelegationProofs.** The properties are about authorizations given in the past.
They need what is on the way: a request that waits for a confirmation is covered
by the grants it loaded (`Waiting`), and a confirmation that can be consumed was
approved by the Botanist's first word (`Words`). Then every authorization given
is `Backed` by a confirmation that is consumed or lost, and each by another
(`OneUse`), so that none can serve again. `ChangeNames` is the lemma about what
a command makes of a grant.

**EventBusProofs, bus.** `Closing` relates the bus and the channels to the stage of
the shutdown, `AtWork` what a publisher holds to the event it is publishing and,
while it offers, to sinks that are open: it carries `NoSendAfterClose`, since
Shutdown waits for the lock that publishers share. `Placed` says of every event
and sink that the event is in one place: on its way, in the channel, taken,
consumed, dropped, or too late. `SinksKeepOrder` is inductive given `AtWork`.
`Called` says of every handler that it has seen an event or is still to be
called, once; it needs that the subscriptions are distinct, which removal
keeps (`RemoveAtDistinct`).

**EventBusProofs, connection, exporters, monitor.** While the socket of a connection
is open its handler is on every type from the first event it owes (`Listening`), so
that such an event is sent, queued, in a publisher's call or to be replayed (`Owed`);
the look back over the history finds those published before the handler was there. From an
event that is still in the Resin log or an archive on, all later ones are
(`Onwards`): what retention takes is the oldest. That needs what is known of the
archive in hand (`InHand`), for a log is truncated only when the last archive has it.
A post is bounded in arrivals by its attempts together with what is still under way
of it (`Load`, `Attempted`), a count of a set of messages. The announcements made
and those about to be made (`Alarms`, `Relief`) add up to the faults and the returns
of the history of checks (`Counted`), in the order of their exchanges under the lock.
`EveryPartKeepsItsSpec` carries all of it over to the composition.

**ReceptionProofs, ingress.** A request's place on its way says which slots it holds, in
the order in which it took them (`Shape`, over the five ladders there are), so
that whatever is refused, breaks or panics, the deferred calls give back what it
took. One lemma, `Moves`, relates a channel's length to its holders for every
step. The pace over every stretch of mints is not inductive: `Paced` bounds the
mints since any past one together with what is left in the bucket.

**ReceptionProofs, observers, grafts, daemon.** Whoever passed the door owns the
row of the Phytomer, or there is no row and there are runs, so that no Seed can be
opened with its name any more (`Entitled`): that is why what a view asks again is
still the observer's own. Of grafts, every commit there is was governed and repeats
no patch of its past (`Lineage`); a commit carries its past (`past`), so that no
induction over ancestors is needed. What is left to say is where a handler's
worktree stands at each step (`Grafted`). Of a Stem, whoever listens, or is about to
unlink what is at the path, holds the lease, and one does (`Leased`); and while it
shuts down, what its place says to be closed is closed and idle (`Drained`).

**BranchesProofs, publication.** No part of `PublishedOnce` is inductive: a request that
was lost may land after its call has failed and another has begun. The invariant
is about every chain that is anywhere, on the forge now or before, under a request,
behind a call or at HEAD (`Chains`): each holds a change once, because a call
builds on a chain without its change (`Standing`) and a workspace whose HEAD has
the change no longer has it among its changed files. While a call of a first try
may still say that nothing was accepted (`Before`), its change is in no chain and
none of its requests can append it (`Fresh`). One lemma (`MovedKeeps`) covers the
eleven actions that ask the forge or nobody.

**BranchesProofs, checkouts.** The locks that a call holds are those of its place
(`Locking`). While one holds the lock of the refs, others move them forward or not
at all, so that where its work starts is no older than what it was asked for
(`Current`), unless the call has given that up: a start that could not fetch, or a run
without a branch whose reset failed, never a run that has one. And what it imported is under its own marker until the refs point to
it, which keeps a collection away (`Marked`). Other git programs may do anything
that takes no lock.

**BranchesProofs, the operator's checkout.** As long as no two runs overlapped there is
one run to look at (`OneAtATime`), and what one step of it does to the checkout is
said once for all steps (`StepKeeps`, `MoveKeeps`, `QuietKeeps`). `Midway` says where
the checkout is for each place of the run: off the protected branch until it is
cleared, with its Fruit on a branch that is there; and of the entry that is about to
be dropped, every edit is in the tree already, or the checkout has a file of its name.
Nothing the operator made is a file of the checkout (`Clean`), and of what is in a stash
only the run's own commit has one (`Entry`): so an edit that is gone is a new file that
the commit of a run which ended has, too. The branch of a Fruit belongs to a run that has ended
(`FruitsSettled`), so that the next run cannot reclaim it. That every other edit is in the
tree or in the stash is kept by pushing, laying and dropping
an entry (`StashKeeps`, `LayKeeps`, `DropKeeps`). What is given back (`Tidy`) needs that
no run says it could not undo a step, and that the process did not die; then the stash
has one entry while the run has stashed and none otherwise, and a run that is away came
from the protected branch and left no work on its own.

**SproutsProofs, openings.** What a request may rely on is said of each step of its
handler (`Standing`): its Phytomer is in the store and was never launched; before
the insert nobody opened it; after an insert that may or may not have committed, a
row with it can only be the request's own; before the launch the row is its own;
before the discard there is no such row and the answer kept is the row's. This
needs that two requests never hold one Phytomer (`Apart`) and that a row keeps its
opening (`OpeningsStay`). The leftovers are counted: `OnePerFault` says that a step
leaves one more only if it is a crash or a failure of the storage, and that the set
stays finite, whatever the set of Phytomer ids is.

**SproutsProofs, runs.** Turns: what was answered of a reply's calls and what is
left of them make up the reply (`Answering`), a write the container may perform is
credited before it begins (`Crediting`), and a pipe shut by a clock or an observer
carries the mark that names it, while a run ends with what does not decode only if the
pipe was shut within a line (`Naming`); hence a run that a clock cut off is filed so
unless the cut fell into a line. Answers: what is collected of a call is
what has come of it (`Streamed`), and the calls that have begun are the first ones,
so that what is taken in the order of their indices is 1, 2, ... (`InOrder`, for
which `CountsAgree` and `RisingIsIdentity` relate a set of numbers to its sorted
sequence); an error is what somebody answered once somebody has (`Erring`). The
choice of a model: what a run remembers of the registry is true of the registry of
the moment, though it is read anew by every search and may have changed, and a run
gives up the ceiling or the tools only when its memory says that nothing better was
to be had (`Searching`). Silence: a watcher never hears of the end of its own run,
so that its own record is never dropped, and a silence that was reported leaves it
disarmed (`WatchInv`).

**SproutsProofs, task context.** That quoted lines fit the text is not inductive: it is
said when a file is quoted, of scans long over. The index records a file last and no
content comes back, so that the record is no newer than the symbols and these no newer
than the file (`Dated`, and `Newer` of a write that is under way, which a scan may break
off anywhere); when the record equals the content all three are the same. What was taken
is a candidate known and no longer pending, and nothing that is pending or was cut goes
before it (`Taken`); that is why an item is never taken twice and the count of
candidates comes out, tests that join late included. Both assumptions about the code
are needed: of overlapping runs and of contents that come back see section 4.

**Only model-checked.** Liveness (`WhatBeginsEnds`, `NothingIsHeldUp`, the fair
parts of `SchedulesAreKept`) rests on fairness and ENABLED, which the provers do
not do. What a recursive definition computes for every input needs an induction
theorem with an operator as parameter, which they do not instantiate either; the
search of `Cron` stays with TLC. The modules without a proof are model-checked only:
`Sequence`, `StepRun`, `RunWorkspaces`,
`DelegatedWorkspaces`, `SessionManager`, `HistoryRows`, `Registry`, `Memory`. Their properties relate trees, branches, files and buffers
through many steps of many writers, and each needs an invariant as long as those
above.

## 6. Not modelled

Whole components: Heartwood (AES-GCM of columns, a pure function), triggers (a
table without state), front ends (command line, MCP shim, stoma, UI). In the
modelled ones:

* Seeds: `RecordSeedRun` and `RecordSettlement` (no caller outside tests); the
  read-modify-write of the ledger by two processes beyond its transactions.
* Runs: the fallback to the host (`EnvAllowHostWorkspace`), the detail of the
  verdict quarantine, a run reported complete though it was not measured while
  its worktree is removed, phloem steps that overlap, the denied-capability
  boundary of a turn, cadence arithmetic and a tick in flight after its
  watcher's stop in Dormancy.
* Git: an operator who gives a new file the name of one that is in the stash at
  that moment, origin/HEAD and several branches in Checkouts, liveness of its locks,
  platforms without process locks, terrarium worktrees a crashed central Stem
  leaves in Graft, the read-modify-write of the owned refs file.
* History: the tables of messages and telemetry, row encryption.
* Delegated workspaces: more than two Pollens, a crash with two.
* Registry: checkout modes, patience, `--dir` registries. Rhizome: collisions of
  proposed titles, remote backends, the genome, the share of the budget.
* Providers: temperature, caching, usage. Exporters: Kafka, Prometheus,
  redaction. Mesh: the inbox of traits (`Ingest` has no caller).
* Daemon: the gateway and detached runs at shutdown. `scheduler.New` and
  `healthMonitor.Start` have no caller outside tests; both are modelled as they
  would run. Ingress: a temporary file a crash leaves, HTTP/2. Cron: leap years.
  Delegation: two spellings of one Pollen in a hand-written file. Wording,
  logging and telemetry of every component.

## 7. Plan

Done: all components above, and the proofs of the ledger, the growth with both
refinements, the openings, the scheduler, delegation, the EventBus, the ingress,
the live feed, the exporters and the health monitor, observers, grafts, the daemon,
publication, checkouts, runs on the operator's checkout, turns, answers, the choice of a model, the task context and the
watch for silence.

Left for whoever goes on, in this order: the part of `RunWorkIsKept` about reachable
Fruit, the stash of `StepsAreTrue`; then that
retirement by age never touches continuations, composed with the ledger.
