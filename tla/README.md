# A TLA+ model of kagen

kagen runs a coding agent in a pod of a local cluster. The host repository and
the agent's workspace never share a working tree: they exchange commits through
a Forgejo server inside the cluster, and only `kagen pull` brings commits back.
A SQLite store on the host remembers the sessions, so that `kagen attach` finds
them again.

This directory holds a TLA+ model of that program, the TLC configurations that
check it on small instances, and proofs of its main safety properties for all
values of the constants. It is written from the Go code under `internal/`; the
documents under `docs/` are used only where a property states what they say.

## 1. The parts of the system

| part | code | state | operations | talks to |
|---|---|---|---|---|
| workflow: start, attach | `workflow/session.go` | none of its own; the operation in progress | the steps of `startTraceSteps` and `attachTraceSteps`, failure capture | store, runtime, cluster, Forgejo, agent, diagnostics |
| workflow: pull | `workflow/pull.go` | none | discover, protect, fetch, validate, merge | git, Forgejo |
| workflow: open | `workflow/open.go`, `cmd/open.go` | the review session, one goroutine | open the transport, check for commits, open the browser, wait | Forgejo, port forward |
| session store | `session/*.go` | two SQLite tables, the schema version, the locks of the file | open and migrate, create, update status, record attach, queries | the file system |
| git checkout | `git/repo.go` | branch, working tree, `refs/remotes/kagen` | commit, push, fetch, fast-forward | Forgejo over a transport |
| Forgejo | `forgejo/*.go` | the canonical and the review branch in the cluster; the transport | import, review session, fetch | port forward, git, Kubernetes |
| cluster: pod | `cluster/kube.go`, `workload/builder.go` | the one pod `agent` of a repository, its workspace | ensure resources, replace the pod | Kubernetes |
| cluster: proxy | `cluster/proxy.go`, `proxy/*.go` | deployment, service, config map, network policy | ensure, await, check | Kubernetes |
| cluster: port forward | `cluster/portforward.go` | a child process, four goroutines, two channels | start, stop, wait | kubectl |
| agent | `agent/*.go` | state directories in the pod | launch, prepare, attach | kubeexec |
| preflight | `preflight/preflight.go` | none | checks of configuration and runtime | kubeexec |
| runtime | `runtime/colima.go` | the virtual machine | status, start, stop | colima |
| diagnostics | `diagnostics/*.go` | the trace in memory; `latest-operation.json` and the failure artefacts on disk | record steps, complete, save, collect | the file system |
| doctor, list | `workflow/doctor.go`, `cmd/*.go` | none | open the store, read a session and then its trace, print | store, diagnostics, cluster |
| config, errors, ui | `config/*.go`, ... | none | parse and print | |

### What is hard about it

* **Several processes, no lock.** Two `kagen start`, an attach and a pull may run
  on one repository at once. They share the store, the pod, the Forgejo branches
  and the checkout, and each reads before it writes.
* **A sequence of separate git commands** is one pull; a user, another pull or a
  new start may step between any two of them.
* **No rollback.** A start that fails or dies leaves what it did so far: a row, a
  pod, one pushed branch of two.
* **Failure on the failure path.** Marking a session failed may fail too; the
  artefacts are collected while other processes go on.
* **Objects that are ensured one by one.** Create, then Get and Update with a version;
  two starts with different agents write the same objects, and one may stop between
  two of them.
* **A child process with pipes** whose exit, output and cancellation race with the
  goroutines that watch it.
* **Text as an order.** Times are kept as text and compared as text.
* **First commands at once.** Every command that opens the store may be the one that
  has to create its tables; it reads the schema version outside of the transaction
  that migrates, and a transaction that reads before it writes is refused by SQLite
  without a wait.
* **Files without a lock.** The last trace of a session and its failure artefacts are
  truncated and rewritten in place, by whichever commands work on that session, while
  a doctor reads them.

### What makes each part correct

* Pull and the review boundary: no agent commit on the host that was not on the
  review branch; no loss of the user's work; a pull that succeeds has delivered
  what its fetch saw.
* Start, attach and the store: the recorded status tells the truth, through every
  interleaving and every death; attach enters prepared sessions only; the life of
  a session goes one way.
* The port forward and its owners: nothing outlives it, nobody waits for ever on
  something that is gone, a session that is returned is usable.
* The cluster objects: nobody is let into an agent that has no proxy and no policy;
  replacing the one pod never ends with no pod; what several starts have written in
  turn belongs together.
* The store under all commands: whoever uses it finds the whole schema, no two
  commands wait for each other, and no recorded use is lost to an earlier one.
* The diagnostics: the trace of an operation says that it failed if it did; a failure
  on a session reaches the disk, whole; what doctor prints belongs together.

## 2. The modules

| module | role |
|---|---|
| `ReviewGate` | abstract: how commits may cross from the agent to the host |
| `ReviewBoundary` | host checkout, Forgejo branches, workspace clone; start's import, the agent, pull |
| `MCReviewBoundary` | its instance for TLC |
| `ReviewBoundary_proofs` | its theorems |
| `SessionLifecycle` | abstract: the life of a session as the store shows it, with theorems about it |
| `Timestamps` | the texts that stand for instants and how SQLite orders them |
| `SessionWorkflow` | start and attach over the store, the pod and the artefacts |
| `MCSessionWorkflow` | its instance for TLC |
| `SessionWorkflow_proofs` | its theorems |
| `SessionDatabase` | the file of the store: tables, schema version, SQLite's locks |
| `OperationTrace` | the trace of an operation, `latest-operation.json`, the failure artefacts |
| `CommandRecords` | start, attach and doctor, each from its first line to its last, over both |
| `CommandRecords_proofs` | their theorems |
| `PodReplacement` | abstract: how starts take and put the one pod, with a theorem about it |
| `Sandbox` | the Kubernetes objects of a repository and the commands that make them |
| `Sandbox_proofs` | its theorems |
| `ForwardLifecycle` | abstract: the life of a forward as its owner sees it, with a theorem about it |
| `PortForward` | one kubectl child, its caller and its goroutines |
| `ReviewTransport` | the commands that own a forward: open, fetch, import |
| `ReviewTransport_proofs` | theorems about both |

`SessionWorkflow` extends `Timestamps` and is shown to implement
`SessionLifecycle`; `ReviewBoundary` is shown to implement `ReviewGate`;
`ReviewTransport` extends `PortForward`, composes it with its owners, and is shown to
implement `ForwardLifecycle`; `Sandbox` is shown to implement `PodReplacement`;
`CommandRecords` extends `OperationTrace`, which extends `SessionDatabase`, and is
shown to implement `SessionLifecycle` too, one level of detail further down. What
links the families is the step they abstract from each other: the step
`forgejo_import` of `SessionWorkflow` is the import of `ReviewTransport` and the
two pushes of `ReviewBoundary`; its steps `ensure_namespace`, `ensure_proxy`,
`ensure_resources`, the first half of `forgejo_import` and `validate_proxy_policy`
are the API calls of `Sandbox`. `CommandRecords` takes the steps that only talk to the
cluster together: its `forgejo_import` is those of start up to and including the
import, its `provision` the ones after it, and `SessionWorkflow` has their order.

### ReviewBoundary

A ref is the set of commits reachable from it. Commits have one parent and a
fresh id, so equality of refs is equality of sets and a fast-forward is
inclusion; an absent branch is the empty set. `head`, `dirty`, `trackBase` and
`trackReview` are the checkout; `base` and `review` the branches in Forgejo;
`work` the clone in the pod.

One git command is one action: `PullProtect` is `git add -A` and the WIP commit,
`PullFetch` the fetch whose refspec has no `+` (each ref is refused for itself),
`PullMerge` is `git merge --ff-only`. The push of the import updates two branches
on the server one after the other and is retried (`StartPushBase`,
`StartPushReview`, `StartPushRetry`). The user edits, commits and resets at any
time, the agent commits and pushes to either branch, and every command may fail
or die at each of its steps.

### SessionWorkflow

A session is named by the start that persists it, an agent session by the process
that creates it. `session` and `nested` are the two tables; `pod` is the session
whose start created the one pod of the repository, and the containers it has are
those of that session's agent; `artefact` is the status in the failure artefacts.
`proc[p]` is a process: the step it is at, its agent, the session it works on, the
time `attachedAt` that it read, the outcome it will return. The steps have the
names of `startTraceSteps` and `attachTraceSteps`; each succeeds, or goes to the
failure path, or the process dies. Steps that change nothing this module keeps are
one action, `PlainStep`.

`Timestamps` models `formatTimestamp` by what it does: seconds, then the fraction
without its trailing zeros, then `Z`, compared symbol by symbol in ASCII order. In
the program a second has 10^9 ticks; `Base` and `Digits` make it as short as a
run needs.

### SessionDatabase, OperationTrace, CommandRecords

`SessionDatabase` is one SQLite file with a rollback journal. `lock[p]` is what the
connection of process `p` holds: nothing, SHARED (a transaction that has only read) or
RESERVED (one that has written). One process at a time is a writer, and another one
waits for it until `busy_timeout` (`Reserves`, `TimesOut`). A commit waits until
nobody else has SHARED, and what a transaction wrote takes effect there, so the death
of its process rolls it back (`Kill`). `CREATE TABLE IF NOT EXISTS` writes if it was
compiled while the tables were not there, else it only reads; then the transaction of
a migration has SHARED when it comes to `PRAGMA user_version = 1`, and if another
process is writing, SQLite refuses it at once, since that writer is waiting for this
reader (`UserVersionBusy`, outcome `"locked"`).

`OperationTrace` describes a file by the process whose trace it holds, because a trace
does not change once it is complete. `os.WriteFile` is two steps, truncate and write
(`SaveTruncates`, `SaveWrites`). The file system may refuse the first, which leaves the
file as it was, or the second, which leaves it `Empty` or cut off (`Partial`); the error
is only printed and the command goes on (`SaveFails`, `GoesOnUnsaved`). Two commands that
write one file at once may leave it `Mixed`. The history variable `writers` has the
operations that have had the file open since it was last truncated: it is what explains a
file that cannot be read. The three artefacts `failure`, `trace` and `summary` are
written one by one into a directory that belongs to a session and an operation, or to
`pending/<repo-id>/start`; the first that is refused is the last that is tried
(`GivesUpCollecting`).

In `CommandRecords` the step of a process is the statement, the file write or the
step of the trace it is at. The names are those of the code where it has one.
`StepFails` is the end of a `RunStep` whose function returned an error; an error
between two steps (`NewForgejoService`, a store that cannot be opened) leaves no failed
step. `Fails` is `captureWorkflowFailure` from its first line: mark the session,
complete the trace, save it, read the summary, collect; a summary that cannot be read
again is left out (`GetSummary`). An early failure of a start is returned as it is, but
for `preflight_configuration`, which is collected under `pending`. A doctor keeps the
status it read (`seen`), the trace it prints (`shown`) and, as history, the operations
that were complete when it read the status (`past`).
`now` counts the readings of the wall clock that the store keeps.

### PortForward and ReviewTransport

The caller of `Start` and `Stop`, the goroutine `run`, the two scanners and
kubectl are a state machine each. Their shared state is what they share in Go:
`readyCh` (one slot), `readyOnce`, `doneCh`, `localPort`, `stoppedByUs`. `select`
is a choice among the cases that are ready. `cmd.Wait` closes the read ends of the
pipes, so a scanner that is late loses what it has not read and records an error
(`ScanEnds`); `run` then sees a child without a port.

`ReviewTransport` adds the three uses of a forward: the import with its attempts,
the fetch, and `kagen open` with the goroutine that waits for a signal. A Ctrl+C
before that goroutine has installed its handler kills kagen. To `ForwardLifecycle` a
forward is alive while its child or one of its goroutines is there. What happens inside
one request is one step: the polls of `waitForAPI`, the retries of `pushRepo` and of
`ensureAdminUser`, each with a fixed number of attempts.

### Sandbox

An API call is one action. Objects that all commands write alike (`Plain`) are
there or not. Of the others, `writer` is the command whose write they hold: the
config map with the allowlist, the deployment with its checksum, the pod with the
container of an agent. The writer doubles as the version: `EnsureGet` remembers it
and `EnsureUpdate` needs it unchanged. A call that the API refuses (an old version,
`AlreadyExists` in `replacePod`), a wait whose deadline passes and the death of a
command are all `Fails`: the command stops, and what it wrote stays. The allowlist is
a function of the agent, since all commands of a repository read one configuration.

`proxy` is the ready replica, with the checksum it was rolled out for and the
allowlist that it read when it started. What Kubernetes does is external: a deleted
pod goes at some time (`PodGone`), a replica of the current revision replaces the
previous one (`ProxyRolls`), a replica may be lost (`ProxyLost`).

Two history variables serve `Coherent` only. `last` is the start that wrote the
allowlist last. `muddled` says that two running starts have overlapped between their
writes, or that a replica came up between the writes of allowlist and checksum: then
the objects of two agents may be mixed, or a replica may keep an allowlist that its
checksum does not show, and no document promises otherwise. A start that stopped
between its writes is not excepted: the next one writes all of them anew.

`PodReplacement` sees of all this the pod only: `pod` is the start that wrote it,
unless it is being deleted; `between` are the starts that have deleted it and not
created theirs; `served` those that have got theirs (`Replacement`).

## 3. The runs

Runs that pass:

| run | instance | what it shows |
|---|---|---|
| `review_boundary` | two pulls, 2 commits by anyone, 1 reset | the promises of the boundary when the git commands of two pulls interleave with all else, and that it implements `ReviewGate` |
| `sessions` | two starts, one attach, two agents | `FailureIsRecorded`, `ArtefactTellsFailure`, `AttachedWasPrepared`, `DefaultIsOfTheLastSecond`, refinement of `SessionLifecycle` |
| `commands` | one start, one attach, fair | `LastUseCounts`, `StartingIsOwned`, refinement of `SessionLifecycle`; `TraceTellsFailure`, `FailureReachesDisk`; and `CommandsEnd`, `StartingSettles`; 120,000 states |
| `doctor` | one start, one attach, one doctor | the store: `OpenedFindsSchema`, `RefusedOnlyLate`, `NoCircularWait`; what a doctor reads: `LatestIsWhole`, `DoctorTellsTruth`; 4.6 million states |
| `review_transport` | three uses, 3 attempts, 2 lines, fair | `NothingLeftBehind`, `SessionHasPort`, `AnswerAwaits`, `OwnerKnows`, `CommandLeavesNothing`, refinement of `ForwardLifecycle`; and `ReviewEnds`, `StartReturnsAtLast` |
| `sandbox` | two starts, one attach, two agents, fair | `ConfinedInside`, `PodSurvives`, `Coherent`, refinement of `PodReplacement`; and `StartEnds` |

**Bounds.** `MaxCommit = 2` lets the agent and the user each have a commit, or the
WIP commit of a pull come between: divergence and ambiguity need no more. The
disagreements below are searched with up to 3. `MaxReset = 1` gives the one case in
which the host branch shrinks. Two pulls are enough for a race between any two git
commands, since a third adds no new pair. Two starts are needed to replace a
pod, and an attach to meet both; two agents, for a container that the pod does not
have. In `Sandbox` two starts with different agents give every crossing of two
writers, and the attach a reader. `MaxLines = 2` gives a line that counts and one
that is ignored. `MaxAttempts = 3` gives a first, a middle and a last attempt (5 in
the program). `Base = 2, Digits = 1` is the shortest second with a fraction. In `commands`
a start and an attach give every kind of pair that writes the store and the last trace;
the liveness properties are checked there. `doctor` adds a reader in between, and a
third first command that migrates. Two starts or two attaches with all their locks are
beyond 15 million states. Two writers of one operation's artefacts need two attaches,
and there the theorem stands in. The safety properties are also proved without any of
these bounds, see below.

**Symmetry** is used in `review_boundary` (pulls) and `sessions` (starts, attaches,
agents), which check safety only and whose modules never compare these values. The
**view** of `review_boundary` forgets what no later step or property reads: how an
ended pull ended, and the clean base and the WIP commit of one that is past the
validation.

**Deadlock** is not checked where a command may really end and nothing is left to
do: all runs but `review_boundary`.

**Fairness.** `CommandRecords!FairSpec` is weak fairness of `Progress(p)`, what the
process `p` does while it can go on by itself. Three things are left out of it. The steps
in `Unbounded` await what nothing in the code bounds: colima, Forgejo
(`forgejo/reconcile.go:200`), `kubectl exec` (`kubeexec/exec.go:52`, which has no
deadline), and the user inside the agent; a command may stay there for ever, and
`CommandsEnd` and `StartingSettles` say so. A command that waits for the lock of another
writer is not part of it either: it goes on once the lock is free, and that the wait may
time out (`TimesOut`) is an action that can happen but that fairness never demands. So
no timeout of the store is what ends a wait; the writer that is waited for comes to its
commit or dies. Nor is a death ever demanded. What remains is that a process which can run runs, and
that SQLite and the file system answer, if only with an error.
`ReviewTransport!FairSpec` has weak fairness for goroutines that can
run, and for the exit of a child that was killed. A child that was not killed may
hang for ever, silent; so may git and HTTP over a transport that is up, except
`waitForAPI` and `createRepo`, whose client has a timeout.
`Sandbox!FairSpec` has weak fairness of each command outside of its `Unbounded` steps,
which are those that await Forgejo, `kubectl exec` and the user: an API call is answered or
fails, and a wait ends with its deadline at the latest. Only the wait for the deleted pod
may not end in an early error, so that `StartEnds` shows what its deadline is for.
Nothing is assumed of Kubernetes.

Runs that show a disagreement between the code and what the repository says of it:

| run | what the repository says | what the code does |
|---|---|---|
| `find_accumulates` | README.md:8, agent commits accumulate in the forge | every start pushes with force over both branches, so work not yet pulled is on no branch any more |
| `find_protected` | docs/USAGE.md:186-187, pull protects WIP, then fast-forwards or merges | the WIP commit makes the branches diverge, and only a fast-forward is tried |
| `find_ambiguity` | workflow/pull.go:123-124, the canonical branch advanced independently | a second pull of a session is refused although the canonical branch never moved |
| `find_leaving` | README.md:44, exiting the agent only detaches | an agent that exits with an error takes its ready session with it |
| `find_most_recent` | session/queries.go:88, the most recently used ready session | the order of the texts is not the order of the instants |
| `find_own_pod` | docs/INTERNALS-BLUEPRINT.md:167, a session is the persisted workspace identity | all sessions of a repository share one pod, the one of the last start |

Three more disagreements need no interleaving to be seen, and no run:

* `docs/ARCHITECTURE.md:80` says that starts which fail before there is a session write
  artefacts under `pending/<repo-id>/start`. A failed `preflight_configuration` does; a
  failed `ensure_runtime` is returned as it is (`workflow/session.go:134-136`).
* `docs/INTERNALS-BLUEPRINT.md:270-280` has one session host agent sessions of codex and
  of claude. The pod of a session has the container of the agent that `kagen start` was
  given (`workload/builder.go:99-101`), and the preflight of an attach execs into that of
  its own agent (`preflight/preflight.go:213`), so an attach with another one, in
  the pod of its own session, always fails in `preflight_runtime`.
* `docs/ARCHITECTURE.md:79` wants doctor to stay read-only. It opens the store like
  everyone else, and so creates the schema on a machine that has none.

## 4. What is proved

TLAPS checks the following for every number of processes, commits, resets, lines
and attempts. The assumptions are those the modules name: bounds are natural
numbers; `Starts` is finite, disjoint from `Attaches`, and `None` is neither; a
second has a fraction of at least one digit, to a base of at least two; the processes
of `CommandRecords` are finitely many and each of one kind, and the contents `Empty`,
`Partial` and `Mixed` are not processes.

* **ReviewBoundary_proofs.** `TypeCorrect`; `OnlyReviewedWorkHolds`;
  `UserWorkIsKept`; `FetchedWorkIsKept`; `PullDeliversHolds`;
  `BoundaryImplementsGate`. `OnlyReviewedWork` is not inductive: a merge takes
  `trackReview`, a retry pushes `pushing`, and a start pushes `head` into `review`,
  from where it comes back. The strengthening says of every place from which
  commits get to the host that the agent commits in it were reviewed. `PullDelivers`
  rests on the tracking ref of the review branch containing what every pull between
  fetch and merge has seen, which the refspec without `+` guarantees.
* **SessionWorkflow_proofs.** `TypeCorrect`; `Invariance`;
  `FailureIsRecordedHolds`; `ArtefactTellsFailureHolds`;
  `AttachedWasPreparedHolds`; `WorkflowImplementsLifecycle`; `WorkflowKeepsHistory`;
  `DefaultIsOfTheLastSecondHolds`. The strengthening
  (`SessionInv`) relates the step of each process to the row of the session it works
  on: a start before `mark_ready` has a session that is starting, one on the failure
  path has a session that only it can still change, an attach past its resolution
  has a session that was ready once. Each of these speaks of one process, and the
  proof shows that no other process disturbs it. The last theorem is about text: a
  timestamp begins with its second, whatever its fraction looks like
  (`TextBeginsWithSecond`), so texts of different seconds have the order of the
  instants (`TextOrdersSeconds`), for every base and every number of digits.
* **CommandRecords_proofs.** `TypeCorrect`; `OpenedFindsSchemaHolds`;
  `RefusedOnlyLateHolds`; `RecordsImplementLifecycle`; `TraceTellsFailureHolds`;
  `LatestIsWholeHolds`; `FailureReachesDiskHolds`; `DoctorTellsTruthHolds`;
  `LastUseCountsHolds`; `NoCircularWaitHolds`; `StartingIsOwnedHolds`;
  `CommandsAdvanceHolds`; `RecordsKeepHistory`. They are built in layers, each of which
  uses the ones below.
  `Core` is `TypeOK`, `SchemaInv` (which lock a process has at each step; at most one
  writer; who is past the migration has seen the version) and `SessionInv` (what the
  row of its session is while a start, an attach is at its step). `TracesInv` says
  what the trace of an operation is at each step; only its own process writes it.
  `LatestInv` says whose contents a file can have and what has become of the commands
  that have had it open: the one that truncated it last is still writing, or has left it
  as it says. `StoriesInv` goes with a start to its end: what the row of its session and
  its trace say together at each step, which is what a doctor may see of it.
  `DiskInv` says which artefacts are written already and whose they are, `DoctorsInv`
  what a doctor has read and why it cannot have become untrue: a trace that was complete
  when the session was read does not change, and its session is settled by then.
  `UsesInv` says how the times of use lie to the clock. The
  lemma `Frame` (a step of one process leaves the record and the lock of all others as
  they were) carries each of these past the steps of the other processes.
  `NoCircularWait` is about every set of commands, not only pairs: whoever waits for a
  lock waits for a writer or, at its commit, for readers, and of these one does not wait.
  `CommandsAdvance` says that a step is followed by one that is later in the order of
  the command, and that no step moves another command.
* **ReviewTransport_proofs.** `TypeCorrect`; `NothingIsLeftBehind`;
  `SessionHasItsPort`; `CommandLeavesNothingHolds`; `AnswerAwaitsHolds`;
  `OwnerKnowsHolds`; `ForwardImplementsLifecycle`; `NothingStartsOverHolds`.
  `ForwardInv` says that `run` waits for the child and both scanners before it closes `doneCh`, that a caller
  returns only without a child or behind `doneCh`, that a port is stored before it
  is sent, and that `run` records an error unless it was stopped or has a port.
  `TypeOK` needs `AttemptsLeft`: the bound on attempts rests on the test before a
  retry. `NothingStartsOver` has a number for what caller, goroutines, child, output
  and owner have still to do; each step lowers it, until an attempt begins anew.
* **Sandbox_proofs.** `TypeCorrect`; `ConfinedInsideHolds`; `PodSurvivesHolds`;
  `CoherentHolds`; `SandboxImplementsReplacement`; `SandboxKeepsPod`;
  `CommandsAdvanceHolds`. `ConfinedInside` follows from `EnsuredInv`, which says of every
  step what has been ensured before it, and that no action takes it away.
  `PodSurvives` is inductive on top of `TypeOK`, since every command between delete
  and create suspends it. `Coherent` needs `CleanInv`: while nothing is muddled, only
  the last writer can be running between its writes, the config is its own from the
  first write on, a pod that terminates is still its to replace, and a replica has
  read the allowlist that goes with its checksum. The refinement needs `AttachesSkip`,
  that no attach ever is at a step which creates something, since the abstract owners
  are the starts. `CommandsAdvance` counts the steps and calls that a command has left.
* **SessionLifecycle, ForwardLifecycle, PodReplacement.** What an abstract
  specification promises is proved of it once: `NestingHolds` and
  `HistoryGrowsHolds`, `NothingLeftHolds`, `PodIsServedHolds`. With the
  refinements, the first two and the last are stated again of the detailed
  specifications (`WorkflowKeepsHistory`, `RecordsKeepHistory`, `SandboxKeepsPod`).

**The safety half of liveness.** That a command ends needs fairness and `ENABLED`, which
are out of the provers' reach. What can be proved is what such an argument rests on: no
command goes back or starts over (`CommandsAdvance` in `CommandRecords` and in `Sandbox`,
`NothingStartsOver`), and whoever waits has somebody to wait for (`NoCircularWait`,
`AnswerAwaits`, `OwnerKnows`, `StartingIsOwned`). The three variants are action
formulas of the proof modules and are proved, but are not among the runs' properties.

**Only model-checked:** the five liveness properties (`CommandsEnd`, `StartingSettles`,
`ReviewEnds`, `StartReturnsAtLast`, `StartEnds`) themselves, and the values of
constant operators that the provers do not compute: `SecondAssumption`, that
`Base^Digits` is a positive number, is assumed by name, and TLC evaluates it. The order of
the texts *within* one second is not what it should be, as `find_most_recent` shows.

## 5. What is not modelled

* `deleteProxyResources`: every agent has required hosts (`proxy/catalog.go:11`), so
  no allowlist is empty and no start gets there.
* A node that evicts the pod, other tools at work in the namespace, its deletion.
* The attempts to get a Kubernetes client; the contents of manifests.
* The snapshots of the cluster among the failure artefacts (`cluster/diagnostics.go`) and
  in doctor's report: they are read and printed. `trace.txt`, another rendering of
  `trace.json`. Errors when the store is closed.
* SQLite's PENDING lock, which keeps new readers out while a commit waits, and the
  timeouts of reads and commits; paths of the store.
* Colima, beyond a step that may fail: it is another program, and what
  `runtime/colima.go` does with its answers is one switch.
* Which commits a restarted workspace begins with: no document promises any. Pods are
  created before Forgejo's import (`workflow/session.go:205`), so it may be older ones.
* Forgejo's own storage; other branches; merge commits; a forced push by the agent.
* `down`, `list`, `config`: they print, or stop what the user asked for.
* Formatting, wording, shell commands and manifests.

## 6. Plan

In this order; each with an instance, properties, mutants and then proofs.

1. The action `StartResources` of `SessionWorkflow`, and that of `ReviewBoundary`, as
   what the pod steps of `Sandbox` implement; a restarted pod in the same state.
2. `Reviewability`: whether `HasNewCommits` (`forgejo/service.go:135-153`) and pull
   agree on what there is to review.
3. That doctor leaves a store that has its schema as it was, as an action property.
4. Proofs: that with a single start `AttachEntersItsSession` does hold; that the same
   is true of `DefaultIsMostRecent` when all fractions have the same length; the modules
   above.
