# container-linux-update-operator in TLA+

container-linux-update-operator (CLUO) reboots the machines of a Kubernetes
cluster into the updates that `update_engine` has installed, one machine at a
time. One `update-operator` runs in the cluster; an `update-agent` runs on every
node. They never talk to each other: all they share is the labels, annotations
and `spec.unschedulable` of the Node objects, which each of them reads and
writes with separate API requests. Whether two machines can be out of service at
once, a node be rebooted in a loop, or an update never be applied, depends on
how those requests interleave. This project models that protocol and
the parts around it, checks them with TLC on small instances, and proves the
safety properties that hold with TLAPS for all values of the constants. What the
documents say and the programs do not keep is shown by runs that refute it.

## The system

| Component | Source | State | Operations | Modelled in |
|---|---|---|---|---|
| node object protocol | `pkg/constants`, `pkg/k8sutil/metadata.go`, `selector.go`, `retry.go` | labels, annotations, `spec.unschedulable` | `UpdateNodeRetry`, `Set*`, `Unschedulable`, `GetNodeRetry`, selectors | `NodeObject`, `NodeRequests` |
| operator reconciliation | `pkg/operator/operator.go` | none between passes; the node list during a function | the five functions of `process`, every 30 s | `UpdateOperator` |
| agent | `pkg/agent/agent.go` | its position, two locals | `process`, `updateStatusCallback`, the two waits | `UpdateAgent` |
| check pods, administrator | external | | set a check annotation; pause, cordon, uncordon | `RebootCluster` |
| reboot lock | what both programs achieve together | who holds a place | reserve, cancel, permit, return, verify, release | `RebootLock` |
| pod draining | `pkg/drain`, `pkg/k8sutil/pods.go`, `pkg/agent/agent.go` | pods for deletion, waits | cordon, list, look up owners, delete, wait | `PodDrain` |
| status pipeline | `pkg/updateengine`, `pkg/agent/agent.go` | two channels, the connection's reader | `New`, `ReceiveStatuses`, `GetStatus`, `watchUpdateStatus`, the callback | `StatusPipeline` |
| leader election | `pkg/operator/operator.go`, client-go | the lease record, each elector's observation of it | acquire, renew, lose | `LeaderElection` |
| agent manager | `pkg/operator/agent_manager.go` | DaemonSets, label `agent` | `runDaemonsetUpdate`, `legacyLabeler` | `AgentManager` |
| reboot window | `pkg/operator/operator.go`, vendored `timeutil` | | `ParsePeriodic`, `Previous`, the test in `markBeforeReboot` | `RebootWindow` |

How a reboot goes:

1. `update_engine` reports `UPDATED_NEED_REBOOT`; the agent's status callback
   writes `reboot-needed=true`.
2. The operator's `markBeforeReboot` counts the nodes that are rebooting. If
   there is room, and the time is inside the reboot window, it labels the node
   `before-reboot=true`. Check pods selected by that label set their
   annotations.
3. `checkBeforeReboot` sees all annotations, drops the label, and sets
   `reboot-ok=true`.
4. The agent, which waits for `reboot-ok`, writes `reboot-in-progress=true`,
   notes in `agent-made-unschedulable` whether the cordon is its own, cordons
   and drains the node, and has logind reboot the machine.
5. The agent starts again: it sets `reboot-needed` and `reboot-in-progress` to
   `false` and waits for `reboot-ok` to go away.
6. `markAfterReboot` labels the node `after-reboot=true`; when the after-reboot
   annotations are there, `checkAfterReboot` drops the label and `reboot-ok`.
7. The agent uncordons the node if it was the agent that cordoned it.

What is hard about it: every operator function works on a list that is old when
it writes; a pass may stop after any request; the agent may fail, be killed or
lose power between any two requests and starts over from whatever the
annotations say; check pods may answer late; administrators change the same
objects; requests conflict, fail, or are carried out although their answer was
lost; signals arrive before anybody reads them; the lease runs out under a
leader at work. `PROJECT.json` lists these hazards line by line with the
properties that cover them.

## Modules

```
NodeObject ── UpdateOperator ──┐
     └─────── UpdateAgent ─────┴─ RebootCluster ─┬─ RebootInvariant ─┬─ MCReboot ──────┬─ MCHistory
                                  │ (INSTANCE)   │                   └─ RebootProofs ──┼─┐
                                  RebootLock     └─ RebootHistory ─────────────────────┴─┴─ RebootHistoryProofs

NodeRequests ─┬─ (INSTANCE) AtomicUpdates     PodDrain ─┬─ MCPodDrain
              └─ NodeRequestsProofs                     └─ PodDrainProofs
AgentManager ─── AgentManagerProofs           StatusPipeline ─── StatusPipelineProofs
LeaderElection ─ LeaderElectionProofs         RebootWindow ───── RebootWindowProofs
```

The modules of the second group open up what the first takes for one step or one
bit: `NodeRequests` the atomic `UpdateNodeRetry`, `PodDrain` the action
`DrainPods`, `StatusPipeline` the action `updateStatusCallback` and the fairness
assumed of it, `LeaderElection` the assumption that there is one operator,
`RebootWindow` which way the test of the window goes, `AgentManager` the
assumption that agents run. They share no variables with the first group: each is checked by
itself, with the interface named here.

**NodeObject.** The Node object as a record of the keys that some selector
reads. `reboot-needed` and `reboot-in-progress` keep three values, since code
compares them with `"true"` and with `"false"`, and absent is neither; for the
other keys only "equal to `true`" matters. `UpdateNodeRetry` is an atomic
application of its closure to the current object: the API server refuses an
Update of an outdated version, and the function then reads again. A call that
fails has taken effect at once or not at all: that its Update may still be
carried out later, when the caller has gone on, is only in `NodeRequests`. The
Set wrappers are `UpdateNodeRetry` with the closures named in the other modules.

**UpdateOperator.** A pass is `phase` and `todo`. `List...` actions are the List
requests: everything a function's filters compute comes from the list, so the
list is represented by the nodes it selects. One action per function then
updates one node of `todo` at a time, in any order (the order of the API
server's list is not promised). Only `cleanupState` tests its condition again at
the update; the others write unconditionally, as in the code.
`CheckRebootWindow` reads the clock after the list has been made; where a window
is configured either outcome is possible (`InsideWindow`, `OutsideWindow`).
`ProcessFails` stands for a failed request, the operator's death, and the loss
of the lease: the pass is abandoned, with some nodes updated and others not.

**UpdateAgent.** `pc[n]` is the next API or D-Bus request of the agent on node
`n`. A wait is a Get followed by a watch. A watch may report an older version
than the current one, so the agent acts on `event[n]`: some version since the
watch began satisfied the condition. `WatchEvents` keeps that up to date in
every step of the system. `AgentFails` is `process` returning an error, after
which the container is restarted; the loop around `waitForOkToReboot` and the
final week-long sleep have no error exit in the code and none in the model.
`RequestRebootFails` is logind refusing the reboot: the code ignores the error
and sleeps. `AgentKilled` and `PowerLoss` may strike at any point.
`UpdateInstalled`, `MachineDown` and `MachineUp` are the machine.

**RebootCluster.** The composition, the environment, fairness, and the
properties. Every disturbance draws on a `Budget` per kind (`update`, `abort`,
`error`, `refuse`, `crash`, `late`, `admin`), which bounds the state space for
TLC and lets the proofs say precisely which disturbances a theorem tolerates: the
theorems hold for every budget.

**RebootLock** is the abstract specification: a place is held in preparation, in
the reboot and in the after-reboot checks, and is given out when one is free.
`LockSpec` says that the system implements it under the mapping `lockOf`, which
reads a node's place in the protocol off its Node object. The lock has a gap: a
node that has returned and whose after-reboot checks have not begun
(`rebooted`) is in nobody's count. That is where the programs fall short of the
documented lock, which is stated as `LockReleasedAfterChecks` and refuted by
`EarlyRelease`; `OverlapBound`, which is proved, says how far they fall short.

**RebootHistory** adds history variables, for properties about what happened
earlier: how often an agent set out on its permission, which check annotations
were written since the before-reboot label (`passedBefore`) and since the
permission (`passedAfter`), which nodes have crashed. They restrict nothing. The
two sets of annotations are recorded apart, since the code lets both lists name
the same annotation. **RebootInvariant** holds the inductive invariants.
**MCReboot** and **MCHistory** hold the budgets for TLC.

**StatusPipeline.** One agent's way from `update_engine` to its annotations. The
connection's one reader (`inWorker`, vendored godbus) dispatches D-Bus messages
in order, and puts a signal into the client's channel with a send that waits for
room. `ReceiveStatuses` calls `GetStatus` only when `process` has come past the
wait for `reboot-ok` to clear, and its error is dropped: an empty status is sent
in its place (`failing` says whether that happens in a behaviour). Then come the
channel of one, the change filter of `watchUpdateStatus`, and the callback.
`MaxEarly` is the number of signals `update_engine` may send before `GetStatus`
is answered, and `early` counts those it has sent: with more of them than the
channel holds the channel is overrun (`Overrun`). 32, the length of the channel,
is a parameter.

**NodeRequests.** Calls of `UpdateNodeRetry`, `Unschedulable` and `GetNodeRetry`
at one Node, one action per request. The Node is the set of writers whose change
it holds; a copy is `current`, `old`, or empty. Updates are refused on conflict;
an Update whose answer is lost may have been carried out or be carried out later
(`LateUpdate`). After a conflict `UpdateNodeRetry` reads again, while
`Unschedulable` goes on with the empty object that the refused Update returned,
which client-go does not send. **AtomicUpdates** is what callers rely on: a write
happens at one moment, is never undone, and has happened when success is
reported. `AtomicSpec` says that `NodeRequests` implements it, which is why the
other modules may take a call for one step. One thing it does not justify: in
`AtomicUpdates` the write of a call that has failed may still happen at any
later time, and in `RebootCluster` it may not.

**PodDrain.** The drain of one node, from cordon to reboot, with the lookup of
each pod's owner, each delete and each wait as an action, and scheduler, kubelet
and DaemonSet controller at work beside it. The scheduler works in three steps:
its copy of the Node is brought up to date some time after the cordon
(`SchedulerInformed`), it assigns a pod by that copy (`Assign`), and binds it
later (`Bind`); the API server takes a binding to a cordoned node. Pods that need
no scheduler come from the kubelet and the DaemonSet controller only (`PodComes`):
nobody else makes pods with `spec.nodeName` set. DaemonSets are deleted and made
anew at any time. A pod stands for one UID. `failed` remembers the pods for which
a lookup or a poll failed, `unaware` those assigned before the scheduler knew of
the cordon, `existed` and `missing` the DaemonSets that existed, or did not, at
some time since the List, so that the properties can say what excuses what.
`MCPodDrain` gives the owner references.

**LeaderElection.** `withLeaderElection` and client-go's `LeaderElector`, with
time. Requests take up to `Latency`; the renew poll ticks every `RetryPeriod`
and ends at `RenewDeadline`, after which one more attempt is made. A lost leader
exits, as `OnStoppedLeading` calls `Fatalf`.

**AgentManager.** `runDaemonsetUpdate` request by request for operators of
several versions following each other, with a death after any request, and
`legacyLabeler` beside it. A DaemonSet is its name and version. A DaemonSet
without the operator's labels may have the name the operator uses (`taken`), and
then Create answers AlreadyExists.

**RebootWindow.** `Periodic.Previous` in minutes of a week, and the operator's
two readings of the clock with time passing in between.

## Properties and runs

| Run | Instance | What it shows |
|---|---|---|
| `KillFree` | 2 nodes, one place; an aborted pass, an agent error, a refused reboot, an act of the administrator | `OneRebootAtATime`, `RebootPermitted`, refinement `LockSpec` (places held through the after-reboot checks), inductive invariant `RebootInv`, `TypeOK` |
| `Crashes` | 2 nodes with both kinds of checks; a kill or a power loss anywhere, a late check result | `NoRebootLoop`, `BeforeRebootBound`, `GrantAfterChecks`; `UncordonAfterChecks` and `CrashesStayLocal` of the nodes that have not crashed |
| `Progress` | 2 nodes competing for one place, a check, a reboot window, a crash, a refused reboot with its week of sleep | `RebootCompleted` (liveness): every update is applied, every permission returned, every node schedulable again |
| `Status` | 3 operations, channel of 2, up to 3 early signals, 4 in all, a restart, `GetStatus` may fail | `RequestJustified`; unless the channel is overrun, `NoDeadlock`, `RebootAnnounced` and `StatusCaughtUp` (liveness); once it is, `DeafWhenOverrun` |
| `Requests` | two `UpdateNodeRetry`, one `Unschedulable`, one `GetNodeRetry`, `kubectl`, heartbeats without bound, 4 steps of backoff | refinement `AtomicSpec`, its invariant `CopyInv`; `CallsEnd` (liveness) |
| `Drain` | a pod of each kind, a scheduler that lags behind, a DaemonSet that comes and goes, every request may fail, grace period 600 s or 0 | `WorkloadGone`, `DaemonPodsKept`; `DrainEnds` (liveness) |
| `Leader` | 2 operators, the code's lease in units of 5 s (18/12/6), requests of up to 5 s, 2 faults | `OneLeader`; `LeaderReturns` (liveness) |
| `Manager` | 3 versions, 3 deaths of the operator, its DaemonSet's name free or taken, 3 nodes of which 2 run Container Linux, a failed label, an act of the administrator | `RunsWithAgents`, `ManageableKept`; `AgentsManaged`, `NodesLabelled` (liveness) |
| `Window` | every accepted configuration of a week of 7 days of 3 minutes, 24 minutes beyond the first week | `PreviousIsLatest`, `WindowExact` |

Three more runs check what the repository's documentation or comments say, and
TLC refutes each of them:

| Run | Says | Does |
|---|---|---|
| `KilledAgent` | README.md:25: one node at a time | an agent restarted between List and Update of `checkBeforeReboot` leaves a permission that is not counted; once `reboot-needed` is back, it is used, beside another node's |
| `EarlyRelease` | cmd/update-operator/main.go:33: the operator lock is released after the after-reboot checks; operator.go:470: nodes running these checks count as rebooting | a node that returns between the Lists of `markAfterReboot` and `markBeforeReboot` is in none of the lists counted, so the next node is labelled and may reboot during the first one's checks |
| `LatePod` | README.md:5-6: the node is drained before it is rebooted | a pod assigned before the scheduler has seen the cordon and bound after the List is neither deleted nor waited for |

### Observations

Modelling brought up more that a maintainer may want to know; the models have
these outcomes, and the properties excuse them by name or say nothing of them.

- operator.go:371 says a node found not to want a reboot any more just loses its
  label; the closure at operator.go:387 does not look again, so a node paused
  between List and Update is permitted to reboot.
- doc/reboot-windows.md:19 says the operator reboots only inside the window; the
  window is tested when a node is labelled, and the permission comes a pass or
  more later.
- agent.go:95 says a cordon of somebody else's is kept; one set between the read
  at agent.go:158 and the agent's own cordon is taken for the agent's.
- updateengine/client.go:91 reads the channel of signals only after the answer of
  `GetStatus`. With one early signal more than the channel holds, godbus's reader
  (conn.go:345) waits for room and never reads the answer, and nobody makes room:
  the agent, which README.md:19-20 says waits for NEED_REBOOT, never hears of it
  (`DeafWhenOverrun`).
- agent.go:419 compares UIDs before it looks at the error. Beside an error
  client-go returns an empty pod, whose UID differs, so a failed Get ends the
  wait for a pod that runs, where the comment at agent.go:424 says that most
  errors are transient and polling continues; hence `failed` in `WorkloadGone`.
- drain.go:38 takes any error in reading a DaemonSet for its absence, and the pod
  is deleted, perhaps the agent's own; drain.go:27-29 says that pods of an
  existing DaemonSet are skipped. Hence `failed` in `DaemonPodsKept`.
- agent.go:417 with `--grace-period=0` (cmd/update-agent/main.go:19): to the
  poller a timeout of 0 is none, and the drain may wait for ever; `DrainEnds`
  says that nothing else makes it.
- updateengine/client.go:98 passes on signals older than the answer of
  `GetStatus`, so the status annotation goes back in time for a while;
  `StatusCaughtUp` says that it recovers.
- k8sutil/retry.go:87 shadows `lastErr`: after four failed Gets `GetNodeRetry`
  returns neither node nor error, and the agent dereferences nil.
- k8sutil/metadata.go:141 makes the first conflict the end of `Unschedulable`,
  and of the agent, which starts over.
- operator.go:259: `OneLeader` needs five requests (the last of the poll in
  flight and the final attempt, Get, Update and answer each) to take less than
  the 30 s between renew deadline and lease, and nothing in the code bounds a
  request. With requests of 6 s (15, 10, 5 and a `Latency` of 1 in units of 6 s)
  TLC finds two leaders, who may label a node each, since `markBeforeReboot`
  counts on a list of its own.
- agent_manager.go:65 writes the label without looking again: an opt-out that is
  set between List and Update is overwritten, where agent_manager.go:40-41 speaks
  of nodes lacking the label.
- agent_manager.go:132: when another DaemonSet has the name, the old agents are
  deleted before Create is refused, and every operator that follows exits at the
  same place; hence `~taken` in `AgentsManaged`.

### Bounds

Two nodes and one place (`maxRebootingNodes = 1`, the value in the code) are
enough for contention. Two updates let both nodes compete or one node go through
two rounds, so that leftovers of the first round meet the second. One check
annotation of each kind is enough, since `hasAllAnnotations` treats them alike.
One disturbance of each kind may strike in every state, and the kinds combine
within a run. Nodes are interchangeable, so the safety runs of the cluster use
symmetry; the liveness runs do not. The proofs remove the bounds for the
properties they cover.

In `Status` the channel is shortened to 2, with one early signal more: empty,
full and overrun all happen. Three operations allow a
change and its reversal. In `Requests` three writers with the code's four steps
let a call run out of attempts; heartbeats are unbounded. In `Drain` there is one
pod of each kind (plain, mirror, kube-system, and one whose owner references name
a DaemonSet that never exists and one that comes and goes), and faults are
unbounded. In `Leader` a unit of time is 5 s; two
faults allow a lost answer followed by a death. In `Manager` three versions
allow an upgrade past a rollback, three deaths one at each request, and two
Container Linux nodes a label that fails beside one that does not. In
`Window` a day has three minutes, so that first, middle and last minute of a day
differ, and windows run over midnight and the end of the week.

Deadlock checking is off where the system may rightly stop: `Status` (nothing
more to tell), `Drain` and `LatePod` (the drain ends), `Window` (the clock is
bounded).

### Fairness

`FairSpec` of `RebootCluster` assumes weak fairness of

- the operator's next step: `wait.Until` calls `process` for ever, and
  Kubernetes restarts the operator;
- each agent's next request: an agent that waits for nothing makes it, and an
  error exit ends in a restart by the DaemonSet;
- the status callback: it retries until it succeeds. That the status reaches it
  is what `RebootAnnounced` shows, unless the channel of signals is overrun;
- the machine: an accepted reboot happens, a machine that is down comes up, the
  week's sleep ends;
- a check pod whose label is there passes in the end. The code cannot promise
  that, but without it the node rightly waits.

Nothing is assumed of faults or of the administrator. `FairWindowSpec` adds that
again and again a pass reads the clock inside the window: a window recurs and
should outlast the interval between passes. This is an assumption about the
configuration: a window shorter than the 30 s interval can be missed. Fairness
does not include `WatchOkFails`, so a watch may expire any number of times but
need not. `Progress` leaves the administrator's budget at 0: a node
paused for good is never rebooted, and rightly so.

In `StatusPipeline` every goroutine that can go on does, the connection is read,
and `update_engine` answers a call; nothing makes it send a signal. In
`NodeRequests` every request ends, in an answer or an error; which of them is
left open, and nothing is assumed of late requests. In `PodDrain` the agent goes
on, and its timeouts fire; the kubelet is not assumed ever to stop a pod. In
`LeaderElection` time passes and live processes go on; a dead one need not come
back. In `AgentManager` the operator goes on and is restarted, and `wait.Until`
calls the labeler again.

## Proofs

The theorems about the cluster hold for every finite set of nodes, all sets of
annotations, every positive `maxRebootingNodes`, with or without a window, and
every budget; the named assumptions are `NodesAssumption`, `MaxAssumption`,
`WindowAssumption` and `BudgetAssumption`. The others hold for all values of
their modules' constants that satisfy the assumptions named there.

`RebootProofs`, whatever crashes:

- `TypeCorrect`: `Spec => []TypeOK`.
- `BeforeRebootBounded`: `Spec => []BeforeRebootBound`. The bound on labels is
  not inductive: `markBeforeReboot` decides on its List and writes later. The
  invariant `LabelInv` adds that, while it is about to write, the labels that
  are there *together with* those still to come are within the bound. No agent
  and nobody but `markBeforeReboot` sets the label, so the union only shrinks
  between List and the last Update.

`RebootProofs`, assuming `NoCrashes` (no agent is killed and no machine loses
power; aborted passes, agent errors, refused reboots, late checks and the
administrator are all allowed):

- `RebootInvariantHolds`: `RebootInv` is an invariant. For each node (`NodeInv`)
  it says what position of the agent goes with what annotations (`AgentKnows`),
  that labels agree with annotations (`LabelsAgree`), and that a node the
  operator selected from its list is still in the selected condition when it is
  updated (`TodoCurrent`); and of all nodes together, that places taken are
  within the bound, and that while `markBeforeReboot` has places to give, those
  are too, together with the places taken and the nodes in their after-reboot
  checks (`PlacesInv`). `TodoCurrent` is the heart of it: the operator's
  unconditional writes are safe because the agent of a selected node waits and
  does not touch `reboot-needed`. A killed agent breaks just this, as
  `KilledAgent` shows, so the assumption cannot be dropped.
- `OneRebootAtATimeHolds`: at most `maxRebootingNodes` machines are out of
  service, since every agent in its reboot section, and every machine that is
  down, holds a place (`AgentKnows`).
- `RebootPermittedHolds`: an agent that drains or reboots still has its
  permission.
- `ImplementsLock`: `Spec => LockSpec`. Every step maps to a step of the lock or
  leaves it unchanged; `PlacesInv` yields the free place a `Reserve` needs, free
  also of nodes in their after-reboot checks, and no node gets there while
  places are given out.
- `OverlapBoundHolds`: the nodes between their label and the end of their
  after-reboot checks are at most `2 * maxRebootingNodes`, which is what is left
  of the documented lock. By `OverlapInv` every node that is back is one the
  selector of `markAfterReboot` recognises (`ReturnSeen`), so that after the
  function's List only nodes that had a place at the List can be back and not
  selected; with the places taken they are within the bound (`LateReturns`), and
  `markBeforeReboot` adds at most `maxRebootingNodes` to them.

The step lemmas behind these are stated for an arbitrary set of nodes,
`RebootInvOf(S)`: a step that crashes no node of `S` keeps it, whatever it does
to the others (`RebootInvStep`), and it holds of every smaller set
(`RebootInvFewer`). `NodeInv` speaks of one node only; `PlacesInv(S)` counts the
places of `S` only, and `markBeforeReboot` counts at least those.

`RebootHistoryProofs`, for any number of crashes, kills and power losses:

- `CrashesStayLocalHolds`: a crash harms only the node it strikes. Of the nodes
  that have not crashed at most `maxRebootingNodes` are out of service, and each
  that drains or reboots has its permission. The invariant is `RebootInvOf`, of
  the nodes that have not crashed after the step; the crash that `KilledAgent`
  shows costs one place for the node killed, and no more.
- `NoRebootLoopHolds`, of all nodes. The invariant `LoopInv` says where an agent
  that has set out can be until its permission is taken away (`UsedUp`: rebooting,
  starting, or waiting for `reboot-ok` to clear, with no event for that yet), and
  that afterwards no event of the old permission is left in a watch for the next.
- `GrantAfterChecksHolds`, of all nodes. `BeforeInv`: on a labelled node the
  before-reboot annotations are of this round, as `markBeforeReboot` deletes the
  old ones in the Update that sets the label; what `checkBeforeReboot` listed was
  complete in this round; and `markBeforeReboot` never begins a round for a node
  that has its permission, since it selected nodes without one and only an
  earlier function of the pass gives one.
- `UncordonAfterChecksHolds`, of the nodes that have not crashed. `AfterInv`: the
  same for the after-reboot round, and a cordon left by an agent whose permission
  is gone is one the checks have passed for. It needs `NodeInv`: with an agent
  killed between List and Update of `checkBeforeReboot`, the after-reboot round
  may run before the reboot, and the property fails.

`NodeRequestsProofs`, for any number of callers, writers and attempts, and
requests that fail, conflict, or are carried out late:

- `RequestsTypeCorrect`, `CopiesCurrent`: `TypeOK` and `CopyInv`. The inductive
  invariant `RequestsInv` adds that only the empty object has no
  resourceVersion (`NoneIsEmpty`; the server would accept any other without
  comparing), that an attempt under way is within the backoff (`AttemptLeft`),
  and what a call's position says (`PositionInv`): success means the write is
  on the server, and a request in flight belongs to a call that has reported an
  error.
- `CallsAreAtomic`: `Spec => AtomicSpec`. An accepted Update stores the server's
  object with the caller's change, by `CopyInv`; a late one is the write of a
  call that has failed, which `AtomicUpdates` allows.

`PodDrainProofs`, for every set of pods, DaemonSets and owner references:

- `DrainTypeCorrect`, `WorkloadGoneHolds`: the invariant `DrainInv` accounts for
  every pod on the node at every stage (`Accounted`): spared, bound behind the
  List, still to be looked at, for deletion, or waited for. A pod that comes
  after the List is one of a DaemonSet that exists then, or was assigned by a
  scheduler that did not know of the cordon (`Cordoned`, `ListedBound`). That the
  last case is real is what `LatePod` shows.
- `DaemonPodsKeptHolds`: each DaemonSet of a pod for deletion was missing at some
  time since the List, unless reading it failed (`SinceList`, `Deletable`). Made
  anew between lookup and delete it does not save its pod.

`AgentManagerProofs`, for every set of versions and nodes and any number of
operators one after the other:

- `ManagerTypeCorrect`, `RunsWithAgentsHolds`, `ManageableKeptHolds`: what an
  operator found out is still so when it acts on it (`FoundInv`), as one operator
  works at a time. `verdict` reads the list as the code does, first test first. A
  Create that is refused ends the process and changes nothing.

`StatusPipelineProofs`, for all operations, channel lengths and numbers of
signals and restarts:

- `TypeCorrect`: in particular no channel holds more than its length.
- `NoDeadlockHolds`, `DeafWhenOverrunHolds`: connection and receiver block each
  other only if more signals came early than the channel holds, and then until the
  process ends. Until `ReceiveStatuses` reads, every signal is in the channel or on
  the bus, the early ones before the answer of `GetStatus`, so that the answer is
  reached just when they all fit (`EarlyInv`).
- `RequestJustifiedHolds`: news of a needed reboot is nowhere in the pipeline
  before `update_engine` needs one (`NewsInv`).

`LeaderElectionProofs`, for any set of operators and all durations:

- `TypeCorrect`: with it a leader lives at most four requests beyond its renew
  deadline, which needs how far the poll is at each of its requests (`PollInv`).
- `OneLeaderHolds`, assuming `Prompt` (`RenewDeadline + 5 * Latency <
  LeaseDuration`), from `LeaseInv`: who leads is the holder; whoever has seen a
  leader's record has known it for at most one request longer than the leader's
  poll lasts (`Young`); and who is about to overwrite another's record has known
  it for the whole lease (`ExpiredInv`). Under `Prompt` both cannot be
  (`NoTakeover`). The code's durations satisfy it for requests below 6 s.

`RebootWindowProofs`, for every length of the day and every configuration that
`ParsePeriodic` accepts. `NowAssumption` says that the clock runs for a week at
least, as the operator's clock is in its second week at first:

- `PreviousIsLatestHolds`: the arithmetic of `Previous` is worked out once, in
  `PreviousFinds`, for daily and weekly windows, with the facts about `%` and
  multiples it takes.
- `WindowExactHolds`: a decision to label is made inside a window, and at one
  and the same time inside a window always.

## Only model-checked

- Liveness (`RebootCompleted`, `RebootAnnounced`, `StatusCaughtUp`, `CallsEnd`,
  `DrainEnds`, `LeaderReturns`, `AgentsManaged`, `NodesLabelled`): it rests on
  fairness and `ENABLED`, outside the prover's reach.
- The absence of deadlock in the runs that check it, for the same reason.

Every invariant, action property and refinement of a passing run is a theorem.

## Not modelled

- Nodes joining or leaving while a pass runs: the set of nodes is fixed.
- Keys that nobody reads: version, id, group, the reboot-needed label. The
  functions that read version and update configuration from files and write
  these keys (`GetVersionInfo` and its helpers) keep no state.
- Two operators at once: `RebootCluster` has one operator, `LeaderElection` says
  when there is no other.
- Requests that are carried out after the program has moved on, but for those in
  `NodeRequests`, at one Node. In `RebootCluster` an Update whose caller fails is
  carried out at once or never. A label of `markBeforeReboot` that is set in a
  later pass, for instance, could be one more than `BeforeRebootBound` allows:
  the theorems about the cluster are about systems without such delays.
- Pods that somebody makes with `spec.nodeName` set: they would pass by the
  cordon like late bindings.
- A pod made anew under the name of a listed pod, perhaps on another node:
  `Delete` names no UID.
- `--manage-agent=false`, the default, where `runDaemonsetUpdate` is not called.
- Time zones and daylight saving: the operator's container runs on UTC.
- `RebootNeededSignal` and `AttemptUpdate` of the client, `Next` and
  `DurationToStart` of `Periodic`: nobody calls them.
- Start-up plumbing (flags, environment, clients, version), mocks and generated
  code: no state worth modelling.

## Plan

Every component with state of its own is modelled, and every safety property
that holds is proved. What could come next:

1. The reboot lock with crashes: an abstract lock in which a crash takes a node
   out of the lock's books, implemented by the system for any number of crashes,
   as `CrashesStayLocal` suggests.
2. A theorem that joins `LeaderElection` and `RebootCluster`: what two operators
   at work at once can do to the bound, where `Prompt` does not hold.
